----------------------- MODULE SaleTransactionsProofs -----------------------
(***************************************************************************)
(* Proofs about SaleTransactions for any products, requests, keys, orders, *)
(* administrators and initial stock.                                       *)
(***************************************************************************)
EXTENDS SaleTransactions, TLAPS

-----------------------------------------------------------------------------
(* Orders.                                                                 *)

\* An order counts the units of a product it names as its line does.
LEMMA CantidadOfLine ==
    ASSUME NEW l, IsOrder(l), NEW j \in DOMAIN l
    PROVE  CantidadOf(l, l[j].product) = l[j].cantidad
<1> DEFINE k == CHOOSE i \in DOMAIN l : l[i].product = l[j].product
<1>1. k \in DOMAIN l /\ l[k].product = l[j].product
  OBVIOUS
<1>2. k = j
  BY <1>1 DEF IsOrder
<1> QED
  BY <1>2 DEF CantidadOf

\* It counts a natural number of units of every product.
LEMMA CantidadOfType ==
    ASSUME NEW l, IsOrder(l), NEW p
    PROVE  /\ CantidadOf(l, p) \in Nat
           /\ (\A j \in DOMAIN l : l[j].product # p) => CantidadOf(l, p) = 0
<1>1. CASE \E j \in DOMAIN l : l[j].product = p
  <2>1. PICK j \in DOMAIN l : l[j].product = p
    BY <1>1
  <2>2. l[j] \in OrderLine
    BY DEF IsOrder
  <2> QED
    BY <2>1, <2>2, CantidadOfLine DEF OrderLine
<1>2. CASE ~ \E j \in DOMAIN l : l[j].product = p
  BY <1>2 DEF CantidadOf
<1> QED
  BY <1>1, <1>2

\* Whatever the order its items are read back in, a stored sale is an order.
LEMMA ReorderedIsOrder ==
    ASSUME NEW o, IsOrder(o), NEW l \in Reorderings(o)
    PROVE  IsOrder(l)
<1>1. PICK f \in Bijection(DOMAIN o, DOMAIN o) : l = [i \in DOMAIN o |-> o[f[i]]]
  BY DEF Reorderings
<1>2. /\ f \in [DOMAIN o -> DOMAIN o]
      /\ \A i, j \in DOMAIN o : f[i] = f[j] => i = j
  BY <1>1 DEF Bijection, Injection, IsInjective
<1>3. o \in Seq(OrderLine) /\ o # << >> /\ Len(o) \in Nat /\ DOMAIN o = 1..Len(o)
  BY DEF IsOrder
<1>4. l \in Seq(OrderLine)
  BY <1>1, <1>2, <1>3
<1>5. DOMAIN l = DOMAIN o /\ l # << >>
  BY <1>1, <1>3, <1>4
<1> QED
  BY <1>1, <1>2, <1>4, <1>5 DEF IsOrder

\* The line a handler is at.
LEMMA LineType ==
    ASSUME TypeOK, NEW r \in Request, MoreLines(r)
    PROVE  /\ idx[r] \in DOMAIN lines[r]
           /\ Line(r) \in OrderLine
           /\ Line(r).product \in Product
           /\ Line(r).cantidad \in Nat \ {0}
<1>1. lines[r] \in Seq(OrderLine) /\ idx[r] \in Nat \ {0}
  BY DEF TypeOK
<1>2. idx[r] \in DOMAIN lines[r]
  BY <1>1 DEF MoreLines
<1>3. Line(r) \in OrderLine
  BY <1>1, <1>2 DEF Line
<1> QED
  BY <1>2, <1>3 DEF OrderLine
-----------------------------------------------------------------------------
(* The types, with what each handler knows.                                *)

\* What a rollback and a commit do to the types.
LEMMA RollbackType ==
    ASSUME TypeOK, NEW r \in Request, NEW outcome \in Outcome, Rollback(r, outcome)
    PROVE  TypeOK'
BY DEF TypeOK, Rollback, Finish, Goto, ReleaseLocks, database, Step, Resource

LEMMA CommitRowsType ==
    ASSUME TypeOK, NEW r \in Request, NEW motivo \in Motivo, NEW sign \in {1, -1},
           pc[r] \in {"commit", "restore"}, lines[r] # << >>, CommitRows(r, motivo, sign)
    PROVE  /\ stock' \in [Product -> Int]
           /\ movements' \in [Motivo -> [Product -> Int]]
           /\ lock' \in [Resource -> Request \cup {None}]
           /\ pc' \in [Request -> Step]
           /\ answer' \in [Request -> Outcome]
<1>1. \A p \in Product : CantidadOf(lines[r], p) \in Nat
  BY CantidadOfType DEF TypeOK
<1>2. stock' \in [Product -> Int] /\ lock' \in [Resource -> Request \cup {None}]
  BY DEF CommitRows, TypeOK, ReleaseLocks, Resource
<1>3. movements' \in [Motivo -> [Product -> Int]]
  BY <1>1 DEF CommitRows, TypeOK
<1>4. pc' \in [Request -> Step] /\ answer' \in [Request -> Outcome]
  BY DEF CommitRows, TypeOK, Finish, Goto, Step, Outcome
<1> QED
  BY <1>2, <1>3, <1>4

\* Taking the row of the current line.
LEMMA WriteLineType ==
    ASSUME TypeOK, NEW r \in Request, MoreLines(r), NEW s \in Int, WriteLine(r, s)
    PROVE  TypeOK'
<1>1. Line(r).product \in Product
  BY LineType
<1> QED
  BY <1>1 DEF TypeOK, WriteLine, database, Resource
\* Every step keeps the types.
LEMMA TypeStep ==
    ASSUME TypeOK, HandlerInv, SeriesInv, StockNeverNegative, [Next]_vars
    PROVE  TypeOK'
<1> USE DEF Step, Outcome
<1>1. ASSUME NEW r \in Request, Arrive(r) PROVE TypeOK'
  <2>1. ASSUME NEW o \in Orders, NEW k \in Key \cup {NoKey}, PostSale(r, o, k) PROVE TypeOK'
    <3>1. IsOrder(o) /\ o \in Seq(OrderLine)
      BY OrdersAssumption DEF IsOrder
    <3> QED
      BY <2>1, <3>1 DEF TypeOK, PostSale, Goto, database, rows
  <2>2. ASSUME NEW o \in Orders, NEW k \in Key \cup {NoKey}, PostRepeatedSale(r, o, k) PROVE TypeOK'
    <3>1. target' \in [Request -> Request]
      BY <2>2 DEF TypeOK, PostRepeatedSale, SalesWithKey
    <3>2. IsOrder(o) /\ o \in Seq(OrderLine)
      BY OrdersAssumption DEF IsOrder
    <3> QED
      BY <2>2, <3>1, <3>2 DEF TypeOK, PostRepeatedSale, Finish, Goto, database, rows
  <2>3. ASSUME NEW q \in Request, PostVoid(r, q) PROVE TypeOK'
    <3>1. sale[q] \in SaleRow
      BY <2>3 DEF TypeOK, PostVoid, NoSale
    <3>2. lines' \in [Request -> Seq(OrderLine)] /\ IsOrder(sale[q].lines)
      BY <2>3, <3>1 DEF TypeOK, PostVoid, SaleRow
    <3> QED
      BY <2>3, <3>2 DEF TypeOK, PostVoid, Goto, database, rows
  <2>4. ASSUME NEW q \in Request, RejectVoid(r, q) PROVE TypeOK'
    BY <2>4 DEF TypeOK, RejectVoid, Finish, Goto, database, rows
  <2> QED
    BY <1>1, <2>1, <2>2, <2>3, <2>4 DEF Arrive
<1>2. ASSUME NEW r \in Request, Serve(r) PROVE TypeOK'
  <2>1. CASE GetOpenSession(r) \/ ResolveProduct(r) \/ AcceptTotals(r) \/ FlushSale(r) \/ Reply(r)
    <3>1. CASE GetOpenSession(r) \/ FlushSale(r)
      BY <3>1 DEF TypeOK, GetOpenSession, FlushSale, Goto, database, rows
    <3>4. CASE Reply(r)
      BY <3>4 DEF TypeOK, Reply, Goto, Outcome, database, rows
    <3>2. CASE ResolveProduct(r)
      BY <3>2 DEF TypeOK, ResolveProduct, database, rows
    <3>3. CASE AcceptTotals(r)
      BY <3>3 DEF TypeOK, AcceptTotals, Goto, database, rows
    <3> QED
      BY <2>1, <3>1, <3>2, <3>3, <3>4
  <2>2. CASE \E outcome \in Outcome : Rollback(r, outcome)
    BY <2>2, RollbackType
  <2>3. CASE DecrementStock(r) \/ RestoreStock(r)
    <3>1. /\ MoreLines(r)
          /\ \E s \in Int : WriteLine(r, s)
      BY <2>3, LineType DEF DecrementStock, RestoreStock, TypeOK
    <3> QED
      BY <3>1, WriteLineType
  <2>4. CASE TakeCorrelativo(r)
    BY <2>4 DEF TypeOK, TakeCorrelativo, Goto, database, Resource
  <2>5. CASE CommitSale(r)
    <3>1. /\ pc[r] = "commit" /\ CommitRows(r, "venta", -1) /\ lines[r] # << >>
      BY <2>5 DEF CommitSale, HandlerInv, HandlerOK, Working
    <3>2. /\ stock' \in [Product -> Int]
          /\ movements' \in [Motivo -> [Product -> Int]]
          /\ lock' \in [Resource -> Request \cup {None}]
          /\ pc' \in [Request -> Step]
          /\ answer' \in [Request -> Outcome]
      BY <3>1, CommitRowsType DEF Motivo
    <3>3. PICK items \in Reorderings(lines[r]) : sale' = [sale EXCEPT ![r] = NewSale(correlativo[r], key[r], items)]
      BY <2>5 DEF CommitSale
    <3>4. IsOrder(items)
      BY <3>1, <3>3, ReorderedIsOrder DEF TypeOK
    <3>5. correlativo[r] \in Nat \ {0}
      BY <3>1 DEF SeriesInv, Numbered, TypeOK
    <3>6. NewSale(correlativo[r], key[r], items) \in SaleRow
      BY <3>4, <3>5 DEF NewSale, SaleRow, TypeOK, IsOrder
    <3>7. sale' \in [Request -> SaleRow \cup {NoSale}]
      BY <3>3, <3>6 DEF TypeOK
    <3> QED
      BY <2>5, <3>1, <3>2, <3>7 DEF TypeOK, CommitSale, CommitRows
  <2>6. CASE CommitVoid(r)
    <3>1. /\ pc[r] = "restore" /\ CommitRows(r, "anulacion", 1) /\ lines[r] # << >>
          /\ target[r] \in Request /\ sale[target[r]] \in SaleRow
      BY <2>6 DEF CommitVoid, HandlerInv, HandlerOK, Working, TypeOK
    <3>2. /\ stock' \in [Product -> Int]
          /\ movements' \in [Motivo -> [Product -> Int]]
          /\ lock' \in [Resource -> Request \cup {None}]
          /\ pc' \in [Request -> Step]
          /\ answer' \in [Request -> Outcome]
      BY <3>1, CommitRowsType DEF Motivo
    <3>3. sale' \in [Request -> SaleRow \cup {NoSale}]
      BY <2>6, <3>1 DEF CommitVoid, TypeOK, SaleRow
    <3> QED
      BY <2>6, <3>1, <3>2, <3>3 DEF TypeOK, CommitVoid, CommitRows
  <2>7. \/ GetOpenSession(r) \/ ResolveProduct(r) \/ AcceptTotals(r) \/ FlushSale(r) \/ Reply(r)
        \/ \E outcome \in Outcome : Rollback(r, outcome)
        \/ DecrementStock(r) \/ RestoreStock(r)
        \/ TakeCorrelativo(r) \/ CommitSale(r) \/ CommitVoid(r)
    BY <1>2 DEF Serve, RejectSession, ProductNotFound, RejectTotals, InsufficientStock, DuplicateKey, DeadlockVictim
  <2> QED
    BY <2>1, <2>2, <2>3, <2>4, <2>5, <2>6, <2>7
<1>3. CASE Administer
  <2> USE DEF database, rows, handler, EditForm, NoEdit
  <2>1. ASSUME NEW a \in Admin, NEW p \in Product, OpenProductForm(a, p) PROVE TypeOK'
    BY <2>1 DEF TypeOK, OpenProductForm, StockNeverNegative
  <2>2. ASSUME NEW a \in Admin, SubmitProductForm(a) PROVE TypeOK'
    <3>1. edit[a].product \in Product /\ edit[a].value \in Nat
      BY <2>2 DEF TypeOK, SubmitProductForm
    <3>2. stock[edit[a].product] \in Nat
      BY <3>1 DEF TypeOK, StockNeverNegative
    <3>3. edit' \in [Admin -> EditForm]
      BY <2>2, <3>1, <3>2, StockEnteredAssumption DEF TypeOK, SubmitProductForm
    <3> QED
      BY <2>2, <3>3 DEF TypeOK, SubmitProductForm
  <2>3. ASSUME NEW a \in Admin, SaveStock(a) \/ SaveNothing(a) PROVE TypeOK'
    <3>1. edit[a].product \in Product /\ edit[a].value \in Nat
      BY <2>3 DEF TypeOK, SaveStock, SaveNothing
    <3>2. edit' \in [Admin -> EditForm]
      BY <2>3 DEF TypeOK, SaveStock, SaveNothing
    <3> QED
      BY <2>3, <3>1, <3>2 DEF TypeOK, SaveStock, SaveNothing
  <2>4. ASSUME NEW p \in Product, NEW value \in BOOLEAN, SetActive(p, value) PROVE TypeOK'
    BY <2>4 DEF TypeOK, SetActive
  <2> QED
    BY <1>3, <2>1, <2>2, <2>3, <2>4 DEF Administer
<1>4. CASE Restart
  BY <1>4 DEF TypeOK, Restart, database, EditForm, NoEdit
<1>5. CASE UNCHANGED vars
  BY <1>5 DEF TypeOK, vars, database, rows, handler
<1> QED
  BY <1>1, <1>2, <1>3, <1>4, <1>5 DEF Next
-----------------------------------------------------------------------------
(* What the handlers know.                                                 *)

\* A step of the server for r moves one of its cases on, or ends r.
LEMMA ServeCases ==
    ASSUME TypeOK, NEW r \in Request, Serve(r)
    PROVE  \/ GetOpenSession(r) \/ ResolveProduct(r) \/ AcceptTotals(r) \/ FlushSale(r) \/ Reply(r)
           \/ TakeCorrelativo(r)
           \/ DecrementStock(r) \/ RestoreStock(r)
           \/ (\E outcome \in Failure : Rollback(r, outcome)) /\ pc'[r] = "reply" /\ pc[r] \in Working
           \/ CommitSale(r) /\ pc'[r] = "reply"
           \/ CommitVoid(r) /\ pc'[r] = "reply"
<1>1. \A outcome : Finish(r, outcome) => pc'[r] = "reply"
  BY DEF TypeOK, Finish, Goto
<1>2. CASE RejectSession(r) \/ ProductNotFound(r) \/ RejectTotals(r)
           \/ InsufficientStock(r) \/ DuplicateKey(r) \/ DeadlockVictim(r)
  BY <1>1, <1>2 DEF RejectSession, ProductNotFound, RejectTotals, InsufficientStock, DuplicateKey,
                    DeadlockVictim, Waiting, NeedsRow, Rollback, Failure, Outcome, Working
<1>3. CASE CommitSale(r) \/ CommitVoid(r)
  BY <1>1, <1>3 DEF CommitSale, CommitVoid, CommitRows
<1> QED
  BY <1>2, <1>3 DEF Serve

\* It leaves the other handlers alone ...
LEMMA ServeLocal ==
    ASSUME TypeOK, NEW r \in Request, Serve(r), NEW q \in Request, q # r
    PROVE  /\ pc'[q] = pc[q] /\ lines'[q] = lines[q] /\ idx'[q] = idx[q]
           /\ key'[q] = key[q] /\ target'[q] = target[q] /\ answer'[q] = answer[q]
           /\ correlativo'[q] = correlativo[q]
<1> USE DEF TypeOK, Goto, Finish
<1>1. CASE GetOpenSession(r) \/ ResolveProduct(r) \/ AcceptTotals(r) \/ FlushSale(r) \/ Reply(r)
  BY <1>1 DEF GetOpenSession, ResolveProduct, AcceptTotals, FlushSale, Reply
<1>2. CASE TakeCorrelativo(r)
  BY <1>2 DEF TakeCorrelativo
<1>3. CASE DecrementStock(r) \/ RestoreStock(r)
  BY <1>3 DEF DecrementStock, RestoreStock, WriteLine
<1>4. CASE \E outcome \in Failure : Rollback(r, outcome)
  BY <1>4 DEF Rollback
<1>5. CASE CommitSale(r) \/ CommitVoid(r)
  BY <1>5 DEF CommitSale, CommitVoid, CommitRows
<1> QED
  BY <1>1, <1>2, <1>3, <1>4, <1>5, ServeCases

\* ... and the stored sales, but for the one it creates or the one it voids.
LEMMA ServeSales ==
    ASSUME TypeOK, HandlerInv, NEW r \in Request, Serve(r)
    PROVE  /\ \A q \in Request : q # r /\ sale[q] = NoSale => sale'[q] = NoSale
           /\ \A t \in Request : sale[t] # NoSale =>
                /\ sale'[t] # NoSale
                /\ sale'[t].lines = sale[t].lines
                /\ sale'[t].key = sale[t].key
                /\ sale'[t].correlativo = sale[t].correlativo
<1>1. CASE UNCHANGED sale
  BY <1>1
<1>2. CASE CommitSale(r)
  <2>1. sale[r] = NoSale
    BY <1>2 DEF CommitSale, HandlerInv, HandlerOK
  <2> QED
    BY <1>2, <2>1 DEF CommitSale, TypeOK
<1>3. CASE CommitVoid(r)
  <2>1. sale[target[r]] # NoSale /\ target[r] \in Request
    BY <1>3 DEF CommitVoid, HandlerInv, HandlerOK, TypeOK
  <2>2. sale[target[r]] \in SaleRow
    BY <2>1 DEF TypeOK
  <2> QED
    BY <1>3, <2>1, <2>2 DEF CommitVoid, TypeOK, SaleRow, NoSale
<1> QED
  BY <1>1, <1>2, <1>3, ServeCases DEF GetOpenSession, ResolveProduct, AcceptTotals, FlushSale, Reply,
     TakeCorrelativo, DecrementStock, RestoreStock, WriteLine, Rollback, database

\* A step that leaves a handler alone, and its sale and the one it voids, keeps
\* what it knows.
LEMMA HandlerFrame ==
    ASSUME TypeOK, NEW q \in Request, HandlerOK(q),
           pc'[q] = pc[q], lines'[q] = lines[q], idx'[q] = idx[q], key'[q] = key[q],
           target'[q] = target[q], answer'[q] = answer[q],
           sale[q] = NoSale => sale'[q] = NoSale,
           pc[q] = "restore" /\ sale[target[q]] # NoSale =>
              sale'[target[q]] # NoSale /\ sale'[target[q]].lines = sale[target[q]].lines
    PROVE  HandlerOK(q)'
BY DEF HandlerOK, MoreLines

\* Every step keeps what the handlers know.
LEMMA HandlerStep ==
    ASSUME TypeOK, HandlerInv, [Next]_vars
    PROVE  HandlerInv'
<1> USE DEF Working, Numbered
<1>1. ASSUME NEW r \in Request, Arrive(r) PROVE HandlerInv'
  <2>1. ASSUME NEW q \in Request, q # r PROVE HandlerOK(q)'
    <3>1. UNCHANGED sale /\ pc'[q] = pc[q] /\ lines'[q] = lines[q] /\ idx'[q] = idx[q]
          /\ key'[q] = key[q] /\ target'[q] = target[q] /\ answer'[q] = answer[q]
      BY <1>1, <2>1 DEF Arrive, PostSale, PostRepeatedSale, PostVoid, RejectVoid, Goto, Finish, database, TypeOK
    <3> QED
      BY <3>1, HandlerFrame DEF HandlerInv
  <2>2. HandlerOK(r)'
    <3>1. ASSUME NEW o \in Orders, NEW k \in Key \cup {NoKey}, PostSale(r, o, k) PROVE HandlerOK(r)'
      BY <3>1, OrdersAssumption DEF HandlerInv, HandlerOK, PostSale, Goto, database, TypeOK, IsOrder, MoreLines
    <3>2. ASSUME NEW o \in Orders, NEW k \in Key \cup {NoKey}, PostRepeatedSale(r, o, k) PROVE HandlerOK(r)'
      BY <3>2 DEF HandlerInv, HandlerOK, PostRepeatedSale, Finish, Goto, database, TypeOK
    <3>3. ASSUME NEW q \in Request, PostVoid(r, q) PROVE HandlerOK(r)'
      <4>1. sale[q] \in SaleRow
        BY <3>3 DEF TypeOK, PostVoid, NoSale
      <4>2. sale[q] # NoSale /\ sale[q].lines # << >>
        BY <3>3, <4>1 DEF PostVoid, NoSale, SaleRow, IsOrder
      <4> QED
        BY <3>3, <4>2 DEF HandlerInv, HandlerOK, PostVoid, Goto, database, TypeOK
    <3>4. ASSUME NEW q \in Request, RejectVoid(r, q) PROVE HandlerOK(r)'
      BY <3>4 DEF HandlerInv, HandlerOK, RejectVoid, Finish, Goto, database, TypeOK
    <3> QED
      BY <1>1, <3>1, <3>2, <3>3, <3>4 DEF Arrive
  <2> QED
    BY <2>1, <2>2 DEF HandlerInv
<1>2. ASSUME NEW r \in Request, Serve(r) PROVE HandlerInv'
  <2>1. ASSUME NEW q \in Request, q # r PROVE HandlerOK(q)'
    <3>1. /\ pc'[q] = pc[q] /\ lines'[q] = lines[q] /\ idx'[q] = idx[q]
          /\ key'[q] = key[q] /\ target'[q] = target[q] /\ answer'[q] = answer[q]
      BY <1>2, <2>1, ServeLocal
    <3>2. /\ sale[q] = NoSale => sale'[q] = NoSale
          /\ \A t \in Request : sale[t] # NoSale => sale'[t] # NoSale /\ sale'[t].lines = sale[t].lines
      BY <1>2, <2>1, ServeSales
    <3> QED
      BY <3>1, <3>2, HandlerFrame DEF HandlerInv, TypeOK
  <2>2. HandlerOK(r)'
    <3>1. CASE GetOpenSession(r) \/ ResolveProduct(r) \/ AcceptTotals(r) \/ FlushSale(r) \/ Reply(r)
      BY <3>1 DEF HandlerInv, HandlerOK, GetOpenSession, ResolveProduct, AcceptTotals, FlushSale, Reply, Goto, database, TypeOK, MoreLines
    <3>2. CASE TakeCorrelativo(r)
      BY <3>2 DEF HandlerInv, HandlerOK, TakeCorrelativo, Goto, database, TypeOK, MoreLines
    <3>3. CASE DecrementStock(r) \/ RestoreStock(r)
      BY <3>3 DEF HandlerInv, HandlerOK, DecrementStock, RestoreStock, WriteLine, database, TypeOK
    <3>4. CASE pc'[r] = "reply"
      BY <3>4 DEF HandlerOK
    <3> QED
      BY <1>2, <3>1, <3>2, <3>3, <3>4, ServeCases
  <2> QED
    BY <2>1, <2>2 DEF HandlerInv
<1>3. CASE Administer
  BY <1>3, HandlerFrame DEF Administer, OpenProductForm, SubmitProductForm, SaveStock, SaveNothing, SetActive, handler, database, HandlerInv
<1>4. CASE Restart
  BY <1>4 DEF Restart, InFlight, HandlerInv, HandlerOK, TypeOK, database, MoreLines
<1>5. CASE UNCHANGED vars
  BY <1>5, HandlerFrame DEF vars, handler, database, HandlerInv
<1> QED
  BY <1>1, <1>2, <1>3, <1>4, <1>5 DEF Next
-----------------------------------------------------------------------------
(* Row locks and uncommitted stock.                                        *)

\* The indices and products of a handler's lines.
LEMMA LinesType ==
    ASSUME TypeOK
    PROVE  /\ Product \subseteq Resource
           /\ \A q \in Request : idx[q] \in Nat \ {0}
           /\ \A q \in Request : \A j \in DOMAIN lines[q] : j \in Nat \ {0} /\ lines[q][j].product \in Product
<1>1. ASSUME NEW q \in Request, NEW j \in DOMAIN lines[q]
      PROVE  j \in Nat \ {0} /\ lines[q][j].product \in Product
  <2>1. lines[q] \in Seq(OrderLine)
    BY DEF TypeOK
  <2>2. j \in Nat \ {0} /\ lines[q][j] \in OrderLine
    BY <2>1
  <2> QED
    BY <2>2 DEF OrderLine
<1> QED
  BY <1>1 DEF TypeOK, Resource

LEMMA LinesTypeNext ==
    ASSUME TypeOK'
    PROVE  \A q \in Request : \A j \in DOMAIN lines'[q] : j \in Nat \ {0}
BY DEF TypeOK

\* The row of the current line is not yet locked by the handler itself: an order
\* names each product once.
LEMMA LineRowIsFree ==
    ASSUME TypeOK, HandlerInv, LockInv, NEW r \in Request, pc[r] \in {"decrement", "restore"},
           MoreLines(r), Grantable(Line(r).product, r)
    PROVE  /\ lock[Line(r).product] = None
           /\ pendingStock[Line(r).product] = stock[Line(r).product]
           /\ CantidadOf(lines[r], Line(r).product) = Line(r).cantidad
<1>1. /\ idx[r] \in DOMAIN lines[r] /\ Line(r).product \in Product /\ Line(r) = lines[r][idx[r]]
      /\ IsOrder(lines[r])
  BY LineType DEF Line, HandlerInv, HandlerOK, Working, TypeOK
<1>2. lock[Line(r).product] # r
  <2>1. SUFFICES ASSUME lock[Line(r).product] = r PROVE FALSE
    OBVIOUS
  <2>2. PICK j \in DOMAIN lines[r] : j < idx[r] /\ lines[r][j].product = lines[r][idx[r]].product
    BY <1>1, <2>1 DEF LockInv
  <2>3. j = idx[r]
    BY <1>1, <2>2 DEF IsOrder
  <2> QED
    BY <2>2, <2>3 DEF TypeOK
<1>3. lock[Line(r).product] = None
  BY <1>2 DEF Grantable
<1> QED
  BY <1>1, <1>3, CantidadOfLine DEF LockInv

\* A transaction that ends gives its rows back, committed or undone, and touches
\* no other row.
LEMMA LockEnd ==
    ASSUME TypeOK, LockInv, NEW r \in Request,
           lock' = [x \in Resource |-> IF lock[x] = r THEN None ELSE lock[x]],
           pendingStock' \in [Product -> Int], stock' \in [Product -> Int],
           \A p \in Product : IF lock[p] = r THEN pendingStock'[p] = stock'[p]
                              ELSE pendingStock'[p] = pendingStock[p] /\ stock'[p] = stock[p],
           pc'[r] = "reply",
           \A q \in Request \ {r} : pc'[q] = pc[q] /\ lines'[q] = lines[q] /\ idx'[q] = idx[q]
    PROVE  LockInv'
<1>1. \A p \in Product : p \in Resource
  BY DEF Resource
<1>2. \A q \in Request, x \in Resource : lock'[x] = q => q # r /\ lock[x] = q
  BY LockAssumption
<1>3. \A p \in Product : lock'[p] = None => pendingStock'[p] = stock'[p]
  BY <1>1 DEF LockInv
<1>4. \A q \in Request, x \in Resource : lock'[x] = q => pc'[q] \in Holding
  BY <1>2 DEF LockInv
<1>5. ASSUME NEW q \in Request, NEW p \in Product, lock'[p] = q
      PROVE  /\ \E j \in DOMAIN lines'[q] : j < idx'[q] /\ lines'[q][j].product = p
             /\ pendingStock'[p] = IF pc'[q] = "restore" THEN stock'[p] + CantidadOf(lines'[q], p)
                                                         ELSE stock'[p] - CantidadOf(lines'[q], p)
  <2>1. q # r /\ lock[p] = q
    BY <1>1, <1>2, <1>5
  <2> QED
    BY <2>1 DEF LockInv
<1>6. ASSUME NEW q \in Request, pc'[q] \in Holding, NEW j \in DOMAIN lines'[q], j < idx'[q]
      PROVE  lock'[lines'[q][j].product] = q
  <2>1. q # r
    BY <1>6 DEF Holding
  <2>2. lock[lines[q][j].product] = q
    BY <1>6, <2>1 DEF LockInv
  <2>3. lines[q][j].product \in Resource
    BY <1>6, <2>1, LinesType
  <2> QED
    BY <2>1, <2>2, <2>3
<1> QED
  BY <1>3, <1>4, <1>5, <1>6 DEF LockInv

\* Every step keeps the discipline of the row locks.
LEMMA LockStep ==
    ASSUME TypeOK, TypeOK', HandlerInv, LockInv, [Next]_vars
    PROVE  LockInv'
<1>1. ASSUME NEW r \in Request, Arrive(r) PROVE LockInv'
  <2>1. /\ UNCHANGED << stock, pendingStock, lock >> /\ pc[r] = "idle" /\ idx'[r] = 1
        /\ pc'[r] \in {"session", "restore", "reply"}
        /\ \A q \in Request \ {r} : pc'[q] = pc[q] /\ lines'[q] = lines[q] /\ idx'[q] = idx[q]
    BY <1>1 DEF Arrive, PostSale, PostRepeatedSale, PostVoid, RejectVoid, Goto, Finish,
                database, rows, TypeOK, HandlerInv, HandlerOK
  <2>2. \A x \in Resource : lock[x] # r
    BY <2>1 DEF LockInv, Holding
  <2> QED
    <3>1. \A p \in Product : lock[p] # r
      BY <2>2, LinesType
    <3>2. \A j \in DOMAIN lines'[r] : ~(j < idx'[r])
      BY <2>1, LinesTypeNext
    <3> QED
      BY <2>1, <2>2, <3>1, <3>2 DEF LockInv, Holding
<1>2. ASSUME NEW r \in Request, Serve(r) PROVE LockInv'
  <2>1. \A q \in Request \ {r} : pc'[q] = pc[q] /\ lines'[q] = lines[q] /\ idx'[q] = idx[q]
    BY <1>2, ServeLocal
  <2>2. CASE GetOpenSession(r) \/ ResolveProduct(r) \/ Reply(r)
    <3>1. /\ UNCHANGED << stock, pendingStock, lock >>
          /\ pc[r] \notin Holding /\ pc'[r] \notin Holding
      BY <2>2 DEF GetOpenSession, ResolveProduct, Reply, Goto, database, rows, Holding, TypeOK
    <3> QED
      BY <2>1, <3>1 DEF LockInv, Resource
  <2>3. CASE AcceptTotals(r)
    <3>1. /\ UNCHANGED << stock, pendingStock, lock >>
          /\ pc[r] \notin Holding /\ pc'[r] = "decrement" /\ idx'[r] = 1
      BY <2>3 DEF AcceptTotals, Goto, database, rows, Holding, TypeOK
    <3> QED
      BY <2>1, <3>1, LinesTypeNext, LinesType DEF LockInv, Holding
  <2>4. CASE FlushSale(r)
    <3>1. /\ UNCHANGED << stock, pendingStock, lock, lines, idx >>
          /\ pc[r] = "flush" /\ pc'[r] = "commit"
      BY <2>4 DEF FlushSale, Goto, database, rows, TypeOK
    <3> QED
      BY <2>1, <3>1 DEF LockInv, Resource, Holding
  <2>5. CASE TakeCorrelativo(r)
    <3>1. /\ UNCHANGED << stock, pendingStock, lines, idx >>
          /\ pc[r] = "decrement" /\ pc'[r] = "flush"
          /\ lock' = [lock EXCEPT ![Serie] = r]
      BY <2>5 DEF TakeCorrelativo, Goto, database, TypeOK
    <3>2. \A p \in Product : lock'[p] = lock[p]
      BY <3>1, LockAssumption DEF TypeOK, Resource
    <3>3. \A q \in Request, y \in Resource : lock'[y] = q => pc'[q] \in Holding
      BY <2>1, <3>1, <3>2 DEF LockInv, Resource, Holding, TypeOK
    <3>4. \A q \in Request : pc'[q] \in Holding =>
            \A j \in DOMAIN lines[q] : j < idx[q] => lock'[lines[q][j].product] = q
      BY <2>1, <3>1, <3>2, LinesType DEF LockInv, Holding
    <3> QED
      BY <2>1, <3>1, <3>2, <3>3, <3>4 DEF LockInv
  <2>6. CASE DecrementStock(r) \/ RestoreStock(r)
    <3> DEFINE x == Line(r).product
    <3>1. /\ pc[r] \in {"decrement", "restore"} /\ MoreLines(r) /\ Grantable(x, r)
          /\ x \in Product /\ x = lines[r][idx[r]].product /\ idx[r] \in DOMAIN lines[r]
      BY <2>6, LineType DEF DecrementStock, RestoreStock, Line
    <3>2. /\ lock[x] = None
          /\ pendingStock[x] = stock[x]
          /\ CantidadOf(lines[r], x) = Line(r).cantidad
      BY <3>1, LineRowIsFree
    <3>3. /\ UNCHANGED << stock, pc, lines >>
          /\ lock' = [lock EXCEPT ![x] = r]
          /\ idx' = [idx EXCEPT ![r] = @ + 1]
          /\ \A p \in Product : p # x => pendingStock'[p] = pendingStock[p]
          /\ pendingStock'[x] = IF pc[r] = "restore" THEN stock[x] + Line(r).cantidad
                                                     ELSE stock[x] - Line(r).cantidad
      BY <2>6, <3>1, <3>2 DEF DecrementStock, RestoreStock, WriteLine, database, TypeOK
    <3>4. /\ lock'[x] = r /\ idx'[r] = idx[r] + 1
          /\ \A y \in Resource : y # x => lock'[y] = lock[y]
          /\ \A q \in Request : q # r => idx'[q] = idx[q]
      BY <3>1, <3>3 DEF TypeOK, Resource
    <3>5. \A p \in Product : lock'[p] = None => pendingStock'[p] = stock'[p]
      BY <3>3, <3>4, LockAssumption DEF LockInv, Resource
    <3>6. \A q \in Request, y \in Resource : lock'[y] = q => pc'[q] \in Holding
      BY <3>1, <3>3, <3>4 DEF LockInv, Holding
    <3>7. ASSUME NEW q \in Request, NEW p \in Product, lock'[p] = q
          PROVE  /\ \E j \in DOMAIN lines'[q] : j < idx'[q] /\ lines'[q][j].product = p
                 /\ pendingStock'[p] = IF pc'[q] = "restore" THEN stock'[p] + CantidadOf(lines'[q], p)
                                                             ELSE stock'[p] - CantidadOf(lines'[q], p)
      <4>1. CASE p = x
        <5>1. q = r
          BY <3>4, <3>7, <4>1
        <5>2. idx[r] < idx'[r] /\ idx[r] \in DOMAIN lines'[r] /\ lines'[r][idx[r]].product = p
          BY <3>1, <3>3, <3>4, <4>1, LinesType
        <5> QED
          BY <3>2, <3>3, <4>1, <5>1, <5>2
      <4>2. CASE p # x
        <5>1. lock[p] = q /\ pendingStock'[p] = pendingStock[p]
          BY <3>3, <3>4, <3>7, <4>2 DEF Resource
        <5>2. idx[q] <= idx'[q] /\ idx[q] \in Nat /\ idx'[q] \in Nat
          BY <3>4, LinesType
        <5>3. \A j \in DOMAIN lines[q] : j \in Nat
          BY LinesType
        <5>4. PICK j \in DOMAIN lines[q] : j < idx[q] /\ lines[q][j].product = p
          BY <5>1 DEF LockInv
        <5>5. j < idx'[q]
          BY <5>2, <5>3, <5>4
        <5> QED
          BY <3>3, <5>1, <5>4, <5>5 DEF LockInv
      <4> QED
        BY <4>1, <4>2
    <3>8. ASSUME NEW q \in Request, pc'[q] \in Holding, NEW j \in DOMAIN lines'[q], j < idx'[q]
          PROVE  lock'[lines'[q][j].product] = q
      <4>1. lines[q][j].product \in Product /\ lines[q][j].product \in Resource /\ j \in Nat
        BY <3>3, <3>8, LinesType
      <4>2. CASE q = r /\ j = idx[r]
        BY <3>1, <3>3, <3>4, <4>2
      <4>3. CASE ~(q = r /\ j = idx[r])
        <5>1. j < idx[q]
          BY <3>3, <3>4, <3>8, <4>1, <4>3, LinesType
        <5>2. lock[lines[q][j].product] = q
          BY <3>3, <3>8, <5>1 DEF LockInv
        <5>3. lines[q][j].product # x
          BY <3>2, <5>2, LockAssumption
        <5> QED
          BY <3>3, <3>4, <4>1, <5>2, <5>3
      <4> QED
        BY <4>2, <4>3
    <3> QED
      BY <3>5, <3>6, <3>7, <3>8 DEF LockInv
  <2>7. CASE (\E outcome \in Failure : Rollback(r, outcome)) /\ pc'[r] = "reply"
    <3>1. /\ lock' = [y \in Resource |-> IF lock[y] = r THEN None ELSE lock[y]]
          /\ stock' = stock
          /\ pendingStock' = [p \in Product |-> IF lock[p] = r THEN stock[p] ELSE pendingStock[p]]
      BY <2>7 DEF Rollback, ReleaseLocks, database
    <3> QED
      BY <2>1, <2>7, <3>1, LockEnd DEF TypeOK
  <2>8. CASE (CommitSale(r) \/ CommitVoid(r)) /\ pc'[r] = "reply"
    <3>1. /\ lock' = [y \in Resource |-> IF lock[y] = r THEN None ELSE lock[y]]
          /\ pendingStock' = pendingStock
          /\ stock' = [p \in Product |-> IF lock[p] = r THEN pendingStock[p] ELSE stock[p]]
      BY <2>8 DEF CommitSale, CommitVoid, CommitRows, ReleaseLocks
    <3> QED
      BY <2>1, <2>8, <3>1, LockEnd DEF TypeOK
  <2> QED
    BY <1>2, <2>2, <2>3, <2>4, <2>5, <2>6, <2>7, <2>8, ServeCases
<1>3. CASE Administer
  <2>1. ASSUME NEW a \in Admin, SaveStock(a) PROVE LockInv'
    <3>1. /\ UNCHANGED << lock, pc, lines, idx >>
          /\ lock[edit[a].product] = None /\ edit[a].product \in Product
          /\ \A p \in Product : p # edit[a].product => stock'[p] = stock[p] /\ pendingStock'[p] = pendingStock[p]
          /\ stock'[edit[a].product] = pendingStock'[edit[a].product]
      BY <2>1 DEF SaveStock, handler, TypeOK, EditForm, NoEdit
    <3> QED
      BY <3>1, LockAssumption DEF LockInv
  <2>2. CASE UNCHANGED << stock, rows, handler >>
    BY <2>2 DEF LockInv, rows, handler
  <2> QED
    BY <1>3, <2>1, <2>2 DEF Administer, OpenProductForm, SubmitProductForm, SaveNothing, SetActive, database
<1>4. CASE Restart
  <2>1. /\ \A y \in Resource : lock'[y] = None
        /\ pendingStock' = stock /\ stock' = stock
        /\ \A q \in Request : pc'[q] \notin Holding
    BY <1>4 DEF Restart, database, TypeOK, InFlight, Holding
  <2> QED
    BY <2>1, LockAssumption DEF LockInv, Resource
<1>5. CASE UNCHANGED vars
  BY <1>5 DEF LockInv, vars, rows, handler, database
<1> QED
  BY <1>1, <1>2, <1>3, <1>4, <1>5 DEF Next
\* Every step keeps the decremented products of a sale active.
LEMMA ActiveStep ==
    ASSUME TypeOK, TypeOK', HandlerInv, LockInv, ActiveInv, [Next]_vars
    PROVE  ActiveInv'
<1>1. ASSUME NEW r \in Request, Arrive(r) PROVE ActiveInv'
  <2>1. /\ UNCHANGED << lock, active >> /\ pc[r] = "idle"
        /\ \A q \in Request \ {r} : pc'[q] = pc[q]
    BY <1>1 DEF Arrive, PostSale, PostRepeatedSale, PostVoid, RejectVoid, Goto, Finish, database, rows, TypeOK
  <2>2. \A p \in Product : lock[p] # r
    BY <2>1, LinesType DEF LockInv, Holding
  <2> QED
    BY <2>1, <2>2 DEF ActiveInv
<1>2. ASSUME NEW r \in Request, Serve(r) PROVE ActiveInv'
  <2>1. active' = active /\ \A q \in Request \ {r} : pc'[q] = pc[q]
    <3>1. \A q \in Request \ {r} : pc'[q] = pc[q]
      BY <1>2, ServeLocal
    <3>2. active' = active
      BY <1>2, ServeCases DEF GetOpenSession, ResolveProduct, AcceptTotals, FlushSale, Reply, TakeCorrelativo,
         DecrementStock, RestoreStock, WriteLine, Rollback, CommitSale, CommitVoid, CommitRows, database
    <3> QED
      BY <3>1, <3>2
  <2>2. CASE \/ GetOpenSession(r) \/ ResolveProduct(r) \/ AcceptTotals(r) \/ FlushSale(r) \/ Reply(r)
    <3>1. lock' = lock /\ pc[r] # "restore"
      BY <2>2 DEF GetOpenSession, ResolveProduct, AcceptTotals, FlushSale, Reply, rows
    <3> QED
      BY <2>1, <3>1 DEF ActiveInv
  <2>3. CASE TakeCorrelativo(r)
    <3>1. pc[r] = "decrement" /\ \A p \in Product : lock'[p] = lock[p]
      BY <2>3, LockAssumption DEF TakeCorrelativo, TypeOK, Resource
    <3> QED
      BY <2>1, <3>1 DEF ActiveInv
  <2>4. CASE DecrementStock(r) \/ RestoreStock(r)
    <3>1. /\ pc' = pc /\ Line(r).product \in Product
          /\ pc[r] # "restore" => active[Line(r).product]
          /\ lock' = [lock EXCEPT ![Line(r).product] = r]
      BY <2>4, LineType DEF DecrementStock, RestoreStock, WriteLine
    <3> QED
      BY <2>1, <3>1 DEF ActiveInv, TypeOK, Resource
  <2>5. CASE (\E outcome \in Failure : Rollback(r, outcome)) \/ CommitSale(r) \/ CommitVoid(r)
    <3>1. lock' = [x \in Resource |-> IF lock[x] = r THEN None ELSE lock[x]]
      BY <2>5 DEF Rollback, CommitSale, CommitVoid, CommitRows, ReleaseLocks
    <3>2. \A p \in Product, q \in Request : lock'[p] = q => q # r /\ lock[p] = q
      BY <3>1, LinesType, LockAssumption
    <3> QED
      BY <2>1, <3>2 DEF ActiveInv
  <2> QED
    BY <1>2, <2>2, <2>3, <2>4, <2>5, ServeCases
<1>3. CASE Administer
  <2>1. ASSUME NEW p \in Product, NEW value \in BOOLEAN, SetActive(p, value) PROVE ActiveInv'
    BY <2>1, LockAssumption DEF SetActive, ActiveInv, rows, handler, TypeOK
  <2>2. CASE UNCHANGED << active, lock, pc >>
    BY <2>2 DEF ActiveInv
  <2> QED
    BY <1>3, <2>1, <2>2 DEF Administer, OpenProductForm, SubmitProductForm, SaveStock, SaveNothing, database, rows, handler
<1>4. CASE Restart
  BY <1>4, LinesType, LockAssumption DEF Restart, ActiveInv
<1>5. CASE UNCHANGED vars
  BY <1>5 DEF vars, database, rows, handler, ActiveInv
<1> QED
  BY <1>1, <1>2, <1>3, <1>4, <1>5 DEF Next

-----------------------------------------------------------------------------
(* The series row, the correlativos and the keys.                          *)

\* A sale is stored just when its row is not the absent one.
LEMMA ExistsIsStored ==
    ASSUME TypeOK, NEW q \in Request
    PROVE  Exists(q) <=> sale[q] # NoSale
<1>1. sale[q] \in SaleRow \/ sale[q] = NoSale
  BY DEF TypeOK
<1>2. sale[q] \in SaleRow => sale[q].estado \in {"completada", "anulada"}
  BY DEF SaleRow
<1>3. NoSale.estado = "inexistente"
  BY DEF NoSale
<1> QED
  BY <1>1, <1>2, <1>3 DEF Exists

\* The stored sales and the last number change by a commit only.
LEMMA StoredChange ==
    ASSUME [Next]_vars
    PROVE  \/ UNCHANGED << sale, ultimo_correlativo >>
           \/ \E r \in Request : CommitSale(r) \/ CommitVoid(r)
<1>1. ASSUME NEW r \in Request, Arrive(r) PROVE UNCHANGED << sale, ultimo_correlativo >>
  BY <1>1 DEF Arrive, PostSale, PostRepeatedSale, PostVoid, RejectVoid, database
<1>2. ASSUME NEW r \in Request, Serve(r), ~CommitSale(r), ~CommitVoid(r)
      PROVE  UNCHANGED << sale, ultimo_correlativo >>
  BY <1>2 DEF Serve, GetOpenSession, RejectSession, ResolveProduct, ProductNotFound, AcceptTotals,
     RejectTotals, DecrementStock, InsufficientStock, TakeCorrelativo, FlushSale, DuplicateKey,
     RestoreStock, DeadlockVictim, Reply, WriteLine, Rollback, database
<1>3. CASE Administer
  BY <1>3 DEF Administer, OpenProductForm, SubmitProductForm, SaveStock, SaveNothing, SetActive, database
<1>4. CASE Restart \/ UNCHANGED vars
  BY <1>4 DEF Restart, vars, database
<1> QED
  BY <1>1, <1>2, <1>3, <1>4 DEF Next

\* A void leaves every stored sale in place, with its number, its key and its items.
LEMMA VoidKeepsSales ==
    ASSUME TypeOK, HandlerInv, NEW r \in Request, CommitVoid(r)
    PROVE  /\ ultimo_correlativo' = ultimo_correlativo
           /\ \A q \in Request : /\ Exists(q)' <=> Exists(q)
                                 /\ Exists(q) => /\ sale'[q].correlativo = sale[q].correlativo
                                                 /\ sale'[q].key = sale[q].key
<1>1. sale[target[r]] # NoSale /\ target[r] \in Request
  BY DEF CommitVoid, HandlerInv, HandlerOK, TypeOK
<1>2. sale[target[r]] \in SaleRow
  BY <1>1 DEF TypeOK
<1> QED
  BY <1>1, <1>2 DEF CommitVoid, TypeOK, SaleRow, Exists

\* A committed sale is new, carries the next number, and no other sale has its key.
LEMMA SaleIsNew ==
    ASSUME TypeOK, HandlerInv, SeriesInv, NEW r \in Request, CommitSale(r)
    PROVE  /\ ~Exists(r)
           /\ SalesWithKey(key[r]) = {}
           /\ ultimo_correlativo' = ultimo_correlativo + 1
           /\ Exists(r)' /\ sale'[r].correlativo = ultimo_correlativo + 1 /\ sale'[r].key = key[r]
           /\ \A q \in Request \ {r} : sale'[q] = sale[q]
<1>1. pc[r] = "commit" /\ sale[r] = NoSale /\ correlativo[r] = ultimo_correlativo + 1
  BY DEF CommitSale, HandlerInv, HandlerOK, SeriesInv, Numbered
<1> QED
  BY <1>1 DEF CommitSale, NewSale, Exists, NoSale, SeriesInv, TypeOK

\* Every step keeps the discipline of the series row.
LEMMA SeriesStep ==
    ASSUME TypeOK, TypeOK', HandlerInv, SeriesInv, [Next]_vars
    PROVE  SeriesInv'
<1>1. ASSUME NEW r \in Request, Arrive(r) PROVE SeriesInv'
  <2>1. /\ UNCHANGED << lock, correlativo, ultimo_correlativo, sale >>
        /\ pc[r] = "idle" /\ pc'[r] \in {"session", "restore", "reply"}
        /\ \A q \in Request \ {r} : pc'[q] = pc[q] /\ key'[q] = key[q]
    BY <1>1 DEF Arrive, PostSale, PostRepeatedSale, PostVoid, RejectVoid, Goto, Finish, database, rows, TypeOK
  <2> QED
    BY <2>1 DEF SeriesInv, Numbered, SalesWithKey, Exists
<1>2. ASSUME NEW r \in Request, Serve(r) PROVE SeriesInv'
  <2>1. \A q \in Request \ {r} : pc'[q] = pc[q] /\ key'[q] = key[q] /\ correlativo'[q] = correlativo[q]
    BY <1>2, ServeLocal
  <2>2. CASE GetOpenSession(r) \/ ResolveProduct(r) \/ AcceptTotals(r) \/ Reply(r)
    <3>1. /\ UNCHANGED << lock, correlativo, ultimo_correlativo, sale >>
          /\ pc[r] \notin Numbered /\ pc'[r] \notin Numbered
      BY <2>2 DEF GetOpenSession, ResolveProduct, AcceptTotals, Reply, Goto, database, rows, Numbered, TypeOK
    <3> QED
      BY <2>1, <3>1 DEF SeriesInv, Numbered, SalesWithKey, Exists
  <2>3. CASE FlushSale(r)
    <3>1. /\ UNCHANGED << lock, correlativo, ultimo_correlativo, sale, key >>
          /\ pc[r] = "flush" /\ pc'[r] = "commit" /\ SalesWithKey(key[r]) = {}
      BY <2>3 DEF FlushSale, Goto, database, rows, TypeOK
    <3> QED
      BY <2>1, <3>1 DEF SeriesInv, Numbered, SalesWithKey, Exists
  <2>4. CASE TakeCorrelativo(r)
    <3>1. /\ UNCHANGED << ultimo_correlativo, sale >>
          /\ pc[r] = "decrement" /\ pc'[r] = "flush"
          /\ lock'[Serie] = r /\ correlativo'[r] = ultimo_correlativo + 1
          /\ lock[Serie] \in {None, r}
      BY <2>4 DEF TakeCorrelativo, Goto, database, Grantable, Resource, TypeOK
    <3>2. \A q \in Request : pc[q] \notin Numbered
      BY <3>1, LockAssumption DEF SeriesInv, Numbered
    <3> QED
      BY <2>1, <3>1, <3>2 DEF SeriesInv, Numbered
  <2>5. CASE DecrementStock(r) \/ RestoreStock(r)
    <3>1. /\ UNCHANGED << pc, key, correlativo, ultimo_correlativo, sale >>
          /\ lock'[Serie] = lock[Serie]
      BY <2>5, LineType, LockAssumption DEF DecrementStock, RestoreStock, WriteLine, database, Resource, TypeOK
    <3> QED
      BY <3>1 DEF SeriesInv, SalesWithKey, Exists
  <2>6. CASE (\E outcome \in Failure : Rollback(r, outcome)) /\ pc'[r] = "reply"
    <3>1. /\ UNCHANGED << correlativo, ultimo_correlativo, sale, key >>
          /\ lock'[Serie] = IF lock[Serie] = r THEN None ELSE lock[Serie]
      BY <2>6 DEF Rollback, ReleaseLocks, database, Resource
    <3> QED
      BY <2>1, <2>6, <3>1, LockAssumption DEF SeriesInv, Numbered, SalesWithKey, Exists
  <2>7. CASE CommitSale(r) /\ pc'[r] = "reply"
    <3>1. /\ lock[Serie] = r /\ lock'[Serie] = None
      BY <2>7 DEF CommitSale, CommitRows, ReleaseLocks, SeriesInv, Numbered, Resource
    <3>2. \A q \in Request : pc'[q] \notin Numbered
      BY <2>1, <2>7, <3>1 DEF SeriesInv, Numbered
    <3> QED
      BY <3>1, <3>2, LockAssumption DEF SeriesInv, Numbered
  <2>8. CASE CommitVoid(r) /\ pc'[r] = "reply"
    <3>1. pc[r] = "restore" /\ UNCHANGED << correlativo, key >>
      BY <2>8 DEF CommitVoid, CommitRows
    <3>2. lock[Serie] # r /\ lock'[Serie] = lock[Serie]
      BY <2>8, <3>1 DEF CommitVoid, CommitRows, ReleaseLocks, SeriesInv, Numbered, Resource
    <3>3. \A k : SalesWithKey(k)' = SalesWithKey(k)
      BY <2>8, VoidKeepsSales DEF SalesWithKey
    <3> QED
      BY <2>1, <2>8, <3>1, <3>2, <3>3, VoidKeepsSales DEF SeriesInv, Numbered
  <2> QED
    BY <1>2, <2>2, <2>3, <2>4, <2>5, <2>6, <2>7, <2>8, ServeCases
<1>3. CASE Administer
  <2>1. UNCHANGED << lock, handler, ultimo_correlativo, sale >>
    BY <1>3 DEF Administer, OpenProductForm, SubmitProductForm, SaveStock, SaveNothing, SetActive, database, rows
  <2> QED
    BY <2>1 DEF handler, SeriesInv, SalesWithKey, Exists
<1>4. CASE Restart
  <2>1. /\ lock'[Serie] = None
        /\ \A q \in Request : pc'[q] \notin Numbered
    BY <1>4 DEF Restart, TypeOK, InFlight, Numbered, Resource
  <2> QED
    BY <2>1, LockAssumption DEF SeriesInv, Numbered
<1>5. CASE UNCHANGED vars
  BY <1>5 DEF vars, database, rows, handler, SeriesInv, SalesWithKey, Exists
<1> QED
  BY <1>1, <1>2, <1>3, <1>4, <1>5 DEF Next

\* Every step keeps the numbers consecutive.
LEMMA CorrelativosStep ==
    ASSUME TypeOK, HandlerInv, SeriesInv, CorrelativosConsecutive, [Next]_vars
    PROVE  CorrelativosConsecutive'
<1>1. CASE UNCHANGED << sale, ultimo_correlativo >>
  BY <1>1 DEF CorrelativosConsecutive, Exists
<1>2. ASSUME NEW r \in Request, CommitSale(r) PROVE CorrelativosConsecutive'
  <2>1. /\ ~Exists(r) /\ Exists(r)' /\ sale'[r].correlativo = ultimo_correlativo + 1
        /\ ultimo_correlativo' = ultimo_correlativo + 1 /\ ultimo_correlativo \in Nat
        /\ \A q \in Request \ {r} : sale'[q] = sale[q]
    BY <1>2, SaleIsNew DEF TypeOK
  <2>2. \A q \in Request \ {r} : Exists(q)' <=> Exists(q)
    BY <2>1 DEF Exists
  <2>3. ASSUME NEW n \in 1..ultimo_correlativo'
        PROVE  \E q \in Request : Exists(q)' /\ sale'[q].correlativo = n
    <3>1. CASE n = ultimo_correlativo + 1
      BY <2>1, <3>1
    <3>2. CASE n \in 1..ultimo_correlativo
      BY <2>1, <2>2, <3>2 DEF CorrelativosConsecutive
    <3> QED
      BY <2>1, <3>1, <3>2
  <2>4. \A q \in Request : Exists(q)' => sale'[q].correlativo \in 1..ultimo_correlativo'
    BY <2>1, <2>2 DEF CorrelativosConsecutive
  <2>5. ASSUME NEW q1 \in Request, NEW q2 \in Request, Exists(q1)', Exists(q2)',
               sale'[q1].correlativo = sale'[q2].correlativo
        PROVE  q1 = q2
    BY <2>1, <2>2, <2>5 DEF CorrelativosConsecutive
  <2> QED
    BY <2>3, <2>4, <2>5 DEF CorrelativosConsecutive
<1>3. ASSUME NEW r \in Request, CommitVoid(r) PROVE CorrelativosConsecutive'
  BY <1>3, VoidKeepsSales DEF CorrelativosConsecutive
<1> QED
  BY <1>1, <1>2, <1>3, StoredChange

\* Every step keeps a key to one sale.
LEMMA KeysStep ==
    ASSUME TypeOK, HandlerInv, SeriesInv, OneSalePerKey, [Next]_vars
    PROVE  OneSalePerKey'
<1>1. CASE UNCHANGED << sale, ultimo_correlativo >>
  BY <1>1 DEF OneSalePerKey, SalesWithKey, Exists
<1>2. ASSUME NEW r \in Request, CommitSale(r) PROVE OneSalePerKey'
  <2>1. /\ SalesWithKey(key[r]) = {} /\ sale'[r].key = key[r]
        /\ \A q \in Request \ {r} : sale'[q] = sale[q] /\ (Exists(q)' <=> Exists(q))
    BY <1>2, SaleIsNew DEF Exists
  <2> QED
    BY <2>1 DEF OneSalePerKey, SalesWithKey
<1>3. ASSUME NEW r \in Request, CommitVoid(r) PROVE OneSalePerKey'
  BY <1>3, VoidKeepsSales DEF OneSalePerKey, SalesWithKey
<1> QED
  BY <1>1, <1>2, <1>3, StoredChange
-----------------------------------------------------------------------------
(* Stock and answers.                                                      *)

\* Every step keeps the committed and the uncommitted stock natural numbers.
LEMMA StockStep ==
    ASSUME TypeOK, TypeOK', StockNeverNegative, [Next]_vars
    PROVE  StockNeverNegative'
<1>1. ASSUME NEW r \in Request, Arrive(r) PROVE StockNeverNegative'
  BY <1>1 DEF Arrive, PostSale, PostRepeatedSale, PostVoid, RejectVoid, database, rows, StockNeverNegative
<1>2. ASSUME NEW r \in Request, Serve(r) PROVE StockNeverNegative'
  <2>1. CASE \/ GetOpenSession(r) \/ ResolveProduct(r) \/ AcceptTotals(r) \/ FlushSale(r) \/ Reply(r)
             \/ TakeCorrelativo(r)
    BY <2>1 DEF GetOpenSession, ResolveProduct, AcceptTotals, FlushSale, Reply, TakeCorrelativo,
                database, rows, StockNeverNegative
  <2>2. CASE DecrementStock(r)
    <3>1. /\ Line(r).product \in Product /\ Line(r).cantidad \in Nat
          /\ pendingStock[Line(r).product] >= Line(r).cantidad
          /\ stock' = stock
          /\ pendingStock' = [pendingStock EXCEPT ![Line(r).product] = @ - Line(r).cantidad]
      BY <2>2, LineType DEF DecrementStock, WriteLine, database
    <3> QED
      BY <3>1 DEF StockNeverNegative, TypeOK
  <2>3. CASE RestoreStock(r)
    <3>1. /\ Line(r).product \in Product /\ Line(r).cantidad \in Nat
          /\ stock' = stock
          /\ pendingStock' = [pendingStock EXCEPT ![Line(r).product] = @ + Line(r).cantidad]
      BY <2>3, LineType DEF RestoreStock, WriteLine, database
    <3> QED
      BY <3>1 DEF StockNeverNegative, TypeOK
  <2>4. CASE (\E outcome \in Failure : Rollback(r, outcome))
    BY <2>4 DEF Rollback, database, StockNeverNegative
  <2>5. CASE CommitSale(r) \/ CommitVoid(r)
    BY <2>5 DEF CommitSale, CommitVoid, CommitRows, StockNeverNegative
  <2> QED
    BY <1>2, <2>1, <2>2, <2>3, <2>4, <2>5, ServeCases
<1>3. CASE Administer
  <2>1. ASSUME NEW a \in Admin, SaveStock(a) PROVE StockNeverNegative'
    <3>1. edit[a].value \in Nat
      BY <2>1 DEF SaveStock, TypeOK, EditForm, NoEdit
    <3> QED
      BY <2>1, <3>1 DEF SaveStock, TypeOK, StockNeverNegative
  <2>2. CASE UNCHANGED << stock, pendingStock >>
    BY <2>2 DEF StockNeverNegative
  <2> QED
    BY <1>3, <2>1, <2>2 DEF Administer, OpenProductForm, SubmitProductForm, SaveNothing, SetActive, database, rows
<1>4. CASE Restart \/ UNCHANGED vars
  BY <1>4 DEF Restart, vars, database, rows, StockNeverNegative
<1> QED
  BY <1>1, <1>2, <1>3, <1>4 DEF Next

\* Stored sales stay stored, under the key they were stored with.
LEMMA SalesStay ==
    ASSUME TypeOK, HandlerInv, SeriesInv, [Next]_vars, NEW q \in Request
    PROVE  /\ Exists(q) => Exists(q)' /\ sale'[q].key = sale[q].key
           /\ ~Exists(q) /\ Exists(q)' => CommitSale(q)
<1>1. CASE UNCHANGED << sale, ultimo_correlativo >>
  BY <1>1 DEF Exists
<1>2. ASSUME NEW r \in Request, CommitSale(r)
      PROVE  /\ Exists(q) => Exists(q)' /\ sale'[q].key = sale[q].key
             /\ ~Exists(q) /\ Exists(q)' => CommitSale(q)
  BY <1>2, SaleIsNew DEF Exists
<1>3. ASSUME NEW r \in Request, CommitVoid(r)
      PROVE  /\ Exists(q) => Exists(q)' /\ sale'[q].key = sale[q].key
             /\ ~Exists(q) /\ Exists(q)' => CommitSale(q)
  BY <1>3, VoidKeepsSales
<1> QED
  BY <1>1, <1>2, <1>3, StoredChange

\* What an answer to r says of the stored sales.
AnswerIsTrue(r) ==
    /\ answer[r] \in Failure => ~Exists(r)
    /\ answer[r] \in {"ok", "reread_failed"} =>
         /\ Exists(target[r])
         /\ key[r] # NoKey => sale[target[r]].key = key[r]

\* An answer that was given stays true.
LEMMA AnswerStays ==
    ASSUME TypeOK, HandlerInv, SeriesInv, [Next]_vars, NEW q \in Request, AnswerIsTrue(q),
           answer'[q] = answer[q], target'[q] = target[q], key'[q] = key[q]
    PROVE  AnswerIsTrue(q)'
<1>1. target[q] \in Request
  BY DEF TypeOK
<1>2. CASE answer[q] \in Failure
  <2>1. ~Exists(q) /\ ~CommitSale(q)
    <3>1. pc[q] \in {"reply", "done"}
      BY <1>2 DEF HandlerInv, HandlerOK, Failure, TypeOK
    <3> QED
      BY <1>2, <3>1 DEF AnswerIsTrue, CommitSale
  <2> QED
    BY <1>2, <2>1, SalesStay DEF AnswerIsTrue, Failure
<1>3. CASE answer[q] \in {"ok", "reread_failed"}
  BY <1>1, <1>3, SalesStay DEF AnswerIsTrue, Failure
<1>4. CASE answer[q] \notin Failure \cup {"ok", "reread_failed"}
  BY <1>4 DEF AnswerIsTrue
<1> QED
  BY <1>2, <1>3, <1>4

\* Every step answers with the truth and keeps the answers true.
LEMMA AnswersStep ==
    ASSUME TypeOK, HandlerInv, SeriesInv, AnswersAreTrue, [Next]_vars
    PROVE  AnswersAreTrue'
<1> USE DEF Failure, Outcome
<1>1. AnswersAreTrue <=> \A q \in Request : AnswerIsTrue(q)
  BY DEF AnswersAreTrue, AnswerIsTrue
<1>2. SUFFICES ASSUME NEW q \in Request PROVE AnswerIsTrue(q)'
  BY DEF AnswersAreTrue, AnswerIsTrue
<1>3. ASSUME NEW r \in Request, Arrive(r) PROVE AnswerIsTrue(q)'
  <2>1. CASE q # r
    BY <1>1, <1>3, <2>1, AnswerStays DEF Arrive, PostSale, PostRepeatedSale, PostVoid, RejectVoid, Finish, TypeOK
  <2>2. CASE q = r
    <3>1. pc[r] = "idle" /\ answer[r] = "none" /\ sale[r] = NoSale /\ sale' = sale
      BY <1>3 DEF Arrive, PostSale, PostRepeatedSale, PostVoid, RejectVoid, HandlerInv, HandlerOK, database
    <3>2. CASE answer'[r] = "none"
      BY <2>2, <3>2 DEF AnswerIsTrue
    <3>3. ASSUME NEW o \in Orders, NEW k \in Key \cup {NoKey}, PostRepeatedSale(r, o, k) PROVE AnswerIsTrue(r)'
      <4>1. PICK t \in SalesWithKey(k) : target' = [target EXCEPT ![r] = t]
        BY <3>3 DEF PostRepeatedSale
      <4>2. /\ t \in Request /\ Exists(t) /\ sale[t].key = k
            /\ target'[r] = t /\ key'[r] = k /\ answer'[r] = "ok"
        BY <3>3, <4>1 DEF PostRepeatedSale, SalesWithKey, Finish, TypeOK
      <4> QED
        BY <3>1, <4>2 DEF AnswerIsTrue, Exists
    <3>4. ASSUME NEW t \in Request, RejectVoid(r, t) PROVE AnswerIsTrue(r)'
      BY <3>1, <3>4 DEF AnswerIsTrue, RejectVoid, Finish, TypeOK, Exists, NoSale
    <3> QED
      BY <1>3, <2>2, <3>1, <3>2, <3>3, <3>4 DEF Arrive, PostSale, PostVoid
  <2> QED
    BY <2>1, <2>2
<1>4. ASSUME NEW r \in Request, Serve(r) PROVE AnswerIsTrue(q)'
  <2>1. CASE q # r
    BY <1>1, <1>4, <2>1, ServeLocal, AnswerStays
  <2>2. CASE q = r
    <3>1. CASE \/ GetOpenSession(r) \/ ResolveProduct(r) \/ AcceptTotals(r) \/ FlushSale(r)
               \/ TakeCorrelativo(r) \/ DecrementStock(r) \/ RestoreStock(r)
      BY <1>1, <2>2, <3>1, AnswerStays DEF GetOpenSession, ResolveProduct, AcceptTotals, FlushSale,
         TakeCorrelativo, DecrementStock, RestoreStock, WriteLine
    <3>5. CASE Reply(r)
      <4>1. /\ UNCHANGED << sale, target, key >>
            /\ answer'[r] = answer[r] \/ (answer[r] = "ok" /\ answer'[r] = "reread_failed")
        BY <3>5 DEF Reply, Committed, database, TypeOK
      <4> QED
        BY <1>1, <2>2, <4>1 DEF AnswerIsTrue, Exists
    <3>2. CASE (\E outcome \in Failure : Rollback(r, outcome)) /\ pc[r] \in Working
      <4>1. sale[r] = NoSale /\ sale' = sale /\ answer'[r] \in Failure
        BY <3>2 DEF HandlerInv, HandlerOK, Working, Rollback, Finish, database, TypeOK
      <4> QED
        BY <2>2, <4>1 DEF AnswerIsTrue, Exists, NoSale
    <3>3. CASE CommitSale(r)
      <4>1. target'[r] = r /\ key'[r] = key[r] /\ answer'[r] = "ok"
        BY <3>3 DEF CommitSale, CommitRows, Finish, HandlerInv, HandlerOK, Working, TypeOK
      <4> QED
        BY <2>2, <3>3, <4>1, SaleIsNew DEF AnswerIsTrue
    <3>4. CASE CommitVoid(r)
      <4>1. /\ target'[r] = target[r] /\ key'[r] = NoKey /\ answer'[r] = "ok"
            /\ target[r] \in Request /\ sale[target[r]] # NoSale
        BY <3>4 DEF CommitVoid, CommitRows, Finish, HandlerInv, HandlerOK, TypeOK
      <4>2. Exists(target[r])'
        BY <3>4, <4>1, ExistsIsStored, VoidKeepsSales
      <4>3. sale'[target'[r]].estado # "inexistente"
        BY <4>1, <4>2 DEF Exists
      <4> QED
        BY <2>2, <4>1, <4>3 DEF AnswerIsTrue, Exists
    <3> QED
      BY <1>4, <3>1, <3>2, <3>3, <3>4, <3>5, ServeCases
  <2> QED
    BY <2>1, <2>2
<1>5. CASE Administer
  BY <1>1, <1>5, AnswerStays DEF Administer, OpenProductForm, SubmitProductForm, SaveStock, SaveNothing, SetActive, handler
<1>6. CASE Restart
  <2>1. CASE InFlight(q)
    BY <1>6, <2>1 DEF Restart, AnswerIsTrue
  <2>2. CASE ~InFlight(q)
    BY <1>1, <1>6, <2>2, AnswerStays DEF Restart
  <2> QED
    BY <2>1, <2>2
<1>7. CASE UNCHANGED vars
  BY <1>1, <1>7, AnswerStays DEF vars, handler
<1> QED
  BY <1>3, <1>4, <1>5, <1>6, <1>7 DEF Next

-----------------------------------------------------------------------------
(* The invariant and its consequences.                                     *)

\* The initial state satisfies the invariant.
LEMMA InitIInv == Init => IInv
<1> SUFFICES ASSUME Init PROVE IInv
  OBVIOUS
<1>1. TypeOK
  BY StockAssumption DEF Init, TypeOK, Step, Outcome, EditForm, Resource
<1>2. HandlerInv
  BY DEF Init, HandlerInv, HandlerOK, Working, Numbered
<1>3. LockInv
  BY LockAssumption DEF Init, LockInv, Resource, Holding
<1>9. ActiveInv
  BY DEF Init, ActiveInv
<1>4. \A q \in Request : ~Exists(q)
  BY DEF Init, Exists, NoSale
<1>5. SeriesInv
  BY <1>4, LockAssumption DEF Init, SeriesInv, Numbered, Resource
<1>6. StockNeverNegative
  BY StockAssumption DEF Init, StockNeverNegative
<1>7. CorrelativosConsecutive /\ OneSalePerKey
  BY <1>4 DEF Init, CorrelativosConsecutive, OneSalePerKey
<1>8. AnswersAreTrue
  BY DEF Init, AnswersAreTrue, Failure
<1> QED
  BY <1>1, <1>2, <1>3, <1>5, <1>6, <1>7, <1>8, <1>9 DEF IInv

\* Every step keeps the invariant.
LEMMA NextIInv == IInv /\ [Next]_vars => IInv'
<1> SUFFICES ASSUME IInv, [Next]_vars PROVE IInv'
  OBVIOUS
<1> USE DEF IInv
<1>1. TypeOK'
  BY TypeStep
<1>2. HandlerInv'
  BY HandlerStep
<1>3. LockInv'
  BY <1>1, LockStep
<1>4. SeriesInv'
  BY <1>1, SeriesStep
<1>5. StockNeverNegative'
  BY <1>1, StockStep
<1>6. CorrelativosConsecutive' /\ OneSalePerKey'
  BY CorrelativosStep, KeysStep
<1>7. AnswersAreTrue'
  BY AnswersStep
<1>8. ActiveInv'
  BY <1>1, ActiveStep
<1> QED
  BY <1>1, <1>2, <1>3, <1>4, <1>5, <1>6, <1>7, <1>8

\* The invariant holds in every reachable state.
THEOREM Invariance == Spec => []IInv
<1>1. IInv /\ UNCHANGED vars => IInv'
  BY NextIInv
<1> QED
  BY InitIInv, NextIInv, PTL DEF Spec

\* The variables keep their types.
THEOREM TypeCorrect == Spec => []TypeOK
<1>1. IInv => TypeOK
  BY DEF IInv
<1> QED
  BY <1>1, Invariance, PTL

\* No interleaving of sales, voids, stock edits, deadlocks and restarts oversells
\* a product, in the database or in a transaction under way.
THEOREM NoOverselling == Spec => []StockNeverNegative
<1>1. IInv => StockNeverNegative
  BY DEF IInv
<1> QED
  BY <1>1, Invariance, PTL

\* Receipts are numbered without gaps and without duplicates.
THEOREM ReceiptNumbers == Spec => []CorrelativosConsecutive
<1>1. IInv => CorrelativosConsecutive
  BY DEF IInv
<1> QED
  BY <1>1, Invariance, PTL

\* An idempotency key is charged once.
THEOREM ChargedOnce == Spec => []OneSalePerKey
<1>1. IInv => OneSalePerKey
  BY DEF IInv
<1> QED
  BY <1>1, Invariance, PTL

\* The answers the server gives are true of what it stored.
THEOREM TrueAnswers == Spec => []AnswersAreTrue
<1>1. IInv => AnswersAreTrue
  BY DEF IInv
<1> QED
  BY <1>1, Invariance, PTL

\* No lock and no uncommitted stock outlives its transaction.
THEOREM NoOrphanRows == Spec => []UncommittedUnderLock
<1>1. IInv => UncommittedUnderLock
  <2> SUFFICES ASSUME IInv PROVE UncommittedUnderLock
    OBVIOUS
  <2>1. \A p \in Product : pendingStock[p] # stock[p] => lock[p] # None
    BY DEF IInv, LockInv
  <2>2. ASSUME NEW x \in Resource, lock[x] # None PROVE pc[lock[x]] \in Holding
    BY <2>2 DEF IInv, TypeOK, LockInv
  <2> QED
    BY <2>1, <2>2 DEF UncommittedUnderLock, Holding
<1> QED
  BY <1>1, Invariance, PTL
-----------------------------------------------------------------------------
(* The transactions implement AtomicSales, and the ledger of movements is     *)
(* exact about sales and voids.                                               *)

\* A handler changes the database by a commit only.
LEMMA HandlersWriteByCommit ==
    ASSUME NEW r \in Request, Arrive(r) \/ Serve(r), ~CommitSale(r), ~CommitVoid(r)
    PROVE  UNCHANGED database
<1>1. CASE Arrive(r)
  BY <1>1 DEF Arrive, PostSale, PostRepeatedSale, PostVoid, RejectVoid
<1>2. CASE Serve(r)
  BY <1>2 DEF Serve, GetOpenSession, RejectSession, ResolveProduct, ProductNotFound, AcceptTotals,
     RejectTotals, DecrementStock, InsufficientStock, TakeCorrelativo, FlushSale, DuplicateKey,
     RestoreStock, DeadlockVictim, Reply, WriteLine, Rollback
<1> QED
  BY <1>1, <1>2

\* The database changes by the commit of a sale or of a void, or by an
\* administrator's edit.
LEMMA DatabaseChange ==
    ASSUME [Next]_vars
    PROVE  \/ UNCHANGED database
           \/ \E r \in Request : CommitSale(r) \/ CommitVoid(r)
           \/ \E a \in Admin : SaveStock(a)
           \/ \E p \in Product, value \in BOOLEAN : SetActive(p, value)
<1>3. ASSUME NEW a \in Admin, (\E p \in Product : OpenProductForm(a, p)) \/ SubmitProductForm(a) \/ SaveNothing(a)
      PROVE  UNCHANGED database
  BY <1>3 DEF OpenProductForm, SubmitProductForm, SaveNothing
<1>4. CASE Restart \/ UNCHANGED vars
  BY <1>4 DEF Restart, vars
<1> QED
  BY <1>3, <1>4, HandlersWriteByCommit DEF Next, Administer

\* What a commit writes is just what the lines of its sale say.
LEMMA CommitWritesLines ==
    ASSUME IInv, NEW r \in Request, NEW motivo \in Motivo, NEW sign \in {1, -1},
           CommitRows(r, motivo, sign), ~MoreLines(r),
           \/ pc[r] = "commit" /\ sign = -1
           \/ pc[r] = "restore" /\ sign = 1
    PROVE  /\ \A p \in Product : CantidadOf(lines[r], p) \in Nat
           /\ stock' = [p \in Product |-> stock[p] + sign * CantidadOf(lines[r], p)]
           /\ movements' = [movements EXCEPT ![motivo] =
                              [p \in Product |-> @[p] + sign * CantidadOf(lines[r], p)]]
           /\ \A j \in DOMAIN lines[r] : lock[lines[r][j].product] = r
<1> USE DEF IInv
<1>1. lines[r] \in Seq(OrderLine) /\ IsOrder(lines[r]) /\ idx[r] \in Nat
  BY DEF TypeOK, HandlerInv, HandlerOK, Working
<1>2. \A p \in Product : CantidadOf(lines[r], p) \in Nat
  BY <1>1, CantidadOfType
<1>3. \A j \in DOMAIN lines[r] : lock[lines[r][j].product] = r
  <2>1. \A j \in DOMAIN lines[r] : j < idx[r]
    BY <1>1 DEF MoreLines
  <2> QED
    BY <2>1 DEF LockInv, Holding
<1>4. ASSUME NEW p \in Product
      PROVE  (IF lock[p] = r THEN pendingStock[p] ELSE stock[p]) = stock[p] + sign * CantidadOf(lines[r], p)
  <2>1. stock[p] \in Int /\ pendingStock[p] \in Int
    BY DEF TypeOK
  <2>2. CASE lock[p] = r
    <3>1. pendingStock[p] = IF pc[r] = "restore" THEN stock[p] + CantidadOf(lines[r], p)
                                                 ELSE stock[p] - CantidadOf(lines[r], p)
      BY <2>2 DEF LockInv
    <3> QED
      BY <1>2, <2>1, <2>2, <3>1
  <2>3. CASE lock[p] # r
    <3>1. CantidadOf(lines[r], p) = 0
      BY <1>1, <1>3, <2>3, CantidadOfType
    <3> QED
      BY <2>1, <2>3, <3>1
  <2> QED
    BY <2>2, <2>3
<1> QED
  BY <1>2, <1>3, <1>4 DEF CommitRows

-----------------------------------------------------------------------------
(* Refinement.                                                             *)

\* The operators of the two specifications are the same.
LEMMA SameData ==
    /\ Atomic!NoSale = NoSale
    /\ Atomic!Motivo = Motivo
    /\ \A n, k, l : Atomic!NewSale(n, k, l) = NewSale(n, k, l)
    /\ \A l : Atomic!Reorderings(l) = Reorderings(l)
    /\ \A l, p : Atomic!CantidadOf(l, p) = CantidadOf(l, p)
<1>1. Atomic!NoSale = NoSale /\ Atomic!Motivo = Motivo
  BY DEF Atomic!NoSale, NoSale, Atomic!Motivo, Motivo
<1>2. \A n, k, l : Atomic!NewSale(n, k, l) = NewSale(n, k, l)
  BY DEF Atomic!NewSale, NewSale
<1>3. \A l : Atomic!Reorderings(l) = Reorderings(l)
  <2>1. \A S, T : Atomic!Injection(S, T) = Injection(S, T)
    BY DEF Atomic!Injection, Injection, Atomic!IsInjective, IsInjective
  <2>2. \A S, T : Atomic!Surjection(S, T) = Surjection(S, T)
    BY DEF Atomic!Surjection, Surjection
  <2>3. \A S, T : Atomic!Bijection(S, T) = Bijection(S, T)
    BY <2>1, <2>2 DEF Atomic!Bijection, Bijection
  <2> QED
    BY <2>3 DEF Atomic!Reorderings, Reorderings
<1>4. \A l, p : Atomic!CantidadOf(l, p) = CantidadOf(l, p)
  BY DEF Atomic!CantidadOf, CantidadOf
<1> QED
  BY <1>1, <1>2, <1>3, <1>4

\* The form of an administrator, as AtomicSales has it.
FormOf(a) == IF edit[a].step = "none" THEN {} ELSE {[product |-> edit[a].product, value |-> edit[a].value]}

\* The initial states agree.
LEMMA InitRefines == Init => Atomic!Init
<1> SUFFICES ASSUME Init PROVE Atomic!Init
  OBVIOUS
<1>1. \A a \in Admin : edit[a].step = "none"
  BY DEF Init, NoEdit
<1> QED
  BY <1>1, SameData DEF Init, Atomic!Init

\* The steps of a handler leave the product forms alone.
LEMMA FormsStay ==
    ASSUME NEW r \in Request, Arrive(r) \/ Serve(r)
    PROVE  edit' = edit
<1>1. CASE Arrive(r)
  BY <1>1 DEF Arrive, PostSale, PostRepeatedSale, PostVoid, RejectVoid
<1>2. CASE Serve(r)
  BY <1>2 DEF Serve, GetOpenSession, RejectSession, ResolveProduct, ProductNotFound, AcceptTotals,
     RejectTotals, DecrementStock, InsufficientStock, TakeCorrelativo, FlushSale, DuplicateKey,
     CommitSale, RestoreStock, CommitVoid, DeadlockVictim, Reply, WriteLine, Rollback, CommitRows
<1> QED
  BY <1>1, <1>2

\* What an administrator does to a form, or to a product through it, is a step of
\* AtomicSales, or none.
LEMMA FormsRefine ==
    ASSUME IInv, NEW a \in Admin,
           (\E p \in Product : OpenProductForm(a, p)) \/ SubmitProductForm(a) \/ SaveStock(a) \/ SaveNothing(a)
    PROVE  Atomic!Next \/ UNCHANGED Atomic!vars
<1> DEFINE form == [b \in Admin |-> FormOf(b)]
<1>0. edit \in [Admin -> EditForm]
  BY DEF IInv, TypeOK
<1>2. ASSUME NEW p \in Product, OpenProductForm(a, p) PROVE Atomic!OpenForm(a, p)
  <2>1. /\ edit[a].step = "none" /\ UNCHANGED database
        /\ edit' = [edit EXCEPT ![a] = [step |-> "form", product |-> p, value |-> stock[p]]]
    BY <1>2 DEF OpenProductForm
  <2>2. form' = [form EXCEPT ![a] = {[product |-> p, value |-> stock[p]]}]
    BY <1>0, <2>1 DEF FormOf
  <2> QED
    BY <2>1, <2>2 DEF Atomic!OpenForm, Atomic!database, database, FormOf
<1>3. CASE SubmitProductForm(a)
  <2>1. PICK v \in StockEntered \cup {edit[a].value} :
          edit' = [edit EXCEPT ![a] = [step |-> "save", product |-> edit[a].product,
                                       value |-> v, loaded |-> stock[edit[a].product]]]
    BY <1>3 DEF SubmitProductForm
  <2>2. edit[a].step = "form" /\ UNCHANGED database
    BY <1>3 DEF SubmitProductForm
  <2>3. /\ form' = [form EXCEPT ![a] = {[product |-> edit[a].product, value |-> v]}]
        /\ form[a] = {[product |-> edit[a].product, value |-> edit[a].value]}
    BY <1>0, <2>1, <2>2 DEF FormOf
  <2>4. CASE v \in StockEntered
    <3>1. PICK f : f = [product |-> edit[a].product, value |-> edit[a].value]
      OBVIOUS
    <3>2. [f EXCEPT !.value = v] = [product |-> edit[a].product, value |-> v]
      BY <3>1
    <3>3. f \in form[a] /\ form' = [form EXCEPT ![a] = {[f EXCEPT !.value = v]}]
      BY <2>3, <3>1, <3>2
    <3>4. Atomic!TypeStock(a)
      BY <2>2, <2>4, <3>3 DEF Atomic!TypeStock, Atomic!database, database, FormOf
    <3> QED
      BY <3>4 DEF Atomic!Next
  <2>5. CASE v = edit[a].value
    BY <2>2, <2>3, <2>5 DEF Atomic!vars, Atomic!database, database, FormOf
  <2> QED
    BY <2>4, <2>5
<1>4. CASE SaveStock(a)
  <2>1. /\ edit[a].step = "save" /\ edit' = [edit EXCEPT ![a] = NoEdit]
        /\ stock' = [stock EXCEPT ![edit[a].product] = edit[a].value]
        /\ UNCHANGED << active, ultimo_correlativo, sale, movements >>
    BY <1>4 DEF SaveStock
  <2>2. /\ form' = [form EXCEPT ![a] = {}]
        /\ form[a] = {[product |-> edit[a].product, value |-> edit[a].value]}
    BY <1>0, <2>1 DEF FormOf, NoEdit
  <2> QED
    BY <2>1, <2>2 DEF Atomic!AdjustStock, Atomic!Next, FormOf
<1>5. CASE SaveNothing(a)
  <2>1. edit' = [edit EXCEPT ![a] = NoEdit] /\ UNCHANGED database
    BY <1>5 DEF SaveNothing
  <2>2. form' = [b \in Admin |-> IF b \in {a} THEN {} ELSE form[b]]
    BY <1>0, <2>1 DEF FormOf, NoEdit
  <2>3. Atomic!CloseForms({a})
    BY <2>1, <2>2 DEF Atomic!CloseForms, Atomic!database, database, FormOf
  <2> QED
    BY <2>3 DEF Atomic!Next
<1> QED
  BY <1>2, <1>3, <1>4, <1>5 DEF Atomic!Next

\* The commit of a sale sells its order at once: its products are active and in
\* stock at that moment, and its key and its number are unused.
LEMMA CommitSaleRefines ==
    ASSUME IInv, NEW r \in Request, CommitSale(r)
    PROVE  Atomic!Sell(r, lines[r], key[r])
<1> USE DEF IInv
<1>6. edit' = edit
  BY FormsStay DEF Serve
<1>1. /\ pc[r] = "commit" /\ ~MoreLines(r) /\ CommitRows(r, "venta", -1)
      /\ sale[r] = NoSale /\ correlativo[r] = ultimo_correlativo + 1 /\ SalesWithKey(key[r]) = {}
  BY DEF CommitSale, HandlerInv, HandlerOK, SeriesInv, Numbered
<1>2. /\ \A p \in Product : CantidadOf(lines[r], p) \in Nat
      /\ stock' = [p \in Product |-> stock[p] + (-1) * CantidadOf(lines[r], p)]
      /\ movements' = [movements EXCEPT !["venta"] =
                         [p \in Product |-> @[p] + (-1) * CantidadOf(lines[r], p)]]
      /\ \A j \in DOMAIN lines[r] : lock[lines[r][j].product] = r
  BY <1>1, CommitWritesLines DEF Motivo
<1>3. key[r] # NoKey => \A q \in Request : sale[q].key # key[r]
  <2>1. ASSUME NEW q \in Request, key[r] # NoKey, sale[q].key = key[r] PROVE FALSE
    <3>1. sale[q] # NoSale
      BY <2>1 DEF NoSale
    <3> QED
      BY <1>1, <2>1, <3>1, ExistsIsStored DEF SalesWithKey
  <2> QED
    BY <2>1
<1>4. ASSUME NEW i \in DOMAIN lines[r]
      PROVE  active[lines[r][i].product] /\ stock[lines[r][i].product] >= lines[r][i].cantidad
  <2>1. lines[r][i].product \in Product /\ lock[lines[r][i].product] = r /\ IsOrder(lines[r])
    BY <1>1, <1>2, LinesType DEF TypeOK, HandlerInv, HandlerOK, Working
  <2>2. pendingStock[lines[r][i].product] = stock[lines[r][i].product] - lines[r][i].cantidad
    BY <1>1, <2>1, CantidadOfLine DEF LockInv
  <2>3. /\ pendingStock[lines[r][i].product] >= 0
        /\ pendingStock[lines[r][i].product] \in Int /\ stock[lines[r][i].product] \in Int
    BY <2>1 DEF StockNeverNegative, TypeOK
  <2>4. lines[r][i] \in OrderLine
    BY <2>1 DEF IsOrder
  <2>5. lines[r][i].cantidad \in Nat
    BY <2>4 DEF OrderLine
  <2> QED
    BY <1>1, <2>1, <2>2, <2>3, <2>5 DEF ActiveInv
<1>5. /\ ultimo_correlativo' = ultimo_correlativo + 1 /\ UNCHANGED active
      /\ \E l \in Reorderings(lines[r]) : sale' = [sale EXCEPT ![r] = NewSale(ultimo_correlativo + 1, key[r], l)]
  BY <1>1 DEF CommitSale, CommitRows
<1> QED
  BY <1>1, <1>2, <1>3, <1>4, <1>5, <1>6, SameData DEF Atomic!Sell, Atomic!Record

\* The commit of a void gives every item of its sale back at once.
LEMMA CommitVoidRefines ==
    ASSUME IInv, NEW r \in Request, CommitVoid(r)
    PROVE  target[r] \in Request /\ Atomic!Void(target[r])
<1> USE DEF IInv
<1>4. edit' = edit
  BY FormsStay DEF Serve
<1>1. /\ pc[r] = "restore" /\ ~MoreLines(r) /\ CommitRows(r, "anulacion", 1)
      /\ sale[target[r]] # NoSale /\ lines[r] = sale[target[r]].lines
  BY DEF CommitVoid, HandlerInv, HandlerOK
<1>2. /\ stock' = [p \in Product |-> stock[p] + 1 * CantidadOf(lines[r], p)]
      /\ movements' = [movements EXCEPT !["anulacion"] =
                         [p \in Product |-> @[p] + 1 * CantidadOf(lines[r], p)]]
  BY <1>1, CommitWritesLines DEF Motivo
<1>3. /\ target[r] \in Request
      /\ sale' = [sale EXCEPT ![target[r]].estado = "anulada"] /\ UNCHANGED << active, ultimo_correlativo >>
  BY <1>1 DEF CommitVoid, CommitRows, TypeOK
<1> QED
  BY <1>1, <1>2, <1>3, <1>4, SameData DEF Atomic!Void, Atomic!Record

\* A restart closes the forms that were being saved.
LEMMA RestartRefines ==
    ASSUME IInv, Restart
    PROVE  Atomic!Next
<1>1. /\ UNCHANGED database
      /\ edit' = [a \in Admin |-> IF edit[a].step = "save" THEN NoEdit ELSE edit[a]]
  BY DEF Restart
<1>2. PICK A \in SUBSET Admin : A = {a \in Admin : edit[a].step = "save"}
  OBVIOUS
<1>3. [a \in Admin |-> FormOf(a)]' = [a \in Admin |-> IF a \in A THEN {} ELSE FormOf(a)]
  BY <1>1, <1>2 DEF FormOf, NoEdit
<1>4. Atomic!CloseForms(A)
  BY <1>1, <1>3 DEF Atomic!CloseForms, Atomic!database, database, FormOf
<1> QED
  BY <1>4 DEF Atomic!Next

\* Every step of the transactions is a step of AtomicSales, or none.
LEMMA NextRefines == IInv /\ [Next]_vars => [Atomic!Next]_(Atomic!vars)
<1> SUFFICES ASSUME IInv, [Next]_vars PROVE Atomic!Next \/ UNCHANGED Atomic!vars
  BY DEF Atomic!vars
<1>1. CASE UNCHANGED << database, edit >>
  BY <1>1 DEF database, Atomic!database, Atomic!vars
<1>2. ASSUME NEW r \in Request, CommitSale(r) PROVE Atomic!Next
  <2>1. lines[r] \in Orders /\ key[r] \in Key \cup {NoKey}
    BY <1>2 DEF IInv, CommitSale, HandlerInv, HandlerOK, Working, TypeOK
  <2> QED
    BY <1>2, <2>1, CommitSaleRefines DEF Atomic!Next
<1>3. ASSUME NEW r \in Request, CommitVoid(r) PROVE Atomic!Next
  BY <1>3, CommitVoidRefines DEF Atomic!Next
<1>4. ASSUME NEW p \in Product, NEW value \in BOOLEAN, SetActive(p, value) PROVE Atomic!Next
  <2>1. Atomic!SetActive(p)
    BY <1>4 DEF SetActive, Atomic!SetActive, IInv, TypeOK
  <2> QED
    BY <2>1 DEF Atomic!Next
<1>5. ASSUME NEW r \in Request, Arrive(r) \/ Serve(r), ~CommitSale(r), ~CommitVoid(r)
      PROVE  UNCHANGED << database, edit >>
  BY <1>5, FormsStay, HandlersWriteByCommit
<1>6. CASE Restart
  BY <1>6, RestartRefines
<1>7. CASE UNCHANGED vars
  BY <1>7 DEF vars, database, Atomic!database, Atomic!vars
<1>8. CASE Administer
  BY <1>4, <1>8, FormsRefine DEF Administer
<1> QED
  BY <1>1, <1>2, <1>3, <1>5, <1>6, <1>7, <1>8 DEF Next

\* The engine implements AtomicSales: whatever the interleaving of requests, row
\* locks, deadlocks, restarts and stock edits, the database goes through whole
\* sales and whole voids.
THEOREM SalesAreAtomic == Spec => ImplementsAtomicSales
<1>1. Init /\ [][Next]_vars /\ []IInv => Atomic!Init /\ [][Atomic!Next]_(Atomic!vars)
  BY InitRefines, NextRefines, PTL
<1> QED
  BY <1>1, Invariance, PTL DEF Spec, ImplementsAtomicSales, Atomic!Spec

-----------------------------------------------------------------------------
(* The ledger.                                                             *)

\* A commit records in the ledger what it does to the stock.
LEMMA CommitLedger ==
    ASSUME IInv, NEW r \in Request, CommitSale(r) \/ CommitVoid(r), NEW p \in Product
    PROVE  stock'[p] - stock[p] = Ledger(p)' - Ledger(p)
<1> USE DEF IInv, Motivo
<1>1. PICK motivo \in Motivo, sign \in {1, -1} :
        /\ stock' = [x \in Product |-> stock[x] + sign * CantidadOf(lines[r], x)]
        /\ movements' = [movements EXCEPT ![motivo] =
                           [x \in Product |-> @[x] + sign * CantidadOf(lines[r], x)]]
        /\ CantidadOf(lines[r], p) \in Nat
  <2>1. CASE CommitSale(r)
    <3>1. pc[r] = "commit" /\ ~MoreLines(r) /\ CommitRows(r, "venta", -1)
      BY <2>1 DEF CommitSale, HandlerInv, HandlerOK, Numbered
    <3> QED
      BY <3>1, CommitWritesLines
  <2>2. CASE CommitVoid(r)
    <3>1. pc[r] = "restore" /\ ~MoreLines(r) /\ CommitRows(r, "anulacion", 1)
      BY <2>2 DEF CommitVoid
    <3> QED
      BY <3>1, CommitWritesLines
  <2> QED
    BY <2>1, <2>2
<1>2. stock[p] \in Int /\ movements["venta"][p] \in Int /\ movements["anulacion"][p] \in Int
  BY DEF TypeOK
<1>3. stock'[p] = stock[p] + sign * CantidadOf(lines[r], p)
  BY <1>1
<1>4. \A m \in Motivo : movements'[m][p] = IF m = motivo THEN movements[m][p] + sign * CantidadOf(lines[r], p)
                                                          ELSE movements[m][p]
  BY <1>1 DEF TypeOK
<1> QED
  BY <1>1, <1>2, <1>3, <1>4 DEF Ledger

\* A step that records movements of a product changes its stock by what they say,
\* and only an administrator's edit changes stock without them.
THEOREM LedgerIsExact == Spec => LedgerRecordsSales
<1> DEFINE Exact(p) == \/ stock'[p] - stock[p] = Ledger(p)' - Ledger(p)
                       \/ /\ movements' = movements
                          /\ \E a \in Admin : edit[a].step = "save" /\ edit[a].product = p /\ edit'[a] = NoEdit
<1>1. ASSUME IInv, [Next]_vars, NEW p \in Product PROVE Exact(p)
  <2>1. stock[p] \in Int /\ Ledger(p) \in Int
    BY <1>1 DEF IInv, TypeOK, Ledger, Motivo
  <2>2. CASE stock'[p] = stock[p] /\ movements' = movements
    BY <2>1, <2>2 DEF Ledger
  <2>3. CASE \E r \in Request : CommitSale(r) \/ CommitVoid(r)
    BY <1>1, <2>3, CommitLedger
  <2>4. ASSUME NEW a \in Admin, SaveStock(a), stock'[p] # stock[p] PROVE Exact(p)
    BY <1>1, <2>4 DEF SaveStock, IInv, TypeOK
  <2>5. ASSUME NEW q \in Product, NEW value \in BOOLEAN, SetActive(q, value) PROVE stock'[p] = stock[p] /\ movements' = movements
    BY <2>5 DEF SetActive
  <2>6. ASSUME NEW a \in Admin, SaveStock(a) PROVE movements' = movements
    BY <2>6 DEF SaveStock
  <2> QED
    BY <1>1, <2>2, <2>3, <2>4, <2>5, <2>6, DatabaseChange DEF database
<1>2. IInv /\ [Next]_vars => [\A p \in Product : Exact(p)]_vars
  BY <1>1
<1> QED
  BY <1>2, Invariance, PTL DEF Spec, LedgerRecordsSales
==============================================================================
