---------------------------- MODULE CashSessions ----------------------------
(***************************************************************************)
(* Cash registers ("cajas", services/cash_sessions.py) and the sales and   *)
(* voids that touch them.  Opening, selling, voiding and closing each read *)
(* first and write later, in a READ COMMITTED transaction that locks       *)
(* nothing the others read; what a sale does between is in                 *)
(* SaleTransactions.                                                       *)
(*                                                                         *)
(* Amounts are left out: a closed caja remembers which sales its expected  *)
(* cash was summed over ("contadas"), so that                              *)
(*    diferencia = contado - (monto_inicial + efectivo of the contadas),   *)
(* and the close request whose count it stores ("cierre").                 *)
(***************************************************************************)
EXTENDS Integers, FiniteSets

CONSTANTS
    User, Admins,   \* sellers and administrators
    Caja,           \* requests to open a register; the session is named after its request
    Cierre,         \* requests to close one
    Venta,          \* requests to sell, each with a payment in efectivo
    Anulacion,      \* requests to void a sale
    None

ASSUME AdminsAssumption == Admins \subseteq User
ASSUME NoneAssumption == None \notin User \cup Caja \cup Cierre \cup Venta

VARIABLES
    caja,       \* committed cash_sessions
    venta,      \* committed sales
    apertura, cierre, cobro, anulacion   \* handlers of the four requests

vars == << caja, venta, apertura, cierre, cobro, anulacion >>

-----------------------------------------------------------------------------
NoCaja == [usuario |-> None, cierre |-> None, contadas |-> {}]
NoVenta == [caja |-> None, estado |-> "inexistente"]

Opened(s) == caja[s].usuario # None
Closed(s) == Opened(s) /\ caja[s].cierre # None

\* get_open_session: WHERE usuario_id = u AND cerrada_en IS NULL.
OpenOf(u) == {s \in Caja : caja[s].usuario = u /\ ~Closed(s)}

Completadas(s) == {v \in Venta : venta[v].caja = s /\ venta[v].estado = "completada"}

Idle == [step |-> "idle"]
Answer(outcome) == [step |-> "done", outcome |-> outcome]

Init ==
    /\ caja = [s \in Caja |-> NoCaja]
    /\ venta = [v \in Venta |-> NoVenta]
    /\ apertura = [s \in Caja |-> Idle]
    /\ cierre = [c \in Cierre |-> Idle]
    /\ cobro = [v \in Venta |-> Idle]
    /\ anulacion = [a \in Anulacion |-> Idle]

-----------------------------------------------------------------------------
(* open_session.                                                           *)

PostOpen(s, u) ==
    /\ apertura[s].step = "idle"
    /\ OpenOf(u) = {}
    /\ apertura' = [apertura EXCEPT ![s] = [step |-> "insert", usuario |-> u]]
    /\ UNCHANGED << caja, venta, cierre, cobro, anulacion >>

RejectOpen(s, u) ==
    /\ apertura[s].step = "idle"
    /\ OpenOf(u) # {}
    /\ apertura' = [apertura EXCEPT ![s] = Answer("rejected")]
    /\ UNCHANGED << caja, venta, cierre, cobro, anulacion >>

\* Mutant: no partial unique index on the open sessions of a user.
InsertAnyCaja(s) ==
    /\ apertura[s].step = "insert"
    /\ caja' = [caja EXCEPT ![s] = [NoCaja EXCEPT !.usuario = apertura[s].usuario]]
    /\ apertura' = [apertura EXCEPT ![s] = Answer("ok")]
    /\ UNCHANGED << venta, cierre, cobro, anulacion >>

\* INSERT and commit, under ux_cash_sessions_open_per_user.
InsertCaja(s) ==
    /\ apertura[s].step = "insert"
    /\ OpenOf(apertura[s].usuario) = {}
    /\ caja' = [caja EXCEPT ![s] = [NoCaja EXCEPT !.usuario = apertura[s].usuario]]
    /\ apertura' = [apertura EXCEPT ![s] = Answer("ok")]
    /\ UNCHANGED << venta, cierre, cobro, anulacion >>

\* The IntegrityError of the index becomes a 409.
InsertConflict(s) ==
    /\ apertura[s].step = "insert"
    /\ OpenOf(apertura[s].usuario) # {}
    /\ apertura' = [apertura EXCEPT ![s] = Answer("rejected")]
    /\ UNCHANGED << caja, venta, cierre, cobro, anulacion >>

-----------------------------------------------------------------------------
(* close_session.                                                          *)

MayClose(u, s) == u \in Admins \/ caja[s].usuario = u

PostClose(c, u, s) ==
    /\ cierre[c].step = "idle"
    /\ Opened(s) /\ ~Closed(s) /\ MayClose(u, s)
    /\ cierre' = [cierre EXCEPT ![c] = [step |-> "sum", caja |-> s]]
    /\ UNCHANGED << caja, venta, apertura, cobro, anulacion >>

\* 404, 409 or 403.
RejectClose(c, u, s) ==
    /\ cierre[c].step = "idle"
    /\ ~Opened(s) \/ Closed(s) \/ ~MayClose(u, s)
    /\ cierre' = [cierre EXCEPT ![c] = Answer("rejected")]
    /\ UNCHANGED << caja, venta, apertura, cobro, anulacion >>

\* Mutant: the WHERE clause lacks the caja.
SumAllEfectivo(c) ==
    /\ cierre[c].step = "sum"
    /\ cierre' = [cierre EXCEPT ![c] = [step |-> "write", caja |-> cierre[c].caja,
                    contadas |-> {v \in Venta : venta[v].estado = "completada"}]]
    /\ UNCHANGED << caja, venta, apertura, cobro, anulacion >>

\* SELECT sum(monto): the completadas of the caja that are committed by now.
SumEfectivo(c) ==
    /\ cierre[c].step = "sum"
    /\ cierre' = [cierre EXCEPT ![c] = [step |-> "write", caja |-> cierre[c].caja,
                                        contadas |-> Completadas(cierre[c].caja)]]
    /\ UNCHANGED << caja, venta, apertura, cobro, anulacion >>

\* UPDATE and commit, whatever cerrada_en is by now.
WriteClose(c) ==
    /\ cierre[c].step = "write"
    /\ caja' = [caja EXCEPT ![cierre[c].caja].cierre = c,
                            ![cierre[c].caja].contadas = cierre[c].contadas]
    /\ cierre' = [cierre EXCEPT ![c] = Answer("ok")]
    /\ UNCHANGED << venta, apertura, cobro, anulacion >>

-----------------------------------------------------------------------------
(* create_sale and void_sale, as the registers see them.                   *)

\* Mutant: a register is looked up by its user alone.
SellOnAnyCaja(v, u) ==
    /\ cobro[v].step = "idle"
    /\ \E s \in Caja : caja[s].usuario = u
                       /\ cobro' = [cobro EXCEPT ![v] = [step |-> "commit", caja |-> s]]
    /\ UNCHANGED << caja, venta, apertura, cierre, anulacion >>

\* The seller's open register is looked up before the sale does anything.
PostSale(v, u) ==
    /\ cobro[v].step = "idle"
    /\ \E s \in OpenOf(u) : cobro' = [cobro EXCEPT ![v] = [step |-> "commit", caja |-> s]]
    /\ UNCHANGED << caja, venta, apertura, cierre, anulacion >>

\* Without one it is a 409.
RejectSale(v, u) ==
    /\ cobro[v].step = "idle"
    /\ OpenOf(u) = {}
    /\ cobro' = [cobro EXCEPT ![v] = Answer("rejected")]
    /\ UNCHANGED << caja, venta, apertura, cierre, anulacion >>

\* The sale fails for reasons of its own: see SaleTransactions.
RollbackSale(v) ==
    /\ cobro[v].step = "commit"
    /\ cobro' = [cobro EXCEPT ![v] = Answer("rejected")]
    /\ UNCHANGED << caja, venta, apertura, cierre, anulacion >>

\* The sale is stored in the register it looked up, open or not by now.
CommitSale(v) ==
    /\ cobro[v].step = "commit"
    /\ venta' = [venta EXCEPT ![v] = [caja |-> cobro[v].caja, estado |-> "completada"]]
    /\ cobro' = [cobro EXCEPT ![v] = Answer("ok")]
    /\ UNCHANGED << caja, apertura, cierre, anulacion >>

PostVoid(a, v) ==
    /\ anulacion[a].step = "idle"
    /\ venta[v].estado = "completada"
    /\ anulacion' = [anulacion EXCEPT ![a] = [step |-> "commit", venta |-> v]]
    /\ UNCHANGED << caja, venta, apertura, cierre, cobro >>

\* 404 or 409.
RejectVoid(a, v) ==
    /\ anulacion[a].step = "idle"
    /\ venta[v].estado # "completada"
    /\ anulacion' = [anulacion EXCEPT ![a] = Answer("rejected")]
    /\ UNCHANGED << caja, venta, apertura, cierre, cobro >>

CommitVoid(a) ==
    /\ anulacion[a].step = "commit"
    /\ venta' = [venta EXCEPT ![anulacion[a].venta].estado = "anulada"]
    /\ anulacion' = [anulacion EXCEPT ![a] = Answer("ok")]
    /\ UNCHANGED << caja, apertura, cierre, cobro >>

-----------------------------------------------------------------------------
\* A restart of the server ends every request under way.
Lost(handler) ==
    [x \in DOMAIN handler |-> IF handler[x].step \in {"idle", "done"} THEN handler[x] ELSE Answer("lost")]

Restart ==
    /\ apertura' = Lost(apertura)
    /\ cierre' = Lost(cierre)
    /\ cobro' = Lost(cobro)
    /\ anulacion' = Lost(anulacion)
    /\ UNCHANGED << caja, venta >>

Next ==
    \/ \E s \in Caja :
         \/ \E u \in User : PostOpen(s, u) \/ RejectOpen(s, u)
         \/ InsertCaja(s) \/ InsertConflict(s)
    \/ \E c \in Cierre :
         \/ \E u \in User, s \in Caja : PostClose(c, u, s) \/ RejectClose(c, u, s)
         \/ SumEfectivo(c) \/ WriteClose(c)
    \/ \E v \in Venta :
         \/ \E u \in User : PostSale(v, u) \/ RejectSale(v, u)
         \/ CommitSale(v) \/ RollbackSale(v)
    \/ \E a \in Anulacion :
         \/ \E v \in Venta : PostVoid(a, v) \/ RejectVoid(a, v)
         \/ CommitVoid(a)
    \/ Restart

Spec == Init /\ [][Next]_vars

-----------------------------------------------------------------------------
(* What the registers promise.                                             *)

CajaRow == [usuario : User, cierre : Cierre \cup {None}, contadas : SUBSET Venta]
VentaRow == [caja : Caja, estado : {"completada", "anulada"}]
Answered == [step : {"done"}, outcome : {"ok", "rejected", "lost"}]

TypeOK ==
    /\ caja \in [Caja -> CajaRow \cup {NoCaja}]
    /\ venta \in [Venta -> VentaRow \cup {NoVenta}]
    /\ apertura \in [Caja -> {Idle} \cup Answered \cup [step : {"insert"}, usuario : User]]
    /\ cierre \in [Cierre -> {Idle} \cup Answered \cup [step : {"sum"}, caja : Caja]
                             \cup [step : {"write"}, caja : Caja, contadas : SUBSET Venta]]
    /\ cobro \in [Venta -> {Idle} \cup Answered \cup [step : {"commit"}, caja : Caja]]
    /\ anulacion \in [Anulacion -> {Idle} \cup Answered \cup [step : {"commit"}, venta : Venta]]

\* Nobody has two open registers, however two requests to open one race; the
\* lookup of a sale, which fails on two rows, relies on it.
OneOpenCaja == \A u \in User : \A s1, s2 \in OpenOf(u) : s1 = s2

\* The expected cash of a closed register counts no sale twice and no sale of
\* another register: every sale counted is stored in it, and in no other count.
CountedCashWasTaken ==
    \A s \in Caja : \A v \in caja[s].contadas :
      /\ venta[v].caja = s
      /\ \A t \in Caja \ {s} : v \notin caja[t].contadas

SellingOn(v, s) == cobro[v].step = "commit" /\ cobro[v].caja = s

\* Once the close of a register is written, nothing is sold on it anymore: a
\* sale that had not found the register open by then neither starts on it nor is
\* ever stored in it, whatever the other sales, the voids and a second close do.
\* It says nothing of the count that was written: sales stored after the SUM and
\* before the close, sales under way at the close, and later voids are not in it
\* (DiferenciaCountsEverySale).
ClosedCajaTakesNoNewSale ==
    [][\A s \in Caja, v \in Venta :
         Closed(s) /\ ~SellingOn(v, s)
           => ((venta[v].caja = s)' <=> venta[v].caja = s) /\ ~SellingOn(v, s)']_vars

\* "Expected cash = what it opened with, plus every efectivo payment taken during
\* this session on sales that weren't later anuladas."
DiferenciaCountsEverySale ==
    \A s \in Caja : Closed(s) => Completadas(s) \subseteq caja[s].contadas

\* A register is closed once: its count and its diferencia are final.
ClosedOnce == [][\A s \in Caja : Closed(s) => caja'[s] = caja[s]]_vars
-----------------------------------------------------------------------------
(* Why it holds: the inductive invariant of CashSessionsProofs.            *)

\* What the handlers that have read and not yet written know.
HandlerInv ==
    /\ \A v \in Venta : venta[v] # NoVenta => cobro[v].step = "done"
    /\ \A c \in Cierre : cierre[c].step \in {"sum", "write"} => Opened(cierre[c].caja)
    /\ \A c \in Cierre : cierre[c].step = "write" =>
         \A v \in cierre[c].contadas : venta[v].caja = cierre[c].caja
    /\ \A a \in Anulacion : anulacion[a].step = "commit" => venta[anulacion[a].venta] # NoVenta

IInv == TypeOK /\ HandlerInv /\ OneOpenCaja /\ CountedCashWasTaken
=============================================================================
