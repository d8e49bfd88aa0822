------------------------- MODULE CashSessionsProofs -------------------------
(***************************************************************************)
(* Proofs about CashSessions, for any number of users, registers and       *)
(* requests.                                                               *)
(***************************************************************************)
EXTENDS CashSessions, TLAPS

(* The fields of the rows and of the handlers, by the step they are at.    *)

LEMMA Rows ==
    ASSUME TypeOK
    PROVE  /\ \A s \in Caja : Opened(s) => caja[s] \in CajaRow
           /\ \A v \in Venta : venta[v] # NoVenta => venta[v] \in VentaRow
<1>1. ASSUME NEW s \in Caja, Opened(s) PROVE caja[s] \in CajaRow
  <2>1. caja[s] \in CajaRow \cup {NoCaja}
    BY DEF TypeOK
  <2>2. caja[s] # NoCaja
    BY <1>1 DEF Opened, NoCaja
  <2> QED BY <2>1, <2>2
<1>2. \A v \in Venta : venta[v] # NoVenta => venta[v] \in VentaRow
  BY DEF TypeOK
<1> QED BY <1>1, <1>2

LEMMA Handlers ==
    ASSUME TypeOK
    PROVE  /\ \A s \in Caja : apertura[s].step = "insert" => apertura[s].usuario \in User
           /\ \A c \in Cierre : cierre[c].step \in {"sum", "write"} => cierre[c].caja \in Caja
           /\ \A c \in Cierre : cierre[c].step = "write" => cierre[c].contadas \in SUBSET Venta
           /\ \A v \in Venta : cobro[v].step = "commit" => cobro[v].caja \in Caja
           /\ \A a \in Anulacion : anulacion[a].step = "commit" => anulacion[a].venta \in Venta
<1> USE DEF TypeOK, Idle, Answered
<1>1. ASSUME NEW s \in Caja, apertura[s].step = "insert" PROVE apertura[s].usuario \in User
  <2>1. apertura[s] \in {Idle} \cup Answered \cup [step : {"insert"}, usuario : User]
    OBVIOUS
  <2> QED BY <2>1, <1>1
<1>2. ASSUME NEW c \in Cierre, cierre[c].step \in {"sum", "write"}
      PROVE  cierre[c].caja \in Caja /\ (cierre[c].step = "write" => cierre[c].contadas \in SUBSET Venta)
  <2>1. cierre[c] \in {Idle} \cup Answered \cup [step : {"sum"}, caja : Caja]
                      \cup [step : {"write"}, caja : Caja, contadas : SUBSET Venta]
    OBVIOUS
  <2> QED BY <2>1, <1>2
<1>3. ASSUME NEW v \in Venta, cobro[v].step = "commit" PROVE cobro[v].caja \in Caja
  <2>1. cobro[v] \in {Idle} \cup Answered \cup [step : {"commit"}, caja : Caja]
    OBVIOUS
  <2> QED BY <2>1, <1>3
<1>4. ASSUME NEW a \in Anulacion, anulacion[a].step = "commit" PROVE anulacion[a].venta \in Venta
  <2>1. anulacion[a] \in {Idle} \cup Answered \cup [step : {"commit"}, venta : Venta]
    OBVIOUS
  <2> QED BY <2>1, <1>4
<1> QED BY <1>1, <1>2, <1>3, <1>4

LEMMA InitInv == Init => IInv
<1> SUFFICES ASSUME Init PROVE IInv
  OBVIOUS
<1>1. TypeOK
  BY DEF Init, TypeOK, NoCaja, NoVenta, Idle
<1>2. \A s \in Caja : ~Opened(s)
  BY DEF Init, Opened, NoCaja
<1>3. HandlerInv
  BY DEF Init, HandlerInv, Idle
<1>4. OneOpenCaja
  BY NoneAssumption DEF Init, OneOpenCaja, OpenOf, NoCaja
<1>5. CountedCashWasTaken
  BY DEF Init, CountedCashWasTaken, NoCaja
<1> QED BY <1>1, <1>3, <1>4, <1>5 DEF IInv

-----------------------------------------------------------------------------
(* Types.                                                                  *)

LEMMA TypeStep ==
    ASSUME IInv, [Next]_vars
    PROVE  TypeOK'
<1> USE DEF IInv, Answer, Answered
<1>0. TypeOK
  OBVIOUS
<1>1. ASSUME NEW s \in Caja, NEW u \in User, PostOpen(s, u) PROVE TypeOK'
  BY <1>0, <1>1 DEF PostOpen, TypeOK
<1>2. ASSUME NEW s \in Caja, NEW u \in User, RejectOpen(s, u) PROVE TypeOK'
  BY <1>0, <1>2 DEF RejectOpen, TypeOK
<1>3. ASSUME NEW s \in Caja, InsertCaja(s) PROVE TypeOK'
  <2>1. apertura[s].usuario \in User
    BY <1>0, <1>3, Handlers DEF InsertCaja
  <2>2. [NoCaja EXCEPT !.usuario = apertura[s].usuario] \in CajaRow
    BY <2>1 DEF NoCaja, CajaRow
  <2>3. caja' \in [Caja -> CajaRow \cup {NoCaja}]
    BY <1>0, <1>3, <2>2 DEF InsertCaja, TypeOK
  <2>4. apertura' \in [Caja -> {Idle} \cup Answered \cup [step : {"insert"}, usuario : User]]
    BY <1>0, <1>3 DEF InsertCaja, TypeOK
  <2> QED BY <1>0, <1>3, <2>3, <2>4 DEF InsertCaja, TypeOK
<1>4. ASSUME NEW s \in Caja, InsertConflict(s) PROVE TypeOK'
  BY <1>0, <1>4 DEF InsertConflict, TypeOK
<1>5. ASSUME NEW c \in Cierre, NEW u \in User, NEW s \in Caja, PostClose(c, u, s) PROVE TypeOK'
  BY <1>0, <1>5 DEF PostClose, TypeOK
<1>6. ASSUME NEW c \in Cierre, NEW u \in User, NEW s \in Caja, RejectClose(c, u, s) PROVE TypeOK'
  BY <1>0, <1>6 DEF RejectClose, TypeOK
<1>7. ASSUME NEW c \in Cierre, SumEfectivo(c) PROVE TypeOK'
  <2>1. cierre[c].caja \in Caja /\ Completadas(cierre[c].caja) \subseteq Venta
    BY <1>0, <1>7, Handlers DEF SumEfectivo, Completadas
  <2>2. cierre' \in [Cierre -> {Idle} \cup Answered \cup [step : {"sum"}, caja : Caja]
                               \cup [step : {"write"}, caja : Caja, contadas : SUBSET Venta]]
    BY <1>0, <1>7, <2>1 DEF SumEfectivo, TypeOK
  <2> QED BY <1>0, <1>7, <2>2 DEF SumEfectivo, TypeOK
<1>8. ASSUME NEW c \in Cierre, WriteClose(c) PROVE TypeOK'
  <2> DEFINE s == cierre[c].caja
  <2>1. s \in Caja /\ cierre[c].contadas \in SUBSET Venta
    BY <1>0, <1>8, Handlers DEF WriteClose
  <2>2. caja[s] \in CajaRow
    BY <1>0, <1>8, <2>1, Rows DEF WriteClose, HandlerInv
  <2>3. [caja[s] EXCEPT !.cierre = c, !.contadas = cierre[c].contadas] \in CajaRow
    BY <2>1, <2>2 DEF CajaRow
  <2>4. caja' = [caja EXCEPT ![s] = [caja[s] EXCEPT !.cierre = c, !.contadas = cierre[c].contadas]]
    BY <1>0, <1>8, <2>1, <2>2 DEF WriteClose, TypeOK, CajaRow
  <2>5. caja' \in [Caja -> CajaRow \cup {NoCaja}]
    BY <1>0, <2>1, <2>3, <2>4 DEF TypeOK
  <2>6. cierre' \in [Cierre -> {Idle} \cup Answered \cup [step : {"sum"}, caja : Caja]
                               \cup [step : {"write"}, caja : Caja, contadas : SUBSET Venta]]
    BY <1>0, <1>8 DEF WriteClose, TypeOK
  <2> QED BY <1>0, <1>8, <2>5, <2>6 DEF WriteClose, TypeOK
<1>9. ASSUME NEW v \in Venta, NEW u \in User, PostSale(v, u) PROVE TypeOK'
  BY <1>0, <1>9 DEF PostSale, OpenOf, TypeOK
<1>10. ASSUME NEW v \in Venta, NEW u \in User, RejectSale(v, u) PROVE TypeOK'
  BY <1>0, <1>10 DEF RejectSale, TypeOK
<1>11. ASSUME NEW v \in Venta, CommitSale(v) PROVE TypeOK'
  <2>1. [caja |-> cobro[v].caja, estado |-> "completada"] \in VentaRow
    BY <1>0, <1>11, Handlers DEF CommitSale, VentaRow
  <2> QED BY <1>0, <1>11, <2>1 DEF CommitSale, TypeOK
<1>12. ASSUME NEW v \in Venta, RollbackSale(v) PROVE TypeOK'
  BY <1>0, <1>12 DEF RollbackSale, TypeOK
<1>13. ASSUME NEW a \in Anulacion, NEW v \in Venta, PostVoid(a, v) PROVE TypeOK'
  BY <1>0, <1>13 DEF PostVoid, TypeOK
<1>14. ASSUME NEW a \in Anulacion, NEW v \in Venta, RejectVoid(a, v) PROVE TypeOK'
  BY <1>0, <1>14 DEF RejectVoid, TypeOK
<1>15. ASSUME NEW a \in Anulacion, CommitVoid(a) PROVE TypeOK'
  <2> DEFINE v == anulacion[a].venta
  <2>1. v \in Venta /\ venta[v] \in VentaRow
    BY <1>0, <1>15, Handlers, Rows DEF CommitVoid, HandlerInv
  <2>2. [venta[v] EXCEPT !.estado = "anulada"] \in VentaRow
    BY <2>1 DEF VentaRow
  <2>3. venta' = [venta EXCEPT ![v] = [venta[v] EXCEPT !.estado = "anulada"]]
    BY <1>15 DEF CommitVoid
  <2>4. venta' \in [Venta -> VentaRow \cup {NoVenta}]
    BY <1>0, <2>1, <2>2, <2>3 DEF TypeOK
  <2>5. anulacion' \in [Anulacion -> {Idle} \cup Answered \cup [step : {"commit"}, venta : Venta]]
    BY <1>0, <1>15 DEF CommitVoid, TypeOK
  <2> QED BY <1>0, <1>15, <2>4, <2>5 DEF CommitVoid, TypeOK
<1>16. CASE Restart
  <2>1. Answer("lost") \in Answered
    OBVIOUS
  <2> USE <1>0, <1>16, <2>1 DEF Restart, Lost
  <2> HIDE DEF Answer, Answered
  <2>2. apertura' \in [Caja -> {Idle} \cup Answered \cup [step : {"insert"}, usuario : User]]
    BY DEF TypeOK
  <2>3. cierre' \in [Cierre -> {Idle} \cup Answered \cup [step : {"sum"}, caja : Caja]
                               \cup [step : {"write"}, caja : Caja, contadas : SUBSET Venta]]
    BY DEF TypeOK
  <2>4. cobro' \in [Venta -> {Idle} \cup Answered \cup [step : {"commit"}, caja : Caja]]
    BY DEF TypeOK
  <2>5. anulacion' \in [Anulacion -> {Idle} \cup Answered \cup [step : {"commit"}, venta : Venta]]
    BY DEF TypeOK
  <2> QED BY <2>2, <2>3, <2>4, <2>5 DEF TypeOK
<1>17. CASE UNCHANGED vars
  BY <1>0, <1>17 DEF vars, TypeOK
<1> HIDE DEF IInv, Answer, Answered
<1> QED
  BY <1>1, <1>2, <1>3, <1>4, <1>5, <1>6, <1>7, <1>8, <1>9, <1>10, <1>11, <1>12,
     <1>13, <1>14, <1>15, <1>16, <1>17 DEF Next

-----------------------------------------------------------------------------
(* The rest of the invariant.  Only three actions write the database.      *)

\* An InsertCaja adds the open register of a user who had none.
LEMMA InsertStep ==
    ASSUME IInv, NEW s \in Caja, InsertCaja(s)
    PROVE  /\ OneOpenCaja'
           /\ CountedCashWasTaken'
           /\ \A t \in Caja : Opened(t) => Opened(t)'
<1> DEFINE u == apertura[s].usuario
<1>1. u \in User /\ u # None
  BY Handlers, NoneAssumption DEF IInv, InsertCaja
<1>2. \A t \in Caja : caja'[t] = IF t = s THEN [usuario |-> u, cierre |-> None, contadas |-> {}]
                                          ELSE caja[t]
  <2>1. [NoCaja EXCEPT !.usuario = u] = [usuario |-> u, cierre |-> None, contadas |-> {}]
    BY DEF NoCaja
  <2>2. caja \in [Caja -> CajaRow \cup {NoCaja}]
    BY DEF IInv, TypeOK
  <2> QED BY <2>1, <2>2 DEF InsertCaja
<1>3. venta' = venta /\ OpenOf(u) = {}
  BY DEF InsertCaja
<1>4. OneOpenCaja'
  BY <1>1, <1>2, <1>3 DEF IInv, OneOpenCaja, OpenOf, Opened, Closed
<1>5. CountedCashWasTaken'
  BY <1>2, <1>3 DEF IInv, CountedCashWasTaken
<1> QED BY <1>1, <1>2, <1>4, <1>5 DEF Opened

\* A WriteClose writes a register that is open or closed, and keeps it so.
LEMMA CloseStep ==
    ASSUME IInv, NEW c \in Cierre, WriteClose(c)
    PROVE  /\ OneOpenCaja'
           /\ CountedCashWasTaken'
           /\ \A t \in Caja : Opened(t) <=> Opened(t)'
<1> DEFINE s == cierre[c].caja
<1>1. s \in Caja /\ caja[s] \in CajaRow /\ Opened(s)
  BY Handlers, Rows DEF IInv, WriteClose, HandlerInv
<1>2. \A t \in Caja : caja'[t] = IF t = s THEN [usuario |-> caja[s].usuario, cierre |-> c,
                                                contadas |-> cierre[c].contadas]
                                          ELSE caja[t]
  BY <1>1 DEF WriteClose, IInv, TypeOK, CajaRow
<1>3. venta' = venta /\ c # None
  BY NoneAssumption DEF WriteClose
<1>4. \A t \in Caja : Opened(t) <=> Opened(t)'
  BY <1>2 DEF Opened
<1>5. \A u \in User : OpenOf(u)' \subseteq OpenOf(u)
  BY <1>1, <1>2, <1>3 DEF OpenOf, Opened, Closed
<1>6. OneOpenCaja'
  BY <1>5 DEF IInv, OneOpenCaja
<1>7. \A v \in cierre[c].contadas : venta[v].caja = s
  BY DEF IInv, HandlerInv, WriteClose
<1>8. CountedCashWasTaken'
  BY <1>2, <1>3, <1>7 DEF IInv, CountedCashWasTaken
<1> QED BY <1>4, <1>6, <1>8

\* A committed sale keeps its register, whatever is sold, voided or lost.
LEMMA VentaStep ==
    ASSUME IInv, [Next]_vars
    PROVE  \A v \in Venta : venta[v] # NoVenta => venta'[v] # NoVenta /\ venta'[v].caja = venta[v].caja
<1> SUFFICES ASSUME NEW v \in Venta, venta[v] # NoVenta
             PROVE  venta'[v] # NoVenta /\ venta'[v].caja = venta[v].caja
  OBVIOUS
<1>0. venta[v] \in VentaRow
  BY Rows DEF IInv
<1>1. ASSUME NEW w \in Venta, CommitSale(w) PROVE venta'[v] = venta[v]
  BY <1>1 DEF CommitSale, IInv, TypeOK, HandlerInv
<1>2. ASSUME NEW a \in Anulacion, CommitVoid(a)
      PROVE  venta'[v] # NoVenta /\ venta'[v].caja = venta[v].caja
  BY <1>0, <1>2 DEF CommitVoid, IInv, TypeOK, VentaRow, NoVenta
<1>3. CASE UNCHANGED venta
  BY <1>3
<1>4. \/ \E w \in Venta : CommitSale(w)
      \/ \E a \in Anulacion : CommitVoid(a)
      \/ UNCHANGED venta
  BY DEF Next, vars, PostOpen, RejectOpen, InsertCaja, InsertConflict, PostClose, RejectClose,
         SumEfectivo, WriteClose, PostSale, RejectSale, RollbackSale, PostVoid, RejectVoid, Restart
<1> QED BY <1>1, <1>2, <1>3, <1>4

\* Only InsertCaja and WriteClose write a register.
LEMMA CajaStep ==
    ASSUME IInv, [Next]_vars
    PROVE  /\ OneOpenCaja'
           /\ CountedCashWasTaken'
           /\ \A t \in Caja : Opened(t) => Opened(t)'
<1>1. CASE UNCHANGED caja
  <2>1. OneOpenCaja' /\ \A t \in Caja : Opened(t) => Opened(t)'
    BY <1>1 DEF IInv, OneOpenCaja, OpenOf, Opened, Closed
  <2>2. ASSUME NEW s \in Caja, NEW v \in caja[s].contadas PROVE venta'[v].caja = s
    <3>1. venta[v].caja = s
      BY DEF IInv, CountedCashWasTaken
    <3>2. v \in Venta
      BY DEF IInv, TypeOK, CajaRow, NoCaja
    <3>3. venta[v] # NoVenta
      BY <3>1, NoneAssumption DEF NoVenta
    <3> QED BY <3>1, <3>2, <3>3, VentaStep
  <2>3. CountedCashWasTaken'
    BY <1>1, <2>2 DEF IInv, CountedCashWasTaken
  <2> QED BY <2>1, <2>3
<1>2. \/ UNCHANGED caja
      \/ \E s \in Caja : InsertCaja(s)
      \/ \E c \in Cierre : WriteClose(c)
  BY DEF Next, vars, PostOpen, RejectOpen, InsertConflict, PostClose, RejectClose, SumEfectivo,
         PostSale, RejectSale, CommitSale, RollbackSale, PostVoid, RejectVoid, CommitVoid, Restart
<1> QED BY <1>1, <1>2, InsertStep, CloseStep

\* How the handler of a sale may change in a step.
LEMMA CobroStep ==
    ASSUME TypeOK, [Next]_vars, NEW v \in Venta
    PROVE  \/ cobro'[v] = cobro[v]
           \/ cobro[v].step # "done" /\ cobro'[v].step = "done"
           \/ cobro[v].step # "done" /\ \E u \in User : PostSale(v, u)
<1>0. DOMAIN cobro = Venta
  BY DEF TypeOK
<1>1. ASSUME NEW w \in Venta, NEW u \in User, PostSale(w, u)
      PROVE  cobro'[v] = cobro[v] \/ (w = v /\ cobro[v].step = "idle")
  BY <1>0, <1>1 DEF PostSale
<1>2. ASSUME NEW w \in Venta, NEW u \in User, RejectSale(w, u)
      PROVE  cobro'[v] = cobro[v] \/ (cobro[v].step # "done" /\ cobro'[v].step = "done")
  BY <1>0, <1>2 DEF RejectSale, Answer
<1>3. CASE Restart
  BY <1>0, <1>3 DEF Restart, Lost, Answer
<1>4. CASE UNCHANGED cobro
  BY <1>4
<1>5. \/ \E w \in Venta, u \in User : PostSale(w, u) \/ RejectSale(w, u)
      \/ \E w \in Venta : CommitSale(w) \/ RollbackSale(w)
      \/ Restart
      \/ UNCHANGED cobro
  BY DEF Next, vars, PostOpen, RejectOpen, InsertCaja, InsertConflict, PostClose, RejectClose,
     SumEfectivo, WriteClose, PostVoid, RejectVoid, CommitVoid
<1>6. ASSUME NEW w \in Venta, CommitSale(w) \/ RollbackSale(w)
      PROVE  cobro'[v] = cobro[v] \/ (cobro[v].step # "done" /\ cobro'[v].step = "done")
  BY <1>0, <1>6 DEF CommitSale, RollbackSale, Answer
<1> QED BY <1>1, <1>2, <1>3, <1>4, <1>5, <1>6

\* How the handler of a close may change in a step.
LEMMA CierreStep ==
    ASSUME TypeOK, [Next]_vars, NEW c \in Cierre
    PROVE  \/ cierre'[c] = cierre[c]
           \/ cierre'[c].step = "done"
           \/ \E u \in User, s \in Caja : PostClose(c, u, s)
           \/ SumEfectivo(c)
<1>0. DOMAIN cierre = Cierre
  BY DEF TypeOK
<1>1. ASSUME NEW d \in Cierre, NEW u \in User, NEW s \in Caja, PostClose(d, u, s)
      PROVE  cierre'[c] = cierre[c] \/ d = c
  BY <1>0, <1>1 DEF PostClose
<1>2. ASSUME NEW d \in Cierre, NEW u \in User, NEW s \in Caja, RejectClose(d, u, s)
      PROVE  cierre'[c] = cierre[c] \/ cierre'[c].step = "done"
  BY <1>0, <1>2 DEF RejectClose, Answer
<1>3. ASSUME NEW d \in Cierre, SumEfectivo(d) PROVE cierre'[c] = cierre[c] \/ d = c
  BY <1>0, <1>3 DEF SumEfectivo
<1>4. ASSUME NEW d \in Cierre, WriteClose(d) PROVE cierre'[c] = cierre[c] \/ cierre'[c].step = "done"
  BY <1>0, <1>4 DEF WriteClose, Answer
<1>5. CASE Restart
  BY <1>0, <1>5 DEF Restart, Lost, Answer
<1>6. CASE UNCHANGED cierre
  BY <1>6
<1>7. \/ \E d \in Cierre, u \in User, s \in Caja : PostClose(d, u, s) \/ RejectClose(d, u, s)
      \/ \E d \in Cierre : SumEfectivo(d) \/ WriteClose(d)
      \/ Restart
      \/ UNCHANGED cierre
  BY DEF Next, vars, PostOpen, RejectOpen, InsertCaja, InsertConflict, PostSale, RejectSale,
     CommitSale, RollbackSale, PostVoid, RejectVoid, CommitVoid
<1> QED BY <1>1, <1>2, <1>3, <1>4, <1>5, <1>6, <1>7

\* How the handler of a void may change in a step.
LEMMA AnulacionStep ==
    ASSUME TypeOK, [Next]_vars, NEW a \in Anulacion
    PROVE  \/ anulacion'[a] = anulacion[a]
           \/ anulacion'[a].step = "done"
           \/ \E v \in Venta : PostVoid(a, v)
<1>0. DOMAIN anulacion = Anulacion
  BY DEF TypeOK
<1>1. ASSUME NEW b \in Anulacion, NEW v \in Venta, PostVoid(b, v)
      PROVE  anulacion'[a] = anulacion[a] \/ b = a
  BY <1>0, <1>1 DEF PostVoid
<1>2. ASSUME NEW b \in Anulacion, NEW v \in Venta, RejectVoid(b, v)
      PROVE  anulacion'[a] = anulacion[a] \/ anulacion'[a].step = "done"
  BY <1>0, <1>2 DEF RejectVoid, Answer
<1>3. ASSUME NEW b \in Anulacion, CommitVoid(b)
      PROVE  anulacion'[a] = anulacion[a] \/ anulacion'[a].step = "done"
  BY <1>0, <1>3 DEF CommitVoid, Answer
<1>4. CASE Restart
  BY <1>0, <1>4 DEF Restart, Lost, Answer
<1>5. CASE UNCHANGED anulacion
  BY <1>5
<1>6. \/ \E b \in Anulacion, v \in Venta : PostVoid(b, v) \/ RejectVoid(b, v)
      \/ \E b \in Anulacion : CommitVoid(b)
      \/ Restart
      \/ UNCHANGED anulacion
  BY DEF Next, vars, PostOpen, RejectOpen, InsertCaja, InsertConflict, PostClose, RejectClose,
     SumEfectivo, WriteClose, PostSale, RejectSale, CommitSale, RollbackSale
<1> QED BY <1>1, <1>2, <1>3, <1>4, <1>5, <1>6

\* What the handlers know stays true while others write.
LEMMA HandlerStep ==
    ASSUME IInv, [Next]_vars
    PROVE  HandlerInv'
<1>0. TypeOK /\ HandlerInv
  BY DEF IInv
<1> USE DEF HandlerInv
<1>1. ASSUME NEW v \in Venta, venta'[v] # NoVenta PROVE cobro'[v].step = "done"
  <2>1. CASE venta[v] # NoVenta
    <3>1. cobro[v].step = "done"
      BY <1>0, <2>1
    <3>2. cobro'[v] = cobro[v]
      BY <1>0, <3>1, CobroStep
    <3> QED BY <3>1, <3>2
  <2>2. CASE venta[v] = NoVenta
    <3>1. ASSUME NEW a \in Anulacion, CommitVoid(a) PROVE FALSE
      <4>1. anulacion[a].venta # v
        BY <1>0, <2>2, <3>1 DEF CommitVoid
      <4>2. venta'[v] = venta[v]
        BY <1>0, <3>1, <4>1 DEF CommitVoid, TypeOK
      <4> QED BY <1>1, <2>2, <4>2
    <3>2. ASSUME NEW w \in Venta, CommitSale(w) PROVE cobro'[v].step = "done"
      <4>1. w = v
        BY <1>0, <1>1, <2>2, <3>2 DEF CommitSale, TypeOK
      <4> QED BY <1>0, <3>2, <4>1 DEF CommitSale, TypeOK, Answer
    <3>3. CASE UNCHANGED venta
      BY <1>1, <2>2, <3>3
    <3>4. \/ \E w \in Venta : CommitSale(w)
          \/ \E a \in Anulacion : CommitVoid(a)
          \/ UNCHANGED venta
      BY DEF Next, vars, PostOpen, RejectOpen, InsertCaja, InsertConflict, PostClose, RejectClose,
         SumEfectivo, WriteClose, PostSale, RejectSale, RollbackSale, PostVoid, RejectVoid, Restart
    <3> QED BY <3>1, <3>2, <3>3, <3>4
  <2> QED BY <2>1, <2>2
<1>2. ASSUME NEW c \in Cierre, cierre'[c].step \in {"sum", "write"}
      PROVE  /\ Opened(cierre[c].caja)'
             /\ cierre'[c].step = "write" =>
                  \A v \in cierre'[c].contadas : venta'[v].caja = cierre'[c].caja
  <2>1. CASE cierre'[c] = cierre[c]
    <3>1. cierre[c].caja \in Caja /\ Opened(cierre[c].caja)
      BY <1>0, <1>2, <2>1, Handlers
    <3>2. Opened(cierre[c].caja)'
      BY <2>1, <3>1, CajaStep
    <3>3. ASSUME cierre[c].step = "write", NEW v \in cierre[c].contadas
          PROVE  venta'[v].caja = cierre[c].caja
      <4>1. v \in Venta /\ venta[v].caja = cierre[c].caja
        BY <1>0, <3>3, Handlers
      <4>2. venta[v] # NoVenta
        BY <3>1, <4>1, NoneAssumption DEF NoVenta
      <4> QED BY <4>1, <4>2, VentaStep
    <3> QED BY <2>1, <3>2, <3>3
  <2>3. ASSUME SumEfectivo(c)
        PROVE  /\ cierre'[c] = [step |-> "write", caja |-> cierre[c].caja,
                                contadas |-> Completadas(cierre[c].caja)]
               /\ Opened(cierre[c].caja)'
               /\ \A v \in Completadas(cierre[c].caja) : venta'[v].caja = cierre[c].caja
    BY <1>0, <2>3 DEF SumEfectivo, TypeOK, Opened, Completadas
  <2>4. \/ cierre'[c] = cierre[c]
        \/ cierre'[c].step = "done"
        \/ \E u \in User, s \in Caja : PostClose(c, u, s)
        \/ SumEfectivo(c)
    BY <1>0, CierreStep
  <2>5. ASSUME NEW u \in User, NEW s \in Caja, PostClose(c, u, s)
        PROVE  /\ Opened(cierre[c].caja)'
               /\ cierre'[c].step # "write"
    <3>1. cierre'[c] = [step |-> "sum", caja |-> s] /\ caja' = caja /\ Opened(s)
      BY <1>0, <2>5 DEF PostClose, TypeOK
    <3>2. cierre'[c].step = "sum" /\ cierre'[c].caja = s
      BY <3>1
    <3> QED BY <3>1, <3>2 DEF Opened
  <2>6. CASE SumEfectivo(c)
    <3>1. /\ cierre'[c].contadas = Completadas(cierre[c].caja)
          /\ cierre'[c].caja = cierre[c].caja
      BY <2>3, <2>6
    <3> QED BY <2>3, <2>6, <3>1 DEF Opened
  <2> QED BY <1>2, <2>1, <2>4, <2>5, <2>6
<1>3. ASSUME NEW a \in Anulacion, anulacion'[a].step = "commit"
      PROVE  venta'[anulacion'[a].venta] # NoVenta
  <2>1. CASE anulacion'[a] = anulacion[a]
    BY <1>0, <1>3, <2>1, Handlers, VentaStep
  <2>2. ASSUME NEW v \in Venta, PostVoid(a, v) PROVE venta'[anulacion'[a].venta] # NoVenta
    BY <1>0, <2>2 DEF PostVoid, TypeOK, NoVenta
  <2>3. \/ anulacion'[a] = anulacion[a]
        \/ anulacion'[a].step = "done"
        \/ \E v \in Venta : PostVoid(a, v)
    BY <1>0, AnulacionStep
  <2> QED BY <1>3, <2>1, <2>2, <2>3
<1> QED BY <1>1, <1>2, <1>3

-----------------------------------------------------------------------------
(* Theorems.                                                               *)

\* IInv is an invariant of CashSessions.
THEOREM Invariance == Spec => []IInv
<1>1. IInv /\ [Next]_vars => IInv'
  BY TypeStep, HandlerStep, CajaStep DEF IInv
<1> QED BY InitInv, <1>1, PTL DEF Spec

\* However many requests to open a register race, no user ever has two open ones
\* (open_session, ux_cash_sessions_open_per_user).
THEOREM NobodyHasTwoOpenCajas == Spec => []OneOpenCaja
<1>1. IInv => OneOpenCaja
  BY DEF IInv
<1> QED BY Invariance, <1>1, PTL

\* The expected cash of a closed register is made of its own sales, each counted
\* in no other register (close_session).
THEOREM NoCashCountedTwice == Spec => []CountedCashWasTaken
<1>1. IInv => CountedCashWasTaken
  BY DEF IInv
<1> QED BY Invariance, <1>1, PTL

\* Once the close of a register is written, a sale that had not found it open by
\* then never starts on it and is never stored in it (create_sale,
\* get_open_session); what the close has counted is another matter.
THEOREM ClosedIsClosed == Spec => ClosedCajaTakesNoNewSale
<1>1. ASSUME IInv, [Next]_vars, NEW s \in Caja, NEW v \in Venta, ~SellingOn(v, s)
      PROVE  (venta[v].caja = s)' <=> venta[v].caja = s
  <2>1. CASE venta[v] # NoVenta
    BY <1>1, <2>1, VentaStep
  <2>2. CASE venta[v] = NoVenta
    <3>1. venta[v].caja # s
      BY <2>2, <1>1, NoneAssumption DEF NoVenta
    <3>2. ASSUME NEW w \in Venta, CommitSale(w) PROVE venta'[v].caja # s
      BY <1>1, <3>1, <3>2 DEF IInv, TypeOK, CommitSale, SellingOn
    <3>3. ASSUME NEW a \in Anulacion, CommitVoid(a) PROVE venta'[v].caja # s
      <4>1. anulacion[a].venta # v
        BY <1>1, <2>2, <3>3 DEF CommitVoid, IInv, HandlerInv
      <4> QED BY <1>1, <3>1, <3>3, <4>1 DEF CommitVoid, IInv, TypeOK
    <3>4. \/ \E w \in Venta : CommitSale(w)
          \/ \E a \in Anulacion : CommitVoid(a)
          \/ UNCHANGED venta
      BY <1>1 DEF Next, vars, PostOpen, RejectOpen, InsertCaja, InsertConflict, PostClose, RejectClose,
         SumEfectivo, WriteClose, PostSale, RejectSale, RollbackSale, PostVoid, RejectVoid, Restart
    <3> QED BY <3>1, <3>2, <3>3, <3>4
  <2> QED BY <2>1, <2>2
<1>2. ASSUME IInv, [Next]_vars, NEW s \in Caja, Closed(s), NEW v \in Venta, ~SellingOn(v, s)
      PROVE  ~SellingOn(v, s)'
  <2>1. ASSUME NEW u \in User, PostSale(v, u) PROVE cobro'[v].caja # s
    <3>1. PICK t \in OpenOf(u) : cobro' = [cobro EXCEPT ![v] = [step |-> "commit", caja |-> t]]
      BY <2>1 DEF PostSale
    <3>2. t # s
      BY <1>2 DEF OpenOf
    <3> QED BY <1>2, <3>1, <3>2 DEF IInv, TypeOK
  <2>2. \/ cobro'[v] = cobro[v]
        \/ cobro'[v].step = "done"
        \/ \E u \in User : PostSale(v, u)
    BY <1>2, CobroStep DEF IInv
  <2> QED BY <1>2, <2>1, <2>2 DEF SellingOn
<1>3. IInv /\ [Next]_vars =>
        [\A s \in Caja, v \in Venta :
           Closed(s) /\ ~SellingOn(v, s)
             => ((venta[v].caja = s)' <=> venta[v].caja = s) /\ ~SellingOn(v, s)']_vars
  BY <1>1, <1>2
<1> QED BY Invariance, <1>3, PTL DEF Spec, ClosedCajaTakesNoNewSale
=============================================================================
