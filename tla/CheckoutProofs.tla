--------------------------- MODULE CheckoutProofs ---------------------------
(***************************************************************************)
(* Proofs about CheckoutClient, for any carts and any bounds.              *)
(***************************************************************************)
EXTENDS CheckoutClient, TLAPS

(* The requests, when one is sent and when one is answered.                *)

LEMMA SentIsRequest ==
    ASSUME NEW c \in Call
    PROVE  Sent(c) \in Request
BY EmptyAssumption, BoundAssumption DEF Sent, Request

LEMMA RequestSent ==
    ASSUME TypeOK, NEW r \in Request, request' = Append(request, r)
    PROVE  /\ request' \in Seq(Request) /\ Len(request') = Len(request) + 1
           /\ \A i \in 1..Len(request) : request'[i] = request[i]
           /\ request'[Len(request) + 1] = r
           /\ 1..Len(request') = (1..Len(request)) \cup {Len(request) + 1}
BY DEF TypeOK

LEMMA RequestChanged ==
    ASSUME TypeOK, NEW i \in 1..Len(request), NEW r \in Request,
           request' = [request EXCEPT ![i] = r]
    PROVE  /\ request' \in Seq(Request) /\ Len(request') = Len(request)
           /\ \A j \in 1..Len(request) : j # i => request'[j] = request[j]
           /\ request'[i] = r
BY DEF TypeOK

\* Only the step of a request, and the register it is told of, ever change.
Keeps(i) ==
    /\ request' \in Seq(Request) /\ Len(request') = Len(request)
    /\ \A j \in 1..Len(request) : j # i => request'[j] = request[j]
    /\ request'[i].tipo = request[i].tipo /\ request'[i].key = request[i].key
    /\ request'[i].cart = request[i].cart /\ request'[i].retry = request[i].retry

LEMMA AnswerKeeps ==
    ASSUME TypeOK, NEW i \in 1..Len(request), NEW step \in {"ok", "error", "lost", "working"},
           Answer(i, step)
    PROVE  Keeps(i) /\ request'[i].step = step /\ request'[i].caja = request[i].caja
<1> DEFINE r == [request[i] EXCEPT !.step = step]
<1>1. request[i] \in Request
  BY DEF TypeOK
<1>2. r \in Request /\ r.step = step /\ r.tipo = request[i].tipo /\ r.key = request[i].key
      /\ r.cart = request[i].cart /\ r.retry = request[i].retry /\ r.caja = request[i].caja
  BY <1>1 DEF Request
<1>3. request' = [request EXCEPT ![i] = r]
  BY DEF Answer
<1> HIDE DEF r
<1> QED BY <1>2, <1>3, RequestChanged DEF Keeps

LEMMA AnswerWithKeeps ==
    ASSUME TypeOK, NEW i \in 1..Len(request), NEW c \in 0..MaxCaja, AnswerWith(i, c)
    PROVE  Keeps(i) /\ request'[i].step = "ok" /\ request'[i].caja = c
<1> DEFINE mid == [request EXCEPT ![i].step = "ok"]
           r == [mid[i] EXCEPT !.caja = c]
<1>1. request \in Seq(Request) /\ request[i] \in Request
  BY DEF TypeOK
<1>2. mid[i] = [request[i] EXCEPT !.step = "ok"]
  BY <1>1
<1>3. mid[i] \in Request
  BY <1>1, <1>2 DEF Request
<1>4. request' = [mid EXCEPT ![i].caja = c]
  BY DEF AnswerWith
<1>5. request' = [request EXCEPT ![i] = r]
  BY <1>1, <1>4
<1>6. r \in Request /\ r.step = "ok" /\ r.tipo = request[i].tipo /\ r.key = request[i].key
      /\ r.cart = request[i].cart /\ r.retry = request[i].retry /\ r.caja = c
  BY <1>1, <1>2, <1>3 DEF Request
<1> HIDE DEF r
<1> QED BY <1>5, <1>6, RequestChanged DEF Keeps

-----------------------------------------------------------------------------
(* The initial states, and the steps.                                      *)

LEMMA InitInv == Init => IInv
<1> SUFFICES ASSUME Init PROVE IInv
  OBVIOUS
<1> USE EmptyAssumption, BoundAssumption
<1>1. /\ request \in Seq(Request) /\ Len(request) = 1 /\ request[1] = Sent("current")
      /\ \A i \in 1..Len(request) : request[i] = Sent("current")
  BY SentIsRequest DEF Init, Call
<1>2. TypeOK
  BY <1>1 DEF Init, TypeOK, NoCalls, Call, Sent
<1>3. ScreenInv
  BY <1>1 DEF Init, ScreenInv, NoCalls, Call
<1>4. RequestInv
  BY <1>1 DEF Init, RequestInv, Sent
<1>5. VentaInv
  BY DEF Init, VentaInv
<1> QED BY <1>2, <1>3, <1>4, <1>5 DEF IInv

\* Steps of the screen that send nothing.
Quiet ==
    \/ LoadAnswered \/ LoadFailed \/ OpenAnswered \/ OpenFailed
    \/ EditCart \/ SaleAnswered \/ SaleFailed \/ NewSale
    \/ OpenModal \/ CloseModal \/ CloseAnswered \/ CloseFailed

LEMMA Mounted ==
    ASSUME IInv, LoadAnswered \/ OpenAnswered
    PROVE  /\ call["sale"] = 0 /\ completedSale = 0 /\ status # "open" /\ session = 0
           /\ LoadAnswered => status = "loading" /\ call["open"] = 0
           /\ OpenAnswered => status = "closed" /\ call["current"] = 0
           /\ LoadAnswered => request[call["current"]].caja \in 0..MaxCaja
           /\ OpenAnswered => request[call["open"]].caja \in 1..MaxCaja
<1> USE DEF IInv, TypeOK, Call
<1>1. /\ call["sale"] = 0 /\ completedSale = 0 /\ status # "open" /\ session = 0
      /\ LoadAnswered => status = "loading" /\ call["open"] = 0
      /\ OpenAnswered => status = "closed" /\ call["current"] = 0
  BY DEF ScreenInv, LoadAnswered, OpenAnswered, Returns
<1>2. ASSUME LoadAnswered PROVE request[call["current"]].caja \in 0..MaxCaja
  <2>1. call["current"] \in 1..Len(request) /\ request[call["current"]] \in Request
    BY <1>2 DEF LoadAnswered, Returns
  <2> QED BY <2>1 DEF Request
<1>3. ASSUME OpenAnswered PROVE request[call["open"]].caja \in 1..MaxCaja
  <2>1. call["open"] \in 1..Len(request) /\ request[call["open"]] \in Request
        /\ request[call["open"]].step = "ok" /\ request[call["open"]].tipo = "open"
    BY <1>3 DEF OpenAnswered, Returns
  <2>2. request[call["open"]].caja # 0
    BY <2>1 DEF RequestInv
  <2> QED BY <2>1, <2>2, BoundAssumption DEF Request
<1> QED BY <1>1, <1>2, <1>3

\* The answer to a checkout is the sale of the key on the screen.
LEMMA Answered ==
    ASSUME IInv, SaleAnswered
    PROVE  /\ status = "open" /\ completedSale = 0 /\ key \in Key
           /\ request[call["sale"]].key = key /\ venta[key] # Empty
<1> USE DEF IInv, TypeOK, Call
<1>1. call["sale"] \in 1..Len(request) /\ request[call["sale"]].step = "ok"
      /\ request[call["sale"]].tipo = "sale"
  BY DEF SaleAnswered, Returns
<1>2. status = "open" /\ completedSale = 0 /\ request[call["sale"]].key = key
  BY <1>1 DEF ScreenInv
<1>3. venta[key] # Empty
  BY <1>1, <1>2 DEF RequestInv
<1>4. key \in Key
  BY <1>2, BoundAssumption DEF ScreenInv, Key
<1> QED BY <1>2, <1>3, <1>4

LEMMA QuietTypes == ASSUME IInv, Quiet PROVE TypeOK'
<1> USE BoundAssumption, EmptyAssumption DEF IInv, TypeOK
<1>1. ASSUME LoadAnswered PROVE TypeOK'
  BY <1>1, Mounted DEF LoadAnswered, Settle, EnterSaleScreen, Call, history, server
<1>2. ASSUME LoadFailed PROVE TypeOK'
  BY <1>2 DEF ScreenInv, LoadFailed, Throws, Settle, Call, history, server
<1>3. ASSUME OpenAnswered PROVE TypeOK'
  BY <1>3, Mounted DEF OpenAnswered, Settle, EnterSaleScreen, Call, history, server
<1>4. ASSUME OpenFailed PROVE TypeOK'
  BY <1>4 DEF OpenFailed, Settle, Call, page, history, server
<1>5. ASSUME EditCart PROVE TypeOK'
  BY <1>5 DEF EditCart, Editing, history, server
<1>6. ASSUME SaleAnswered PROVE TypeOK'
  BY <1>6, Answered DEF SaleAnswered, Call, server
<1>7. ASSUME SaleFailed PROVE TypeOK'
  BY <1>7 DEF SaleFailed, Settle, Call, page, history, server
<1>8. ASSUME NewSale PROVE TypeOK'
  BY <1>8 DEF NewSale, server
<1>9. ASSUME OpenModal PROVE TypeOK'
  BY <1>9 DEF OpenModal, Editing, history, server
<1>10. ASSUME CloseModal PROVE TypeOK'
  BY <1>10 DEF CloseModal, history, server
<1>11. ASSUME CloseAnswered PROVE TypeOK'
  BY <1>11 DEF CloseAnswered, Settle, Call, history, server
<1>12. ASSUME CloseFailed PROVE TypeOK'
  BY <1>12 DEF CloseFailed, Settle, Call, page, history, server
<1> QED BY <1>1, <1>2, <1>3, <1>4, <1>5, <1>6, <1>7, <1>8, <1>9, <1>10, <1>11, <1>12 DEF Quiet

LEMMA QuietScreen == ASSUME IInv, Quiet PROVE ScreenInv'
<1> USE BoundAssumption DEF IInv, TypeOK, ScreenInv, Call, server, history
<1>1. ASSUME LoadAnswered PROVE ScreenInv'
  BY <1>1, Mounted DEF LoadAnswered, Settle, EnterSaleScreen
<1>2. ASSUME LoadFailed PROVE ScreenInv'
  BY <1>2 DEF LoadFailed, Throws, Settle
<1>3. ASSUME OpenAnswered PROVE ScreenInv'
  BY <1>3, Mounted DEF OpenAnswered, Settle, EnterSaleScreen
<1>4. ASSUME OpenFailed PROVE ScreenInv'
  BY <1>4 DEF OpenFailed, Settle, page
<1>5. ASSUME EditCart PROVE ScreenInv'
  BY <1>5 DEF EditCart, Editing
<1>6. ASSUME SaleAnswered PROVE ScreenInv'
  BY <1>6, Answered DEF SaleAnswered
<1>7. ASSUME SaleFailed PROVE ScreenInv'
  BY <1>7 DEF SaleFailed, Settle, page
<1>8. ASSUME NewSale PROVE ScreenInv'
  BY <1>8 DEF NewSale
<1>9. ASSUME OpenModal PROVE ScreenInv'
  BY <1>9 DEF OpenModal, Editing
<1>10. ASSUME CloseModal PROVE ScreenInv'
  BY <1>10 DEF CloseModal
<1>11. ASSUME CloseAnswered PROVE ScreenInv'
  BY <1>11 DEF CloseAnswered, Settle
<1>12. ASSUME CloseFailed PROVE ScreenInv'
  BY <1>12 DEF CloseFailed, Settle, page
<1> QED BY <1>1, <1>2, <1>3, <1>4, <1>5, <1>6, <1>7, <1>8, <1>9, <1>10, <1>11, <1>12 DEF Quiet

\* A quiet step leaves the requests and the sales, and accounts for the key it leaves.
LEMMA QuietKeeps ==
    ASSUME IInv, Quiet
    PROVE  /\ request' = request /\ venta' = venta
           /\ key' \in {key, key + 1} /\ Accounted \ {0} \subseteq Accounted'
           /\ status' = "open" /\ key' = key => status = "open" /\ confirmed \subseteq confirmed'
<1> USE DEF IInv, Accounted, server, history, page
<1>1. CASE LoadAnswered
  BY <1>1, Mounted DEF ScreenInv, TypeOK, LoadAnswered, Settle, EnterSaleScreen
<1>2. CASE OpenAnswered
  BY <1>2, Mounted DEF ScreenInv, TypeOK, OpenAnswered, Settle, EnterSaleScreen
<1>3. CASE SaleAnswered
  BY <1>3 DEF SaleAnswered
<1>4. CASE NewSale
  BY <1>4 DEF TypeOK, ScreenInv, NewSale
<1>5. CASE LoadFailed \/ OpenFailed \/ EditCart \/ SaleFailed \/ OpenModal \/ CloseModal
           \/ CloseAnswered \/ CloseFailed
  BY <1>5 DEF LoadFailed, OpenFailed, EditCart, SaleFailed, OpenModal, CloseModal, CloseAnswered,
              CloseFailed, Settle
<1> QED BY <1>1, <1>2, <1>3, <1>4, <1>5 DEF Quiet

LEMMA QuietStep == ASSUME IInv, Quiet PROVE IInv'
<1>1. TypeOK' /\ ScreenInv'
  BY QuietTypes, QuietScreen
<1>2. key \in Nat /\ key' \in Nat /\ 1..key \subseteq 1..key'
  BY QuietKeeps DEF IInv, TypeOK
<1>3. RequestInv'
  <2>1. \A i \in 1..Len(request) : request[i].tipo = "sale" => request[i].key \in (1..key) \ {0}
    BY <1>2 DEF IInv, RequestInv
  <2> QED BY <1>2, <2>1, QuietKeeps DEF IInv, RequestInv
<1>4. VentaInv'
  BY <1>2, QuietKeeps DEF IInv, VentaInv
<1> QED BY <1>1, <1>3, <1>4 DEF IInv

-----------------------------------------------------------------------------
(* Steps that send a request.                                              *)

\* The history and the requests, when a request joins them.
LEMMA SendStep ==
    ASSUME IInv, NEW r \in Request, request' = Append(request, r), r.step = "sent",
           venta' = venta, key' = key, Accounted \ {0} \subseteq Accounted',
           status' = "open" => status = "open" /\ confirmed \subseteq confirmed',
           r.tipo = "sale" => r.key = key /\ key # 0 /\ r.cart # Empty /\ r.cart \in confirmed',
           r.retry => r.tipo = "sale" /\ venta[r.key] # Empty
    PROVE  RequestInv' /\ VentaInv'
<1>1. key \in Nat /\ (key # 0 => key \in 1..key')
  BY DEF IInv, TypeOK
<1>2. RequestInv'
  <2>1. /\ \A i \in 1..Len(request) : request'[i] = request[i]
        /\ request'[Len(request) + 1] = r
        /\ 1..Len(request') = (1..Len(request)) \cup {Len(request) + 1}
    BY RequestSent DEF IInv
  <2>2. \A i \in 1..Len(request) : request[i].tipo = "sale" => request[i].key # 0
    BY <1>1 DEF IInv, RequestInv
  <2>3. key \in Accounted'
    BY DEF Accounted
  <2> QED BY <1>1, <2>1, <2>2, <2>3 DEF IInv, RequestInv
<1>3. VentaInv'
  BY <1>1 DEF IInv, VentaInv
<1> QED BY <1>2, <1>3

LEMMA OpenRegisterStep == ASSUME IInv, OpenRegister PROVE IInv'
<1> DEFINE r == Sent("open")
<1>1. r \in Request /\ r.tipo = "open" /\ r.step = "sent" /\ ~r.retry
  BY SentIsRequest DEF Sent, Call
<1>2. request' = Append(request, r) /\ call' = [call EXCEPT !["open"] = Len(request) + 1]
  BY DEF OpenRegister, Send
<1> HIDE DEF r
<1>3. TypeOK'
  BY <1>1, <1>2, RequestSent DEF OpenRegister, page, server, history, IInv, TypeOK, Call
<1>4. ScreenInv'
  BY <1>2, <1>3, RequestSent, <1>1
     DEF OpenRegister, page, server, history, IInv, TypeOK, Call, ScreenInv
<1>5. RequestInv' /\ VentaInv'
  BY <1>1, <1>2, SendStep DEF OpenRegister, page, server, history, Accounted
<1> QED BY <1>3, <1>4, <1>5 DEF IInv

LEMMA SubmitCloseStep == ASSUME IInv, SubmitClose PROVE IInv'
<1> DEFINE s == Sent("close")
           r == [s EXCEPT !.caja = session]
<1>1. r \in Request /\ r.tipo = "close" /\ r.step = "sent" /\ ~r.retry
  <2>1. s \in Request /\ s.tipo = "close" /\ s.step = "sent" /\ ~s.retry
    BY SentIsRequest DEF Sent, Call
  <2> HIDE DEF s
  <2> QED BY <2>1 DEF IInv, TypeOK, Request
<1>2. request' = Append(request, r) /\ call' = [call EXCEPT !["close"] = Len(request) + 1]
  BY DEF SubmitClose, Send
<1> HIDE DEF r
<1>3. TypeOK'
  BY <1>1, <1>2, RequestSent DEF SubmitClose, page, server, history, IInv, TypeOK, Call
<1>4. ScreenInv'
  BY <1>2, <1>3, RequestSent, <1>1
     DEF SubmitClose, page, server, history, IInv, TypeOK, Call, ScreenInv
<1>5. RequestInv' /\ VentaInv'
  BY <1>1, <1>2, SendStep DEF SubmitClose, page, server, history, Accounted
<1> QED BY <1>3, <1>4, <1>5 DEF IInv

LEMMA CheckoutStep == ASSUME IInv, Checkout PROVE IInv'
<1> DEFINE s == Sent("sale")
           r == [s EXCEPT !.key = key, !.cart = cart, !.retry = venta[key] # Empty]
<1>1. status = "open" /\ completedSale = 0 /\ cart # Empty /\ key # 0
  BY DEF IInv, ScreenInv, Checkout, Editing
<1>2. /\ r \in Request /\ r.tipo = "sale" /\ r.step = "sent" /\ r.key = key /\ r.cart = cart
      /\ r.retry => venta[key] # Empty
  <2>1. s \in Request /\ s.tipo = "sale" /\ s.step = "sent"
    BY SentIsRequest DEF Sent, Call
  <2> HIDE DEF s
  <2> DEFINE t == [s EXCEPT !.key = key]
             u == [t EXCEPT !.cart = cart]
             v == [u EXCEPT !.retry = venta[key] # Empty]
  <2>2. t \in Request /\ t.tipo = "sale" /\ t.step = "sent" /\ t.key = key
    BY <2>1 DEF IInv, TypeOK, Request
  <2> HIDE DEF t
  <2>3. u \in Request /\ u.tipo = "sale" /\ u.step = "sent" /\ u.key = key /\ u.cart = cart
    BY <2>2 DEF IInv, TypeOK, Request
  <2> HIDE DEF u
  <2>4. /\ v \in Request /\ v.tipo = "sale" /\ v.step = "sent" /\ v.key = key /\ v.cart = cart
        /\ v.retry => venta[key] # Empty
    BY <2>3 DEF Request
  <2>5. v = r
    BY DEF t, u
  <2> QED BY <2>4, <2>5
<1>3. request' = Append(request, r) /\ call' = [call EXCEPT !["sale"] = Len(request) + 1]
  BY DEF Checkout, Send
<1> HIDE DEF r
<1>4. TypeOK'
  BY <1>1, <1>2, <1>3, RequestSent DEF Checkout, page, server, IInv, TypeOK, Call
<1>5. ScreenInv'
  BY <1>1, <1>2, <1>3, <1>4, RequestSent
     DEF Checkout, page, server, IInv, TypeOK, Call, ScreenInv
<1>6. RequestInv' /\ VentaInv'
  BY <1>1, <1>2, <1>3, SendStep DEF Checkout, page, server, Accounted
<1> QED BY <1>4, <1>5, <1>6 DEF IInv

LEMMA LeaveStep == ASSUME IInv, LeaveSaleScreen PROVE IInv'
<1> DEFINE r == Sent("current")
<1>1. r \in Request /\ r.tipo = "current" /\ r.step = "sent" /\ ~r.retry
  BY SentIsRequest DEF Sent, Call
<1>2. request' = Append(request, r) /\ call' = [NoCalls EXCEPT !["current"] = Len(request) + 1]
  BY DEF LeaveSaleScreen
<1> HIDE DEF r
<1>3. TypeOK'
  BY <1>1, <1>2, RequestSent, EmptyAssumption, BoundAssumption
     DEF LeaveSaleScreen, server, NoCalls, IInv, TypeOK, Call, Key
<1>4. ScreenInv'
  BY <1>2, <1>3 DEF LeaveSaleScreen, NoCalls, IInv, TypeOK, Call, ScreenInv
<1>5. RequestInv' /\ VentaInv'
  BY <1>1, <1>2, SendStep DEF LeaveSaleScreen, server, Accounted
<1> QED BY <1>3, <1>4, <1>5 DEF IInv

-----------------------------------------------------------------------------
(* Steps of the server.                                                    *)

LEMMA ServeKeeps ==
    ASSUME IInv, NEW i \in 1..Len(request), Serve(i)
    PROVE  /\ Keeps(i) /\ request'[i].caja \in 0..MaxCaja
           /\ request'[i].step \in {"ok", "error", "lost", "working"}
           /\ request'[i].tipo = "open" /\ request'[i].step = "ok" => request'[i].caja # 0
           /\ request'[i].tipo = "sale" /\ request'[i].step \in {"working", "error"} =>
                 \/ venta[request[i].key] = Empty
                 \/ request[i].step = "working"
           /\ request'[i].tipo = "sale" /\ request'[i].step = "ok" => venta'[request[i].key] # Empty
           /\ caja' \in 0..cajas' /\ cajas' \in 0..MaxCaja
<1> USE BoundAssumption DEF IInv
<1>1. TypeOK /\ request[i] \in Request /\ request[i].caja \in 0..MaxCaja
      /\ (request[i].tipo = "sale" => request[i].key \in Key /\ request[i].cart # Empty)
  <2>1. TypeOK /\ request[i] \in Request
    BY DEF TypeOK
  <2>2. request[i].tipo = "sale" => request[i].key \in 1..key /\ request[i].cart # Empty
    BY DEF RequestInv
  <2>3. 1..key \subseteq Key
    BY <2>1 DEF TypeOK, Key
  <2> QED BY <2>1, <2>2, <2>3 DEF Request
<1>2. cajas \in 0..MaxCaja /\ caja \in 0..cajas /\ venta \in [Key -> Cart]
  BY <1>1 DEF TypeOK
<1>3. CASE ServeCurrent(i)
  BY <1>1, <1>2, <1>3, AnswerWithKeeps DEF ServeCurrent, Received, server, Keeps
<1>4. CASE ServeOpen(i)
  BY <1>1, <1>2, <1>4, AnswerWithKeeps, AnswerKeeps DEF ServeOpen, Received, Keeps
<1>5. CASE ServeClose(i)
  BY <1>1, <1>2, <1>5, AnswerKeeps DEF ServeClose, Received, Keeps
<1>6. CASE LookUpSale(i)
  BY <1>1, <1>2, <1>6, AnswerKeeps DEF LookUpSale, Received, server, Keeps
<1>7. CASE CommitSale(i)
  BY <1>1, <1>2, <1>7, AnswerKeeps DEF CommitSale, Received, Keeps
<1>8. CASE RejectSale(i)
  BY <1>1, <1>2, <1>8, AnswerKeeps DEF RejectSale, Received, server, Keeps
<1>9. CASE Lose(i)
  BY <1>1, <1>2, <1>9, AnswerKeeps DEF Lose, server, Keeps
<1> QED BY <1>3, <1>4, <1>5, <1>6, <1>7, <1>8, <1>9 DEF Serve

\* A sale is stored once, under the key and with the cart of its request.
LEMMA VentaGrows ==
    ASSUME IInv, NEW i \in 1..Len(request), Serve(i)
    PROVE  /\ venta' \in [Key -> Cart]
           /\ \A k \in Key : venta'[k] # venta[k] =>
                 /\ venta[k] = Empty /\ venta'[k] = request[i].cart
                 /\ k = request[i].key /\ request[i].tipo = "sale"
<1>1. CASE CommitSale(i)
  <2>1. request[i] \in Request
    BY DEF IInv, TypeOK
  <2> QED BY <1>1, <2>1 DEF IInv, TypeOK, Request, CommitSale, Received
<1>2. CASE ~CommitSale(i)
  BY <1>2 DEF IInv, TypeOK, Serve, server, ServeCurrent, ServeOpen, ServeClose, LookUpSale,
              RejectSale, Lose
<1> QED BY <1>1, <1>2

LEMMA ServeStep == ASSUME IInv, NEW i \in 1..Len(request), Serve(i) PROVE IInv'
<1>1. /\ Keeps(i) /\ UNCHANGED << page, call, history >>
  BY ServeKeeps DEF Serve
<1>2. TypeOK'
  BY <1>1, ServeKeeps, VentaGrows DEF IInv, TypeOK, Keeps, page, history
<1>3. \A k \in Key : venta[k] # Empty => venta'[k] = venta[k]
  BY VentaGrows
<1>4. ScreenInv'
  <2>1. \A j \in 1..Len(request) : request'[j].key = request[j].key
    BY <1>1 DEF Keeps
  <2>2. completedSale # 0 => completedSale \in Key
    BY BoundAssumption DEF IInv, TypeOK, Key
  <2> QED BY <1>1, <1>3, <2>1, <2>2 DEF IInv, TypeOK, Call, ScreenInv, page, history
<1>5. VentaInv'
  <2> SUFFICES ASSUME NEW k \in Key, venta'[k] # Empty
               PROVE  /\ k \in (1..key) \cap Accounted
                      /\ k = key /\ status = "open" => venta'[k] \in confirmed
    BY <1>1 DEF VentaInv, Accounted, page, history
  <2> QED BY VentaGrows DEF IInv, VentaInv, RequestInv
<1>6. RequestInv'
  <2> SUFFICES ASSUME NEW j \in 1..Len(request)
               PROVE  LET r == request'[j] IN
                      /\ r.tipo = "sale" => r.key \in (1..key) \cap Accounted /\ r.cart # Empty
                      /\ r.tipo = "sale" /\ r.key = key /\ status = "open" => r.cart \in confirmed
                      /\ r.tipo = "sale" /\ r.step = "ok" => venta'[r.key] # Empty
                      /\ r.tipo = "open" /\ r.step = "ok" => r.caja # 0
                      /\ r.retry => /\ r.tipo = "sale" /\ venta'[r.key] # Empty
                                    /\ r.step \notin {"working", "error"}
    BY <1>1 DEF RequestInv, Accounted, page, history, Keeps
  <2>1. request[j].tipo = "sale" => request[j].key \in Key
    BY BoundAssumption DEF IInv, TypeOK, RequestInv, Key
  <2>2. CASE j # i
    BY <1>1, <1>3, <2>1, <2>2 DEF Keeps, IInv, RequestInv
  <2>3. CASE j = i
    BY <1>1, <1>3, <2>1, <2>3, ServeKeeps DEF Keeps, IInv, RequestInv
  <2> QED BY <2>2, <2>3
<1> QED BY <1>2, <1>4, <1>5, <1>6 DEF IInv

-----------------------------------------------------------------------------
LEMMA StepInv == ASSUME IInv, [Next]_vars PROVE IInv'
<1>1. CASE Quiet
  BY <1>1, QuietStep
<1>2. CASE OpenRegister \/ SubmitClose \/ Checkout \/ LeaveSaleScreen
  BY <1>2, OpenRegisterStep, SubmitCloseStep, CheckoutStep, LeaveStep
<1>3. ASSUME NEW i \in 1..Len(request), Serve(i) PROVE IInv'
  BY <1>3, ServeStep
<1>4. CASE CloseByAdmin
  BY <1>4, BoundAssumption DEF CloseByAdmin, page, history, IInv, TypeOK, ScreenInv, RequestInv, VentaInv, Accounted
<1>5. CASE UNCHANGED vars
  BY <1>5 DEF vars, page, server, history, IInv, TypeOK, ScreenInv, RequestInv, VentaInv, Accounted
<1> QED BY <1>1, <1>2, <1>3, <1>4, <1>5 DEF Next, Quiet, Reload, Entendido

\* What is awaited, sent and stored fits together in every state, whatever answers are
\* lost, late or repeated.
THEOREM Invariance == Spec => []IInv
<1>1. Init => IInv
  BY InitInv
<1>2. IInv /\ [Next]_vars => IInv'
  BY StepInv
<1> QED BY <1>1, <1>2, PTL DEF Spec

\* No receipt is of a cart that the seller had not confirmed since the last one.
THEOREM ReceiptsAreOfThisSale == Spec => []ReceiptOfConfirmedCart
<1>1. IInv => ReceiptOfConfirmedCart
  BY DEF IInv, TypeOK, ScreenInv, VentaInv, ReceiptOfConfirmedCart, Key
<1> QED BY <1>1, Invariance, PTL

\* A checkout sent again after its sale was stored is never refused.
THEOREM RetriesFindTheirSale == Spec => []RetryRecovers
<1>1. IInv => RetryRecovers
  BY DEF IInv, RequestInv, RetryRecovers
<1> QED BY <1>1, Invariance, PTL

\* A stored sale is on the screen, has had its receipt shown, or was left by a reload.
THEOREM EverySaleIsAccountedFor == Spec => []NoSaleForgotten
<1>1. IInv => NoSaleForgotten
  BY DEF IInv, VentaInv, Accounted, NoSaleForgotten
<1> QED BY <1>1, Invariance, PTL
=============================================================================
