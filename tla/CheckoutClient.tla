--------------------------- MODULE CheckoutClient ---------------------------
(***************************************************************************)
(* The seller's screen (VenderPage.tsx, components/sale/) and the server   *)
(* behind it: the cart, the idempotency key of a checkout, the calls whose *)
(* answers are lost or late, the register that opens and closes meanwhile, *)
(* and the page that is reloaded.                                          *)
(*                                                                         *)
(* The server keeps the promises of AtomicSales and CashSessions: a sale   *)
(* is named after its key, which no other sale has, and the seller has at  *)
(* most one open register.  Whether a sale is rejected for its stock or    *)
(* its amounts is open: both can happen at any checkout.                   *)
(***************************************************************************)
EXTENDS Integers, Sequences

CONSTANTS
    Cart, Empty,    \* contents a cart may have, and the empty one
    MaxKey,         \* bound: idempotency keys the screen may draw
    MaxRequest,     \* bound: requests the screen may send
    MaxCaja         \* bound: registers the seller may open

ASSUME EmptyAssumption == Empty \in Cart
ASSUME BoundAssumption == MaxKey \in Nat /\ MaxRequest \in Nat /\ MaxCaja \in Nat

Key == 1..MaxKey
Call == {"current", "open", "sale", "close"}

VARIABLES
    status, session,                    \* VenderPage; a register is a number, 0 is none
    cart, key, completedSale, modal,    \* SaleScreen and CloseRegisterModal; 0 is no sale
    call,                               \* the request each call of the screen awaits, 0 if none
    request,                            \* the requests sent so far, and how far they have got
    venta, caja, cajas,                 \* server: sale of each key, open register, registers so far
    confirmed,                          \* history: carts confirmed for the sale in progress
    receipts, abandoned                 \* history: keys whose receipt was shown; keys left without

page == << status, session, cart, key, completedSale, modal >>
server == << venta, caja, cajas >>
history == << confirmed, receipts, abandoned >>
vars == << page, call, request, server, history >>

Request == [tipo : Call, step : {"sent", "working", "ok", "error", "lost"}, key : 0..MaxKey,
            cart : Cart, caja : 0..MaxCaja, retry : BOOLEAN]

\* The screen is in a state its components can render, and awaits requests of its own.
TypeOK ==
    /\ status \in {"loading", "closed", "open", "error"}
    /\ session \in 0..MaxCaja /\ cart \in Cart /\ key \in 0..MaxKey
    /\ modal \in {"hidden", "form", "result"}
    /\ call \in [Call -> 0..Len(request)]
    /\ \A c \in Call : call[c] # 0 => request[call[c]].tipo = c
    /\ request \in Seq(Request)
    /\ venta \in [Key -> Cart] /\ cajas \in 0..MaxCaja /\ caja \in 0..cajas
    /\ confirmed \subseteq Cart \ {Empty} /\ receipts \subseteq Key /\ abandoned \subseteq Key
    /\ (status = "open") = (session # 0)
    /\ completedSale \in {0, key} /\ (completedSale # 0 => status = "open" /\ call["sale"] = 0)

-----------------------------------------------------------------------------
(* Calls: a request is sent, and the call ends with its answer or throws,  *)
(* which it may do whatever becomes of the request.                        *)

NoCalls == [c \in Call |-> 0]
Sent(c) ==
    [tipo |-> c, step |-> "sent", key |-> 0, cart |-> Empty, caja |-> 0, retry |-> FALSE]

Send(c, r) ==
    /\ Len(request) < MaxRequest
    /\ request' = Append(request, r)
    /\ call' = [call EXCEPT ![c] = Len(request) + 1]

Returns(c) == call[c] # 0 /\ request[call[c]].step = "ok"
Throws(c) == call[c] # 0
Settle(c) == call' = [call EXCEPT ![c] = 0] /\ UNCHANGED request

\* The first load of the page, with or without an open register.
Init ==
    /\ status = "loading" /\ session = 0
    /\ cart = Empty /\ key = 0 /\ completedSale = 0 /\ modal = "hidden"
    /\ call = [NoCalls EXCEPT !["current"] = 1]
    /\ request = << Sent("current") >>
    /\ venta = [k \in Key |-> Empty] /\ caja \in {0, 1} /\ caja <= MaxCaja /\ cajas = caja
    /\ confirmed = {} /\ receipts = {} /\ abandoned = {}

-----------------------------------------------------------------------------
(* VenderPage.                                                             *)

\* SaleScreen mounts: a new cart, a new key.
EnterSaleScreen(s) ==
    /\ key < MaxKey
    /\ status' = "open" /\ session' = s
    /\ key' = key + 1 /\ cart' = Empty /\ completedSale' = 0 /\ modal' = "hidden"

\* SaleScreen unmounts, whatever it awaits, and the page asks for the register; a
\* session that no screen shows is forgotten.
LeaveSaleScreen ==
    /\ Len(request) < MaxRequest
    /\ status' = "loading" /\ session' = 0
    /\ cart' = Empty /\ completedSale' = 0 /\ modal' = "hidden" /\ UNCHANGED key
    /\ request' = Append(request, Sent("current"))
    /\ call' = [NoCalls EXCEPT !["current"] = Len(request) + 1]
    /\ confirmed' = {} /\ abandoned' = abandoned \cup ({key} \ {0}) /\ UNCHANGED receipts
    /\ UNCHANGED server

LoadAnswered ==
    /\ Returns("current") /\ Settle("current")
    /\ LET current == request[call["current"]].caja IN
       \/ current # 0 /\ EnterSaleScreen(current)
       \/ /\ current = 0
          /\ status' = "closed" /\ UNCHANGED << session, cart, key, completedSale, modal >>
    /\ UNCHANGED << server, history >>

LoadFailed ==
    /\ Throws("current") /\ Settle("current")
    /\ status' = "error"
    /\ UNCHANGED << session, cart, key, completedSale, modal, server, history >>

OpenRegister ==
    /\ status = "closed" /\ call["open"] = 0
    /\ Send("open", Sent("open"))
    /\ UNCHANGED << page, server, history >>

OpenAnswered ==
    /\ Returns("open") /\ Settle("open")
    /\ EnterSaleScreen(request[call["open"]].caja)
    /\ UNCHANGED << server, history >>

OpenFailed ==
    /\ Throws("open") /\ Settle("open")
    /\ UNCHANGED << page, server, history >>

\* The page is reloaded, or left and entered again.
Reload == LeaveSaleScreen

-----------------------------------------------------------------------------
(* SaleScreen.                                                             *)

Editing == status = "open" /\ completedSale = 0 /\ modal = "hidden"

\* The cart can be edited at any time, while a checkout is under way too.
EditCart ==
    /\ Editing
    /\ \E c \in Cart \ {cart} : cart' = c
    /\ UNCHANGED << status, session, key, completedSale, modal, call, request, server, history >>

Checkout ==
    /\ Editing /\ call["sale"] = 0 /\ cart # Empty
    /\ Send("sale", [Sent("sale") EXCEPT !.key = key, !.cart = cart, !.retry = venta[key] # Empty])
    /\ confirmed' = confirmed \cup {cart}
    /\ UNCHANGED << page, server, receipts, abandoned >>

\* The receipt replaces the screen and unmounts the modal, which comes back as new.
SaleAnswered ==
    /\ Returns("sale")
    /\ completedSale' = request[call["sale"]].key
    /\ receipts' = receipts \cup {completedSale'}
    /\ call' = [call EXCEPT !["sale"] = 0, !["close"] = 0]
    /\ modal' = IF modal = "hidden" THEN "hidden" ELSE "form"
    /\ UNCHANGED << status, session, cart, key, request, server, confirmed, abandoned >>

\* Mutant: a failed checkout draws a new key.
SaleFailedNewKey ==
    /\ Throws("sale") /\ Settle("sale")
    /\ key < MaxKey /\ key' = key + 1
    /\ UNCHANGED << status, session, cart, completedSale, modal, server, history >>

\* The cart and the key stay as they are.
SaleFailed ==
    /\ Throws("sale") /\ Settle("sale")
    /\ UNCHANGED << page, server, history >>

\* Mutant: the next sale keeps the key of the last one.
NewSaleSameKey ==
    /\ completedSale # 0
    /\ cart' = Empty /\ completedSale' = 0
    /\ confirmed' = {}
    /\ UNCHANGED << status, session, key, modal, call, request, server, receipts, abandoned >>

\* Mutant: the receipt stays.
NewSaleBehindReceipt ==
    /\ completedSale # 0 /\ key < MaxKey
    /\ cart' = Empty /\ key' = key + 1
    /\ confirmed' = {}
    /\ UNCHANGED << status, session, completedSale, modal, call, request, server, receipts, abandoned >>

NewSale ==
    /\ completedSale # 0 /\ key < MaxKey
    /\ cart' = Empty /\ key' = key + 1 /\ completedSale' = 0
    /\ confirmed' = {}
    /\ UNCHANGED << status, session, modal, call, request, server, receipts, abandoned >>

-----------------------------------------------------------------------------
(* CloseRegisterModal.                                                     *)

OpenModal ==
    /\ Editing /\ modal' = "form"
    /\ UNCHANGED << status, session, cart, key, completedSale, call, request, server, history >>

CloseModal ==
    /\ modal # "hidden" /\ completedSale = 0 /\ modal' = "hidden"
    /\ UNCHANGED << status, session, cart, key, completedSale, call, request, server, history >>

SubmitClose ==
    /\ modal = "form" /\ completedSale = 0 /\ call["close"] = 0
    /\ Send("close", [Sent("close") EXCEPT !.caja = session])
    /\ UNCHANGED << page, server, history >>

\* The result of a modal that was hidden meanwhile is gone when it is shown again.
CloseAnswered ==
    /\ Returns("close") /\ Settle("close")
    /\ modal' = IF modal = "hidden" THEN "hidden" ELSE "result"
    /\ UNCHANGED << status, session, cart, key, completedSale, server, history >>

CloseFailed ==
    /\ Throws("close") /\ Settle("close")
    /\ UNCHANGED << page, server, history >>

\* The seller has read the result: the page asks for the register again.
Entendido == modal = "result" /\ completedSale = 0 /\ LeaveSaleScreen

-----------------------------------------------------------------------------
(* The server.                                                             *)

Received(i, tipo, step) == request[i].tipo = tipo /\ request[i].step = step
Answer(i, step) == request' = [request EXCEPT ![i].step = step]
AnswerWith(i, c) == request' = [request EXCEPT ![i].step = "ok", ![i].caja = c]

ServeCurrent(i) ==
    /\ Received(i, "current", "sent")
    /\ AnswerWith(i, caja)
    /\ UNCHANGED server

ServeOpen(i) ==
    /\ Received(i, "open", "sent")
    /\ \/ /\ caja = 0 /\ cajas < MaxCaja
          /\ caja' = cajas + 1 /\ cajas' = cajas + 1
          /\ AnswerWith(i, cajas + 1)
       \/ caja # 0 /\ Answer(i, "error") /\ UNCHANGED << caja, cajas >>
    /\ UNCHANGED venta

\* Mutant: the register is required before the key is looked up.
LookUpSaleAfterRegister(i) ==
    /\ Received(i, "sale", "sent")
    /\ Answer(i, CASE caja = 0 -> "error"
                   [] caja # 0 /\ venta[request[i].key] # Empty -> "ok"
                   [] OTHER -> "working")
    /\ UNCHANGED server

\* A sale that is stored under the key is the answer, open register or not.
LookUpSale(i) ==
    /\ Received(i, "sale", "sent")
    /\ Answer(i, CASE venta[request[i].key] # Empty -> "ok"
                   [] venta[request[i].key] = Empty /\ caja = 0 -> "error"
                   [] OTHER -> "working")
    /\ UNCHANGED server

CommitSale(i) ==
    /\ Received(i, "sale", "working")
    /\ LET k == request[i].key IN
       \/ /\ venta[k] = Empty /\ venta' = [venta EXCEPT ![k] = request[i].cart]
          /\ Answer(i, "ok")
       \/ venta[k] # Empty /\ Answer(i, "error") /\ UNCHANGED venta
    /\ UNCHANGED << caja, cajas >>

\* The stock, the amounts or the products do not allow the sale.
RejectSale(i) ==
    /\ Received(i, "sale", "working")
    /\ Answer(i, "error")
    /\ UNCHANGED server

ServeClose(i) ==
    /\ Received(i, "close", "sent")
    /\ \/ caja = request[i].caja /\ caja' = 0 /\ Answer(i, "ok")
       \/ caja # request[i].caja /\ Answer(i, "error") /\ UNCHANGED caja
    /\ UNCHANGED << venta, cajas >>

\* The request does not reach the server, or the server restarts under it.
Lose(i) ==
    /\ request[i].step \in {"sent", "working"}
    /\ Answer(i, "lost")
    /\ UNCHANGED server

\* An administrator closes the seller's register.
CloseByAdmin ==
    /\ caja # 0 /\ caja' = 0
    /\ UNCHANGED << page, call, request, venta, cajas, history >>

Serve(i) ==
    /\ \/ ServeCurrent(i) \/ ServeOpen(i) \/ ServeClose(i)
       \/ LookUpSale(i) \/ CommitSale(i) \/ RejectSale(i) \/ Lose(i)
    /\ UNCHANGED << page, call, history >>

Next ==
    \/ LoadAnswered \/ LoadFailed \/ OpenRegister \/ OpenAnswered \/ OpenFailed \/ Reload
    \/ EditCart \/ Checkout \/ SaleAnswered \/ SaleFailed \/ NewSale
    \/ OpenModal \/ CloseModal \/ SubmitClose \/ CloseAnswered \/ CloseFailed \/ Entendido
    \/ \E i \in 1..Len(request) : Serve(i)
    \/ CloseByAdmin

Spec == Init /\ [][Next]_vars

-----------------------------------------------------------------------------
(* The inductive invariant.                                                *)

\* The keys of which the screen has given an account, or is about to.
Accounted == {key} \cup receipts \cup abandoned

\* A call is awaited only by the screen that made it, with the key of its sale; a screen
\* that was left has abandoned its key.
ScreenInv ==
    /\ call["current"] # 0 => status = "loading"
    /\ call["open"] # 0 => status = "closed"
    /\ call["sale"] # 0 => /\ status = "open" /\ completedSale = 0
                           /\ request[call["sale"]].key = key
    /\ status = "open" => key # 0
    /\ status # "open" /\ key # 0 => key \in abandoned
    /\ completedSale # 0 => completedSale \in receipts /\ venta[completedSale] # Empty

\* A checkout was sent with a key drawn by then and with a cart the seller confirmed, and
\* what its answer says is stored.
RequestInv ==
    \A i \in 1..Len(request) :
        LET r == request[i] IN
        /\ r.tipo = "sale" => r.key \in (1..key) \cap Accounted /\ r.cart # Empty
        /\ r.tipo = "sale" /\ r.key = key /\ status = "open" => r.cart \in confirmed
        /\ r.tipo = "sale" /\ r.step = "ok" => venta[r.key] # Empty
        /\ r.tipo = "open" /\ r.step = "ok" => r.caja # 0
        /\ r.retry => /\ r.tipo = "sale" /\ venta[r.key] # Empty
                      /\ r.step \notin {"working", "error"}

\* A sale is stored under a key drawn by then, with a confirmed cart.
VentaInv ==
    \A k \in Key :
        venta[k] # Empty =>
            /\ k \in (1..key) \cap Accounted
            /\ k = key /\ status = "open" => venta[k] \in confirmed

\* What every step of the screen and of the server keeps: the types, what is awaited,
\* and where what is stored came from.
IInv == TypeOK /\ ScreenInv /\ RequestInv /\ VentaInv

-----------------------------------------------------------------------------
(* Properties.                                                             *)

\* A receipt is of a cart the seller confirmed since the last receipt: a late or
\* repeated answer never shows another customer's sale (SaleScreen.tsx:170-214).
ReceiptOfConfirmedCart == completedSale # 0 => venta[completedSale] \in confirmed

\* A retry of a sale that is stored gets that sale, though the register has been
\* closed since (services/sales.py:70-82).
RetryRecovers ==
    \A i \in 1..Len(request) : request[i].retry => request[i].step \notin {"working", "error"}

\* The seller goes on to another sale only past the receipt of this one: a stored
\* sale without a receipt is the one on the screen, or the screen was left.
NoSaleForgotten == \A k \in Key : venta[k] # Empty => k \in {key} \cup receipts \cup abandoned

\* "One POST per checkout attempt: the frontend generates this UUID once per attempt"
\* (models/sale.py:68): the sale a checkout gets is of the cart it sent.
AnswerIsOfTheCartSent ==
    \A i \in 1..Len(request) :
        Received(i, "sale", "ok") => venta[request[i].key] = request[i].cart
=============================================================================
