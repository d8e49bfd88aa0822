------------------------------- MODULE SaleForm -------------------------------
(***************************************************************************)
(* The sale that is being put together: the cart, the discount and the     *)
(* payments, whose amount the screen fills in; the scan that adds what it  *)
(* finds to the cart; and the checkout, of which CheckoutClient has the    *)
(* rest.  Products come with the price and the stock that a search or a    *)
(* scan told of them.  Amounts are whole.                                  *)
(***************************************************************************)
EXTENDS Page, FiniteSets, FiniteSetsExt

CONSTANTS
    Product, Price, Stock,
    Amount,     \* what is typed as a discount or a payment; nothing is None
    MaxLines    \* bound: the payments of a sale

CartLine == [price : Price, stock : Stock, cantidad : Nat]
EmptyCart == [p \in {} |-> None]

\* typed (history): the amount is one that the seller typed over what was filled in.
newPaymentLine == [monto |-> None, typed |-> FALSE]

subtotal(cart) == MapThenSumSet(LAMBDA p : cart[p].price * cart[p].cantidad, DOMAIN cart)
Discount(typed) == IF typed = None THEN 0 ELSE typed
total(form) ==
    LET due == subtotal(form.cart) IN
    IF Discount(form.descuento) < due THEN due - Discount(form.descuento) ELSE 0

\* Mutant: only an empty amount is filled in.
UntouchedEmpty(form) == form.payments[1].monto = None

Untouched(form) == form.payments[1].monto \in {None, form.autoFilled}

\* The effect on the total and the payments, after each change of either.
Rendered(form) ==
    IF Len(form.payments) = 1 /\ Untouched(form) /\ total(form) > 0
    THEN [form EXCEPT !.payments[1].monto = total(form), !.autoFilled =
             IF form.payments[1].monto = total(form) THEN @ ELSE total(form)]
    ELSE form

TypeOK ==
    /\ \E P \in SUBSET Product : ui.cart \in [P -> CartLine]
    /\ \A p \in DOMAIN ui.cart : ui.cart[p].cantidad <= Max({1, ui.cart[p].stock})
    /\ ui.descuento \in Amount \cup {None}
    /\ Len(ui.payments) \in 1 .. MaxLines
    /\ ui.scan \in {"closed", "idle", "scanning", "error"} /\ (ui.scan = "scanning" => Doing("scan") # {})
    /\ ui.submitting = (Doing("sale") # {}) /\ \A i, j \in Doing("sale") : i = j

Init ==
    /\ db = None /\ calls = << >> /\ behind = FALSE
    /\ ui = [cart |-> EmptyCart, descuento |-> None, payments |-> << newPaymentLine >>,
             autoFilled |-> None, scan |-> "closed", submitting |-> FALSE, completed |-> FALSE]

-----------------------------------------------------------------------------
\* The form is there to be used.
Open == ~ui.completed /\ ui.scan = "closed"

Added(p, price, stock) ==
    IF p \notin DOMAIN ui.cart
    THEN [x \in DOMAIN ui.cart \cup {p} |->
             IF x = p THEN [price |-> price, stock |-> stock, cantidad |-> 1] ELSE ui.cart[x]]
    ELSE [ui.cart EXCEPT ![p].cantidad = IF @ < ui.cart[p].stock THEN @ + 1 ELSE @]

Without(cart, p) == [x \in DOMAIN cart \ {p} |-> cart[x]]

\* Of a product that was sold out when it was scanned, and is no longer, one more is none.
Changed(p, cantidad) ==
    IF cantidad <= 0 THEN Without(ui.cart, p)
    ELSE [ui.cart EXCEPT ![p].cantidad = Min({cantidad, ui.cart[p].stock})]

Fill(form) == ui' = Rendered(form) /\ UNCHANGED << db, behind >>
Cart(cart) == Fill([ui EXCEPT !.cart = cart])

\* A card of the grid that is not sold out, nor in the cart as many times as there are.
HandleSelectSearchResult(p, price, stock) ==
    /\ Open /\ stock > 0
    /\ p \in DOMAIN ui.cart => ui.cart[p].cantidad < stock
    /\ Cart(Added(p, price, stock)) /\ UNCHANGED calls

\* The buttons of the cart, and those of the grid, which heard of a stock of their own.
ChangeQuantity(p, by, stock) ==
    /\ Open /\ p \in DOMAIN ui.cart
    /\ by = 1 => ui.cart[p].cantidad < stock
    /\ Cart(Changed(p, ui.cart[p].cantidad + by)) /\ UNCHANGED calls

RemoveFromCart(p) ==
    /\ Open /\ p \in DOMAIN ui.cart
    /\ Cart(Without(ui.cart, p)) /\ UNCHANGED calls

\* The discount and the payments are shown of a cart that is not empty.
Charging == Open /\ ui.cart # EmptyCart

SetDescuentoMonto(monto) ==
    /\ Charging
    /\ Fill([ui EXCEPT !.descuento = monto]) /\ UNCHANGED calls

UpdatePayment(k, monto) ==
    /\ Charging /\ k \in DOMAIN ui.payments
    /\ Fill([ui EXCEPT !.payments[k] =
                [monto |-> monto, typed |-> monto \notin {None, ui.autoFilled}]])
    /\ UNCHANGED calls

AddLine ==
    /\ Charging /\ Len(ui.payments) < MaxLines
    /\ Fill([ui EXCEPT !.payments = Append(@, newPaymentLine)]) /\ UNCHANGED calls

RemoveLine(k) ==
    /\ Charging /\ Len(ui.payments) > 1 /\ k \in DOMAIN ui.payments
    /\ Fill([ui EXCEPT !.payments = RemoveAt(@, k)]) /\ UNCHANGED calls

-----------------------------------------------------------------------------
OpenScan == Open /\ ui' = [ui EXCEPT !.scan = "idle"] /\ UNCHANGED << db, calls, behind >>

CloseScan ==
    /\ ui.scan # "closed" /\ ~ui.completed
    /\ ui' = [ui EXCEPT !.scan = "closed"] /\ UNCHANGED << db, calls, behind >>

HandleCapture ==
    /\ ui.scan \in {"idle", "error"} /\ ~ui.completed
    /\ Start(<< Call("scan", None, None) >>)
    /\ ui' = [ui EXCEPT !.scan = "scanning"] /\ UNCHANGED << db, behind >>

\* A match is added and the dialog closed, whether the dialog is open or was closed, and
\* whether the sale is still the one it was scanned for.
ScanMatched(i, p, price, stock) ==
    /\ i \in Doing("scan")
    /\ Fill([ui EXCEPT !.cart = Added(p, price, stock), !.scan = "closed"])
    /\ calls' = RemoveAt(calls, i)

\* Nothing was found, or the call threw.  old: its dialog gave way to a ticket.
ScanFailed(i) ==
    /\ i \in Doing("scan")
    /\ ui' = [ui EXCEPT !.scan = IF @ = "closed" \/ calls[i].old THEN @ ELSE "error"]
    /\ calls' = RemoveAt(calls, i) /\ UNCHANGED << db, behind >>

\* The bound on the calls does not keep the seller from charging.
HandleCheckout ==
    /\ Charging /\ ~ui.submitting
    /\ calls' = Append(calls, Call("sale", None, None))
    /\ ui' = [ui EXCEPT !.submitting = TRUE] /\ UNCHANGED << db, behind >>

\* The ticket takes the place of the form, and of the dialog until the next sale.
SaleEnded(i, sold) ==
    /\ i \in Doing("sale")
    /\ ui' = [ui EXCEPT !.submitting = FALSE, !.completed = sold,
                        !.scan = IF sold /\ @ # "closed" THEN "idle" ELSE @]
    /\ calls' = RemoveAt(IF sold THEN Outdated(calls, Doing("scan")) ELSE calls, i)
    /\ UNCHANGED << db, behind >>

\* What the effect filled in last is not forgotten.
ResetForNewSale ==
    /\ ui.completed
    /\ ui' = [ui EXCEPT !.cart = EmptyCart, !.descuento = None,
                        !.payments = << newPaymentLine >>, !.completed = FALSE]
    /\ UNCHANGED << db, calls, behind >>

Next ==
    \/ \E p \in Product, price \in Price, stock \in Stock :
         \/ HandleSelectSearchResult(p, price, stock)
         \/ \E i \in DOMAIN calls : ScanMatched(i, p, price, stock)
    \/ \E p \in Product :
         RemoveFromCart(p) \/ \E by \in {-1, 1}, stock \in Stock : ChangeQuantity(p, by, stock)
    \/ \E monto \in Amount \cup {None} :
         SetDescuentoMonto(monto) \/ \E k \in 1 .. MaxLines : UpdatePayment(k, monto)
    \/ AddLine \/ OpenScan \/ CloseScan \/ HandleCapture \/ HandleCheckout \/ ResetForNewSale
    \/ \E k \in 1 .. MaxLines : RemoveLine(k)
    \/ \E i \in DOMAIN calls : ScanFailed(i) \/ \E sold \in BOOLEAN : SaleEnded(i, sold)

\* The amount of the only payment, if nothing was typed over it, is the total, whatever
\* was added to the cart, removed from it or taken off the price since; but once the total
\* is 0 it is what was filled in last, for an earlier total.  "It keeps tracking the live
\* total" (SaleScreen.tsx:84-90) does not hold there: the effect returns at a total of 0,
\* and create_sale refuses payments that are not the total.
UntouchedPaysTotal ==
    Len(ui.payments) = 1 /\ ~ui.payments[1].typed =>
        IF total(ui) > 0 THEN ui.payments[1].monto = total(ui)
        ELSE ui.payments[1].monto \in {None, ui.autoFilled}

\* The inductive invariant: an amount that was not typed is empty or what was filled in
\* last, so that the effect goes on filling it in; and what is scanning has a scan of its
\* own, that no ticket has overtaken.
ScanOrSale ==
    [op : {"scan", "sale"}, arg : {None}, then : {None}, state : {"sent"}, data : {None}, old : BOOLEAN]

Montos(form) == {form.payments[k].monto : k \in DOMAIN form.payments}

PaymentsOK(form) ==
    /\ form.payments \in Seq([monto : Montos(form), typed : BOOLEAN])
    /\ Len(form.payments) \in 1 .. MaxLines
    /\ \A k \in DOMAIN form.payments :
         form.payments[k].typed \/ form.payments[k].monto \in {None, form.autoFilled}

IInv ==
    /\ TypeOK /\ UntouchedPaysTotal /\ PaymentsOK(ui)
    /\ DOMAIN ui = {"cart", "descuento", "payments", "autoFilled", "scan", "submitting", "completed"}
    /\ {ui.submitting, ui.completed} \subseteq BOOLEAN
    /\ calls \in Seq(ScanOrSale)
    /\ ui.scan = "scanning" => \E i \in Doing("scan") : ~calls[i].old
===============================================================================
