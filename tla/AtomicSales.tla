----------------------------- MODULE AtomicSales -----------------------------
(***************************************************************************)
(* What the sale engine promises to the rest of the system: every sale,    *)
(* every void and every stock edit is one indivisible step on the          *)
(* database.  A sale takes its stock, its correlativo and its key, and     *)
(* writes its movements, all at once or not at all, and is charged only    *)
(* against products that are active and in stock at that very moment.      *)
(*                                                                         *)
(* That a sale is voided only once is not promised here: see               *)
(* VoidRestoresOnce in SaleTransactions.  Nor is that an edit knows what   *)
(* was sold since its form was opened: it writes the stock of the form.    *)
(***************************************************************************)
EXTENDS SaleData

CONSTANTS Admin, StockEntered

VARIABLES
    stock, active, ultimo_correlativo, sale, movements,
    form    \* per administrator, the product that is edited and the stock in its field

database == << stock, active, ultimo_correlativo, sale, movements >>

Init ==
    /\ stock = InitialStock
    /\ active = [p \in Product |-> TRUE]
    /\ ultimo_correlativo = 0
    /\ sale = [r \in Request |-> NoSale]
    /\ movements = [m \in Motivo |-> [p \in Product |-> 0]]
    /\ form = [a \in Admin |-> {}]

Record(motivo, sign, l) ==
    /\ stock' = [p \in Product |-> stock[p] + sign * CantidadOf(l, p)]
    /\ movements' = [movements EXCEPT ![motivo] =
                       [p \in Product |-> @[p] + sign * CantidadOf(l, p)]]

Sell(r, o, k) ==
    /\ sale[r] = NoSale
    /\ k # NoKey => \A q \in Request : sale[q].key # k
    /\ \A i \in DOMAIN o : active[o[i].product] /\ stock[o[i].product] >= o[i].cantidad
    /\ Record("venta", -1, o)
    /\ ultimo_correlativo' = ultimo_correlativo + 1
    /\ \E l \in Reorderings(o) : sale' = [sale EXCEPT ![r] = NewSale(ultimo_correlativo + 1, k, l)]
    /\ UNCHANGED << active, form >>

Void(q) ==
    /\ sale[q] # NoSale
    /\ Record("anulacion", 1, sale[q].lines)
    /\ sale' = [sale EXCEPT ![q].estado = "anulada"]
    /\ UNCHANGED << active, ultimo_correlativo, form >>

OpenForm(a, p) ==
    /\ form[a] = {}
    /\ form' = [form EXCEPT ![a] = {[product |-> p, value |-> stock[p]]}]
    /\ UNCHANGED database

TypeStock(a) ==
    /\ \E f \in form[a], v \in StockEntered : form' = [form EXCEPT ![a] = {[f EXCEPT !.value = v]}]
    /\ UNCHANGED database

\* Nothing is written: the stock is the one it had, or the server stops.
CloseForms(A) ==
    /\ form' = [a \in Admin |-> IF a \in A THEN {} ELSE form[a]]
    /\ UNCHANGED database

AdjustStock(a) ==
    /\ \E f \in form[a] : stock' = [stock EXCEPT ![f.product] = f.value]
    /\ form' = [form EXCEPT ![a] = {}]
    /\ UNCHANGED << active, ultimo_correlativo, sale, movements >>

SetActive(p) ==
    /\ active' = [active EXCEPT ![p] = ~@]
    /\ UNCHANGED << stock, ultimo_correlativo, sale, movements, form >>

Next ==
    \/ \E r \in Request, o \in Orders, k \in Key \cup {NoKey} : Sell(r, o, k)
    \/ \E q \in Request : Void(q)
    \/ \E a \in Admin : TypeStock(a) \/ AdjustStock(a) \/ \E p \in Product : OpenForm(a, p)
    \/ \E A \in SUBSET Admin : CloseForms(A)
    \/ \E p \in Product : SetActive(p)

vars == << database, form >>

Spec == Init /\ [][Next]_vars
==============================================================================
