------------------------------ MODULE SaleData ------------------------------
(***************************************************************************)
(* What a sale is made of: products, the items of an order, the stored     *)
(* sale and the motives of a stock movement (schemas/sale.py,              *)
(* models/sale.py, models/inventory_movement.py).                          *)
(***************************************************************************)
EXTENDS Integers, Sequences, FiniteSets, Functions

CONSTANTS
    Product,        \* rows of products
    Request,        \* HTTP requests; a sale is named after the request that created it
    Key,            \* idempotency keys the clients use
    Orders,         \* the item lists a sale may carry
    InitialStock,   \* stock of each product at the start
    NoKey           \* a request without idempotency key

\* An item of a sale.  Two items of one product act on its row as one item of the
\* summed quantity does, so an order names each product once.
OrderLine == [product : Product, cantidad : Nat \ {0}]

IsOrder(l) ==
    /\ l \in Seq(OrderLine)
    /\ l # << >>
    /\ \A i, j \in DOMAIN l : l[i].product = l[j].product => i = j

ASSUME OrdersAssumption == \A o \in Orders : IsOrder(o)
ASSUME StockAssumption == InitialStock \in [Product -> Nat]
ASSUME KeyAssumption == NoKey \notin Key

\* The items of a stored sale come back ordered by their random primary key.
Reorderings(l) == {[i \in DOMAIN l |-> l[f[i]]] : f \in Bijection(DOMAIN l, DOMAIN l)}

\* How many units of p a list of items holds.
CantidadOf(l, p) ==
    IF \E j \in DOMAIN l : l[j].product = p
    THEN l[CHOOSE j \in DOMAIN l : l[j].product = p].cantidad
    ELSE 0

NoSale == [estado |-> "inexistente", correlativo |-> 0, key |-> NoKey, lines |-> << >>]

NewSale(n, k, l) == [estado |-> "completada", correlativo |-> n, key |-> k, lines |-> l]

SaleRow == [estado : {"completada", "anulada"}, correlativo : Nat \ {0},
            key : Key \cup {NoKey}, lines : {l \in Seq(OrderLine) : IsOrder(l)}]

Motivo == {"venta", "anulacion"}
=============================================================================
