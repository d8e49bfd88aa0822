--------------------------- MODULE BarcodeCatalog ---------------------------
(***************************************************************************)
(* What the product administration promises about barcodes: products are   *)
(* created, renumbered, withdrawn and restored in single steps, and none   *)
(* of these steps puts two active products under one barcode.              *)
(***************************************************************************)
CONSTANTS Product, Barcode, NoBarcode

VARIABLES
    created,    \* products that exist; none ever ceases to
    active,     \* those on sale
    barcode     \* barcode[p], or NoBarcode

catalog == << created, active, barcode >>

Free(c, p) == c = NoBarcode \/ \A q \in active \ {p} : barcode[q] # c

Init ==
    /\ created \in SUBSET Product /\ active \in SUBSET created
    /\ barcode \in [Product -> Barcode \cup {NoBarcode}]
    /\ \A p \in active : Free(barcode[p], p)

Create(p, c) ==
    /\ p \notin created /\ Free(c, p)
    /\ created' = created \cup {p} /\ active' = active \cup {p}
    /\ barcode' = [barcode EXCEPT ![p] = c]

\* Products that are withdrawn may share a barcode.
Renumber(p, c) ==
    /\ p \in created /\ (p \in active => Free(c, p))
    /\ barcode' = [barcode EXCEPT ![p] = c]
    /\ UNCHANGED << created, active >>

Withdraw(p) == active' = active \ {p} /\ UNCHANGED << created, barcode >>

Restore(p) ==
    /\ p \in created /\ Free(barcode[p], p)
    /\ active' = active \cup {p}
    /\ UNCHANGED << created, barcode >>

Next ==
    \E p \in Product :
        \/ \E c \in Barcode \cup {NoBarcode} : Create(p, c) \/ Renumber(p, c)
        \/ Withdraw(p) \/ Restore(p)

Spec == Init /\ [][Next]_catalog

\* The promise in one line, for whoever relies on it: a scanned barcode names at
\* most one product on sale.
OneActivePerBarcode ==
    \A p, q \in active : barcode[p] = barcode[q] /\ barcode[p] # NoBarcode => p = q
=============================================================================
