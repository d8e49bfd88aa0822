--------------------------- MODULE CashSessionsMC ---------------------------
(* Small instances of CashSessions for TLC. *)
EXTENDS CashSessions, TLC

\* Requests of one kind are interchangeable.
RequestSymmetry == Permutations(Caja) \cup Permutations(Cierre) \cup Permutations(Venta)
=============================================================================
