------------------------ MODULE SaleTransactionsMC ------------------------
(* Small instances of SaleTransactions for TLC. *)
EXTENDS SaleTransactions, TLC

CONSTANTS A, B

L(p, n) == [product |-> p, cantidad |-> n]

\* One product: one or two units of it.
OneProductOrders == {<< L(A, 1) >>, << L(A, 2) >>}

\* Two products, in both orders: two sales can wait for each other.
CrossedOrders == {<< L(A, 1), L(B, 1) >>, << L(B, 1), L(A, 1) >>}

\* One product each: two sales meet at the series row alone.  A sale of both can
\* still wait for the void of another, which takes them in any order.
MixedOrders == {<< L(A, 1), L(B, 1) >>, << L(A, 1) >>, << L(B, 1) >>}

TwoOfEach == [p \in Product |-> 2]
OneOfEach == [p \in Product |-> 1]

\* An administrator may type 0 in the stock field, or leave it as it was.
Zero == {0}

\* Requests are interchangeable in safety runs.
RequestSymmetry == Permutations(Request)
===========================================================================
