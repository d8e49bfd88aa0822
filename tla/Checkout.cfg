SPECIFICATION Spec
CONSTANTS
    Cart = {none, a, b}
    Empty = none
    MaxKey = 2
    MaxRequest = 5
    MaxCaja = 2
SYMMETRY CartSymmetry
INVARIANTS
    IInv
    ReceiptOfConfirmedCart
    RetryRecovers
    NoSaleForgotten
\* The seller may stop anywhere, and stops at the bounds.
CHECK_DEADLOCK FALSE
