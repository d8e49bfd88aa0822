SPECIFICATION Spec
CONSTANTS
    User = {ana, admin}
    Admins = {admin}
    Caja = {s1, s2}
    Cierre = {c1, c2}
    Venta = {v1, v2}
    Anulacion = {n1}
    None = None
SYMMETRY RequestSymmetry
CHECK_DEADLOCK FALSE
INVARIANTS
    OneOpenCaja
    IInv
    CountedCashWasTaken
PROPERTIES
    ClosedCajaTakesNoNewSale
