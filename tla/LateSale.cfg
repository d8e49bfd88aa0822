SPECIFICATION Spec
CONSTANTS
    User = {ana, admin}
    Admins = {admin}
    Caja = {s1, s2}
    Cierre = {c1, c2}
    Venta = {v1, v2}
    Anulacion = {}
    None = None
CHECK_DEADLOCK FALSE
INVARIANTS
    DiferenciaCountsEverySale
