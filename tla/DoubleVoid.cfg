SPECIFICATION Spec
CONSTANTS
    A = A
    B = B
    Product = {A}
    Orders <- OneProductOrders
    Request = {r1, r2, r3}
    Key = {}
    Admin = {}
    StockEntered <- Zero
    InitialStock <- TwoOfEach
    Serie = Serie
    None = None
    NoKey = NoKey
CHECK_DEADLOCK FALSE
INVARIANTS
    VoidRestoresOnce
