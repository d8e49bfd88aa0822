SPECIFICATION Spec
CONSTANTS
    A = A
    B = B
    Product = {A}
    Orders <- OneProductOrders
    Request = {r1, r2}
    Key = {k1}
    Admin = {}
    StockEntered <- Zero
    InitialStock <- TwoOfEach
    Serie = Serie
    None = None
    NoKey = NoKey
CHECK_DEADLOCK FALSE
INVARIANTS
    DuplicateGetsTheSale
