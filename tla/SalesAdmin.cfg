SPECIFICATION Spec
CONSTANTS
    A = A
    B = B
    Product = {A, B}
    Orders <- CrossedOrders
    Request = {r1, r2}
    Key = {}
    Admin = {a1}
    StockEntered <- Zero
    InitialStock <- OneOfEach
    Serie = Serie
    None = None
    NoKey = NoKey
CHECK_DEADLOCK FALSE
INVARIANTS
    UncommittedUnderLock
    LedgerIsOfSales
PROPERTIES
    EveryRequestEnds
    LedgerRecordsSales
    ImplementsAtomicSales
