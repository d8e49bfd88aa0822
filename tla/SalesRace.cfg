SPECIFICATION Spec
CONSTANTS
    A = A
    B = B
    Product = {A, B}
    Orders <- MixedOrders
    Request = {r1, r2, r3}
    Key = {k1}
    Admin = {}
    StockEntered <- Zero
    InitialStock <- TwoOfEach
    Serie = Serie
    None = None
    NoKey = NoKey
CHECK_DEADLOCK FALSE
INVARIANTS
    TypeOK
    StockNeverNegative
    IInv
    CorrelativosConsecutive
    OneSalePerKey
    AnswersAreTrue
    LedgerIsOfSales
PROPERTIES
    ImplementsAtomicSales
SYMMETRY RequestSymmetry
