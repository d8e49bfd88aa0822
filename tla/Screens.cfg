SPECIFICATION Spec
CONSTANTS
    None = none
    MaxCalls = 2
    Product = {p, q}
    Stock = {0, 1, 2}
    LowStock = 1
    Month = {2, 3}
    Today = {3}
    LastSale = 3
    PageSize = 1
    User = {ana, luis}
    Me = ana
    Name = {bazar}
    LastKey = 3
    Listener = {header}
    LastProduct = 2
    Limit = 2
    Category = {velas}
    Price = {1, 2}
    LastPhoto = 3
    KnownStock = {0, 2}
    Amount = {1}
    MaxLines = 2
    Term = {vela}
INVARIANTS
    TypeOK
    IInv
    ListsIInv
    ListsShowStored
    GridsAreOfCircles
    DialogsNameTheirRow
    SomeAdminLeft
    LogoFileExists
    UntouchedPaysTotal
CHECK_DEADLOCK FALSE
