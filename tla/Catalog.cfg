SPECIFICATION PagesSpec
CONSTANTS
    Product = {p, q}
    Photo = {f, g, h}
    Barcode = {b}
    NoBarcode = noBarcode
    Request = {r1, r2, r3}
    MaxImages = 2
    NoRow = noRow
    Admin = {ana, luis}
    None = none
SYMMETRY PagesSymmetry
INVARIANTS
    PagesIInv
    PhotoFilesExist
    PhotosInStep
    LonePageShowsStored
PROPERTIES
    ImplementsBarcodeCatalog
\* Administrators may stop anywhere, and stop when the requests are used up.
CHECK_DEADLOCK FALSE
