-------------------------------- MODULE Screens --------------------------------
(***************************************************************************)
(* The screens whose handlers are callbacks of calls that nothing orders:  *)
(* App.tsx mounts the page of the address, and a page that is left takes   *)
(* its state and its calls with it.  So each is checked from every state   *)
(* it may find the server in, and none depends on what another had.        *)
(***************************************************************************)
EXTENDS Page, FiniteSets

CONSTANTS
    Product, Stock, LowStock,
    Month, Today, LastSale, PageSize,
    User, Me,
    Name, LastKey, Listener,
    LastProduct, Limit, Category, Price, LastPhoto,
    KnownStock, Amount, MaxLines,
    Term

ASSUME ScreensAssumption ==
    /\ {MaxCalls, LowStock, LastSale, LastProduct, Limit, LastPhoto} \cup KnownStock \cup Price \subseteq Nat
    /\ {PageSize, LastKey, MaxLines} \subseteq Nat \ {0}
    /\ Today \subseteq Month /\ Month \subseteq 1 .. LastSale
    /\ Me \in User /\ None \notin Product \cup User \cup Category \cup (1 .. LastKey)
    /\ IsFiniteSet(Listener) /\ Listener \cap {"page", "logo", "name"} = {}

VARIABLE page

Dashboard == INSTANCE AdminDashboardPage
SalesDashboard == INSTANCE AdminSalesDashboardPage
Users == INSTANCE AdminUsersPage
Reset == INSTANCE ResetPasswordModal
Settings == INSTANCE AdminSettingsPage
Catalog == INSTANCE PublicCatalogPage
Search == INSTANCE ProductSearch
Form == INSTANCE SaleForm WITH Stock <- KnownStock

ASSUME AnswersAssumption == LastSale > 0 /\ None \notin SalesDashboard!Answer

vars == << ui, db, calls, behind, page >>

Init ==
    \/ page = "dashboard" /\ Dashboard!Init
    \/ page = "ventas" /\ SalesDashboard!Init
    \/ page = "usuarios" /\ Users!Init
    \/ page = "clave" /\ Reset!Init
    \/ page = "configuracion" /\ Settings!Init
    \/ page = "catalogo" /\ Catalog!Init
    \/ page = "busqueda" /\ Search!Init
    \/ page = "venta" /\ Form!Init

Next ==
    /\ \/ page = "dashboard" /\ Dashboard!Next
       \/ page = "ventas" /\ SalesDashboard!Next
       \/ page = "usuarios" /\ Users!Next
       \/ page = "clave" /\ Reset!Next
       \/ page = "configuracion" /\ Settings!Next
       \/ page = "catalogo" /\ Catalog!Next
       \/ page = "busqueda" /\ Search!Next
       \/ page = "venta" /\ Form!Next
    /\ UNCHANGED page

Spec == Init /\ [][Next]_vars

-----------------------------------------------------------------------------
\* Each page keeps to its types, and is loading only while a load is under way.
TypeOK ==
    /\ page = "dashboard" => Dashboard!TypeOK
    /\ page = "ventas" => SalesDashboard!TypeOK
    /\ page = "usuarios" => Users!TypeOK
    /\ page = "clave" => Reset!TypeOK
    /\ page = "configuracion" => Settings!TypeOK
    /\ page = "catalogo" => Catalog!TypeOK
    /\ page = "busqueda" => Search!TypeOK
    /\ page = "venta" => Form!TypeOK

\* When the calls of a page have ended, it shows what the server has stored, and what it
\* counts is what its lists have, unless the rows were changed where it could not hear of
\* it, an answer came after a newer one, or a search failed (which shows that nothing was
\* found): after deleting, restoring, voiding, demoting, saving or searching, in whatever
\* order the answers came.
ListsShowStored ==
    /\ page = "dashboard" => Dashboard!ShowsStored
    /\ page = "ventas" => SalesDashboard!ShowsStored
    /\ page = "usuarios" => Users!ShowsStored
    /\ page = "configuracion" => Settings!ShowsStored
    /\ page = "busqueda" => Search!ShowsStored

\* What the catalog shows of its products is what its circles say: as many of a category as
\* it counts, in whatever order, and with the one that is featured.
GridsAreOfCircles == page = "catalogo" => Catalog!GridIsOfCircle

\* What a dialog says is of the row, or of the photo, that it was opened for, and a
\* password that it says is changed is changed, unless it says the late answer to a dialog
\* that was closed before it.
DialogsNameTheirRow ==
    /\ page \in {"dashboard", "ventas", "clave"} => NoticeIsOfTarget
    /\ page = "clave" => Reset!DoneIsDone
    /\ page = "catalogo" => Catalog!ScanIsOfPhoto

\* Demoting and deactivating users never leaves the shop without an administrator, but for
\* updates that overlap.
SomeAdminLeft == page = "usuarios" => Users!SomeAdminLeft

\* The object of the logo that is stored exists, whatever two administrators do to it and
\* wherever their requests fail.
LogoFileExists == page = "configuracion" => Settings!LogoFileExists

\* What each page keeps to, step by step: the inductive invariant.
IInv ==
    /\ page \in {"dashboard", "ventas", "usuarios", "clave", "configuracion", "catalogo", "busqueda", "venta"}
    /\ page = "dashboard" => Dashboard!IInv
    /\ page = "ventas" => SalesDashboard!DialogOK
    /\ page = "usuarios" => Users!IInv
    /\ page = "clave" => Reset!IInv
    /\ page = "configuracion" => Settings!IInv
    /\ page = "catalogo" => Catalog!IInv
    /\ page = "busqueda" => Search!IInv
    /\ page = "venta" => Form!IInv

\* What their lists keep to, step by step, until the calls have ended: the inductive invariant
\* of ListsShowStored and GridsAreOfCircles.
ListsIInv ==
    /\ page = "dashboard" => Dashboard!ListIInv
    /\ page = "ventas" => SalesDashboard!ListIInv
    /\ page = "usuarios" => Users!ListIInv
    /\ page = "configuracion" => Settings!ListIInv
    /\ page = "catalogo" => Catalog!ListIInv
    /\ page = "busqueda" => Search!ListIInv

\* The only payment of a sale, if nothing was typed over it, is the total, or what the total
\* last was while it is 0.
UntouchedPaysTotal == page = "venta" => Form!UntouchedPaysTotal
===============================================================================
