# Inventario Paradise in TLA+

TLA+ models of the shop system in `src/`: a FastAPI backend on PostgreSQL and
object storage (`src/backend`), and a React client (`src/frontend`). The models
say what the system promises when requests overlap, fail half way, are retried,
or are lost; TLC checks them on small instances, and TLAPS proves the results
marked below for instances of any size.

## 1. The system

| Component | State | Operations | Interacts with |
|---|---|---|---|
| Sale engine (`services/sales.py`) | `sales`, `sale_items`, `sale_payments`, `document_series`, `inventory_movements`, `products.stock` | create a sale, void a sale, read one | open register, products, checkout screen |
| Cash registers (`services/cash_sessions.py`) | `cash_sessions` | open, close, current | sales stored in them |
| Product administration (`routers/products_admin.py`) | `products` | create, update, delete (soft), restore | stock of sales, barcode index |
| Product photos (`products_admin.py`, `services/storage.py`) | `product_images`, the cover copied into `products`, objects in MinIO | add, delete, set primary | catalog, recognition |
| Recognition (`routers/recognition.py`, `services/similarity_search.py`) | none | scan a photo: barcode, then nearest embeddings | photos, checkout screen |
| Authentication (`routers/auth.py`, `security/`) | users; tokens held by clients | login, refresh, logout | every request |
| Rate limiter (`security/rate_limit.py`) | counters in memory | count a request | login, refresh, recognition |
| User administration (`routers/users_admin.py`) | `users` | create, update, reset a password | tokens, registers |
| Settings (`routers/settings_admin.py`) | the `app_settings` row, the logo object | update, upload and delete the logo | storage |
| Summary (`services/sales_summary.py`) | none | totals by day and seller, pages of sales | sales, sales screen |
| Checkout screen (`components/sale/`) | cart, payments, idempotency key, answer | edit, confirm, new sale, close the register | sale engine, registers |
| API client (`api/client.ts`, `AuthContext.tsx`) | access token, session status | fetch, refresh and retry, restore, logout | authentication |
| Other screens | lists, dialogs | load, submit | the routers |

Every request runs in one database transaction (`get_db`), in PostgreSQL's READ
COMMITTED: a statement sees what is committed when it starts, and waits for row
locks. Requests run concurrently. The behaviours that are hard to test are
therefore what other requests do between two statements of a handler, what is
undone when one fails, and what a client does when its answer is lost.
`PROJECT.json` lists them ("hazards"), each at its line.

What makes each component correct:

- **Sale engine**: nothing is oversold; receipts are numbered without gap or
  duplicate; one idempotency key is charged once; an error leaves nothing behind;
  the ledger tells what was sold and given back; a void gives back what its sale
  took, once; every request ends.
- **Registers**: one open register per user; the expected cash of a closed one is
  the cash of its own sales; closing is final; nothing is sold on a closed one but by
  sales that had found it open.
- **Catalog**: one active product per barcode; a product can be deleted, sold out
  and restored in any order.
- **Photos**: a product always has a photo, one of them primary, and the cover is
  the primary one (unless requests on its photos overlap); no photo row names a deleted
  object, and no cover does (with the same exception).
- **Users**: there is always an active administrator (unless updates overlap).
- **Checkout screen**: what the seller charged is what the receipt says, whatever
  answers are lost.
- **Client session**: requests are made as the user the screens show, until a session is
  started or ended across a refresh or in another tab; only a logout, a refused refresh or a
  restore that a login overtook ends a session, and the restore ends.
- **Settings**: the object of the stored logo exists; whoever shows the logo follows it.
- **Summary**: the sales it counts are those the pages list.
- **Lists and dialogs**: when its calls have ended a page shows what is stored, the grid of the
  catalog has what its circles count, and a dialog
  speaks of the row it was opened for.

## 2. Plan

Order of work, most important first.

| | Module | Status | Content |
|---|---|---|---|
| 1 | `SaleData` | done | orders, sales, movements: the data both levels share |
| 2 | `SaleTransactions` | done | the sale engine with transactions, locks, restarts |
| 3 | `AtomicSales` | done | what the engine promises; `SaleTransactions` implements it |
| 4 | `SaleTransactionsProofs` | done | safety and refinement for all constants |
| 5 | `CashSessions`, `CashSessionsProofs` | done | registers against sales, voids and closes |
| 6 | `CheckoutClient` | done | cart, key, lost answers, retries, over an engine that keeps the promises of `AtomicSales` |
| 7 | `ProductCatalog`, `BarcodeCatalog` | done | barcodes, delete and restore; photos, cover, object storage; what is promised of barcodes, which the first implements |
| 8 | `ProductPages` | done | the form and the photo manager over `ProductCatalog` |
| 9 | `Page` and eight pages, composed by `Screens` | done | lists, dialogs and listeners whose calls answer in any order; the guard of the last administrator; the logo |
| 10 | `Session` | done | token, refresh, retry, restore on load, login, logout, other tabs |
| 11 | `ProductCatalogProofs`, `ProductPagesProofs` | done | photos, cover, files and barcodes; what a lone page shows |
| 12 | `SessionProofs`, `CheckoutProofs` | done | who requests are made as, why a session ends; the safety of the seller's screen |
| 13 | `ScreensProofs` | done | dialogs, the last administrator, the logo, the payment that is filled in |
| 14 | `ScreensListsProofs` | done | lists that show what is stored, page by page; the grid of the catalog; the types of every page |

Abstract specifications: `AtomicSales` for the sale engine and `BarcodeCatalog` for
the product administration. A specification of a checkout in which the seller sees the
receipt of exactly the cart confirmed would be refuted (`EditedRetry`), so the screen has
properties of its own instead.

## 3. What is modelled

### `SaleData`, `SaleTransactions`

The handlers of `POST /sales`, `POST /sales/{id}/void` and the administrator's
stock edit, delete and restore, one action per database statement.

| Code | Model |
|---|---|
| committed rows of `products`, `document_series`, `sales`, `inventory_movements` | `stock`, `active`, `ultimo_correlativo`, `sale`, `movements` |
| row versions not committed yet, row locks | `pendingStock`, `lock` |
| local variables of a handler | `pc`, `lines`, `key`, `target`, `idx`, `correlativo`, `answer` |
| an administrator's product form and its PUT | `edit` |
| lookup of the key, checks, resolving the lines | `PostSale`, `PostRepeatedSale`, `GetOpenSession`, `ResolveProduct`, `AcceptTotals` and their rejections |
| `UPDATE products ... WHERE stock >= cantidad` | `DecrementStock`, `InsufficientStock` |
| `SELECT ... FOR UPDATE` on the series | `TakeCorrelativo` |
| `flush`, its unique index, `commit` | `FlushSale`, `DuplicateKey`, `CommitSale` |
| `void_sale` | `PostVoid`, `RejectVoid`, `RestoreStock`, `CommitVoid` |
| rollback, deadlock detection, a restart of the server | `Rollback`, `DeadlockVictim`, `Restart` |
| `ProductForm`, `update_product`, `delete_product`, `restore_product` | `OpenProductForm`, `SubmitProductForm`, `SaveStock`, `SaveNothing`, `SetActive` |

Abstractions, and why they are sound for the properties checked:

- A sale is named after the request that created it: a request creates at most one.
- `inventory_movements` is kept as the sum of `delta` by motive and product.
  Rows are only ever added, and the properties compare sums.
- An order names each product once. Two lines of one product update one row, one
  after the other, in the transaction that holds it: the same as one line of the sum.
- Whether a register is open and the amounts are in order does not depend on the
  state of this module: both outcomes are always possible. Registers are in
  `CashSessions`; the arithmetic is not modelled (section 6).
- The handler of `IntegrityError` around the commit of a sale
  (`services/sales.py:209-215`) is not modelled: every constraint is immediate, so
  it is raised by the flush before it, which is what `DuplicateKey` does.
- The series row exists (migration `0004` inserts it and nothing deletes it).
- An UPDATE whose WHERE clause the committed row fails matches nothing at once;
  otherwise it waits for the row lock and looks again at the newest version. The
  stored stock and the newest one differ only while the row is locked.
- The SELECT and the UPDATE of delete and restore are one action: they write the
  same value whatever they read. An administrator's PUT keeps its two steps, since
  the ORM writes the stock only if it differs from the one it loaded.
- A handler that has committed reads the sale again for its answer. That reading may fail:
  the answer is then an error though the sale, or the void, is stored (`"reread_failed"` in
  `Reply`). `AnswersAreTrue` says which errors leave nothing stored.
- Not modelled: the other fields of a product, an empty idempotency key, the limit
  of the connection pool, and statement timeouts (the code sets none).

### `AtomicSales`

The abstract specification: `Sell`, `Void`, `AdjustStock` and `SetActive` in one
step each, over the five committed variables, which are those of
`SaleTransactions` under their own names. `Sell` requires each product to be
active and in stock in the state it commits in, a fresh key, and takes the next
correlativo. `form` is what the product form of an administrator has in its stock field:
what the product had when it was opened (`OpenForm`) or what was typed (`TypeStock`).
`AdjustStock` writes exactly that, to that product, once. It does not promise that the form
knows what was sold since it was opened, or that a sale is voided once: the code does not.

The ledger is stated for sales and voids (`LedgerIsOfSales`, `LedgerRecordsSales`), with an
administrator at work. That `inventory_movements` explains the stock is not stated, because it
does not: `update_product` and `create_product` write no movement.

### `CashSessions`

Opening, closing, selling and voiding as each reads first and writes later, with
the partial unique index of open registers. Amounts are replaced by the set of
sales that a close counted (`contadas`) and the close whose count is stored
(`cierre`): `diferencia` is a function of the two. Each `Venta` has one payment in
efectivo; sales paid otherwise do not concern the registers. What happens inside a
sale is one action that ends in `CommitSale` or `RollbackSale`; `SaleTransactions`
has its detail.

A sale is missing from the count of its register when it commits after the SUM of the close: it
may have been under way, or may even be posted and stored between the SUM and the write of the
close, which finds the register still open. What is counted and later voided stays counted.
`DiferenciaCountsEverySale` is refuted for the first. `ClosedCajaTakesNoNewSale` is
about what comes after the write: a sale that had not found the register open by then never
starts on it and is never stored in it.

### `CheckoutClient`

One seller's screen and the requests it sends. `status` and `session` are those of
`VenderPage`; `cart`, `key` and `completedSale` those of `SaleScreen`; `modal` is
`CloseRegisterModal`, hidden, asking or showing its result. `call` says which request
each of the four calls awaits, so `call["sale"] # 0` is `submitting`. `request` is
what was sent, and lives on when the screen no longer awaits it.

| Code | Model |
|---|---|
| `loadCurrentSession`, `onOpen` | `LoadAnswered`, `LoadFailed`, `OpenRegister`, `OpenAnswered`, `OpenFailed` |
| mounting and unmounting `SaleScreen`, by any way | `EnterSaleScreen`, `LeaveSaleScreen` in `Reload` and `Entendido` |
| `addToCart`, `changeQuantity`, `removeFromCart`, the discount, customer and payment fields | `EditCart` |
| `handleCheckout`: sending, answer, `catch` and `finally` | `Checkout`, `SaleAnswered`, `SaleFailed` |
| `resetForNewSale` | `NewSale` |
| `CloseRegisterModal` | `OpenModal`, `CloseModal`, `SubmitClose`, `CloseAnswered`, `CloseFailed` |
| the handlers of the four requests | `ServeCurrent`, `ServeOpen`, `LookUpSale`, `CommitSale`, `RejectSale`, `ServeClose` |
| a dropped connection, a restart | `Lose` |
| another user with the right to close | `CloseByAdmin` |

A call can throw at any time, whatever the server does with its request: the
server may have stored the sale, or may store it later. A cart stands for all the
checkout sends besides the key. The server keeps the promises proved of
`AtomicSales` (one sale per key) and `CashSessions` (one open register per user); a
sale that is looked up and not found is rejected or stored in a later step. Two
screens of one seller, and the refresh of a token within a call, are not modelled.
When the receipt replaces the screen the dialog is unmounted and comes back empty.

### `ProductCatalog`, `BarcodeCatalog`

`routers/products_admin.py` with what it does to the database and to MinIO. `product`
and `image` are the committed rows, `objects` the stored files, `drawn` every photo id ever
drawn. A handler runs in two steps: it loads its rows into its ORM session (`loaded`,
`mine`), and it commits the columns in which its session differs from what it loaded.
Flush and commit are one step: whoever writes the same row or index entry waits for the
commit. Between the two steps others commit what they like, and each step may fail.

| Code | Model |
|---|---|
| `_assert_barcode_available` | `Taken`, when a barcode is looked up |
| `ux_products_barcode_active`, `ux_product_images_primary` | `BarcodeIndex`, `PrimaryIndex` in `Commit` |
| `create_product` | `PostCreate`, `LookUpBarcode`, `CreateProduct` |
| `update_product` | `PutProduct`, `LoadForUpdate`, `UpdateProduct` |
| `delete_product`, `restore_product` | `PostActive`, `LoadForActive`, `DeleteProduct`, `RestoreProduct` |
| `add_product_images` | `PostImages`, `LoadForImages`, `AddImages` |
| `delete_product_image` | `PostPhoto`, `LoadForPhoto`, `RemoveImage`, `DeleteObject` |
| `set_primary_product_image` | `PostPhoto`, `LoadForPhoto`, `SetPrimaryImage` |
| `_store_image`, `_sync_cover` | `NewRows` and `StoreObjects`, `SyncCover` |
| an unreadable image, a deadlock, a restart, a failing delete of a file | `Fail` |

`expire_on_commit=False` (`database.py`) makes the answer to a photo request the
session's own view, which is why `mine` outlives the handler until the page has it.
A barcode read from a photo at creation is a nondeterministic `detected`.
`restore_product` catches no `IntegrityError`: the index answers for it, with a 500.

The comment of `models/product.py` that the cover is the primary photo, and the check
that a product keeps a photo, hold request by request. Two requests on the photos of one
product can break both: each checks and copies what it loaded. `raced` sets these products
apart, so that `PhotosInStep` says exactly what the code keeps: whatever else happens,
a product whose photo requests did not overlap has at least one photo, at most
`MaxImages`, one of them primary, and that one as its cover. The same products are set
apart in the half of `PhotoFilesExist` that is about covers: of two removals, one may promote a
photo and make it the cover that the other, which loaded it before, takes for an ordinary one; it
deletes the row and the file and leaves the cover. Photo rows always have their file.

`BarcodeCatalog` is the promise: products are created, renumbered, withdrawn and
restored in single steps, none of which gives two active products one barcode.
`ImplementsBarcodeCatalog` maps the committed rows to it.

### `ProductPages`

`AdminProductFormPage`, `ProductForm` and `ProductImageManager` of two administrators over
`ProductCatalog`. `page` is the route, `view` the photos shown, `call` the requests that
the form and the manager await: `call[a].photos # None` is `busy`. A page that is left
forgets its calls; the server goes on serving them. An emptied barcode is not sent
(`api/products.ts`), so it reads as one left alone. `editor` is a history variable for
`LonePageShowsStored`: the administrator who alone has changed photos and has heard of the end
of every change.

### `Page` and the pages of `Screens`

The other screens have one difficulty in common: a handler is the callback of a call,
calls are not cancelled, and no call waits for another. `Page` has what they share. `ui`
is the state of the component, `db` the rows of the server it is about, `calls` the calls
under way, oldest first. A call is served and then answers, or throws, in any order with
the others; a call that throws unserved is not served later. `behind` and `old` are history:
the rows were changed where the page could not hear of it, or an answer came after a
newer one. State that cannot be seen (the notice of a closed dialog, the result of a
closed scan) is dropped when it is hidden, since opening clears it.
`App.tsx` mounts one page at a time and a page takes its calls with it, so
`Screens` starts in any page, in any state of the rows, and stays there.

| Module | Code | State and what is particular |
|---|---|---|
| `AdminDashboardPage` | the page, `DeleteProductModal`, list, delete and restore of products | `includeInactive`, `target`, cards that count; a handler loads again with the `includeInactive` of its closure |
| `AdminSalesDashboardPage` | the page, `VoidSaleModal`, the ticket, summary and page of sales | a load is two requests served at different times; ranges, pages, an emptied date; the k-th sale of a list is the one that k - 1 are newer than |
| `AdminUsersPage` | the page, `list_users`, `update_user` | an update loads, counts the other administrators and commits in three steps |
| `ResetPasswordModal` | the dialog, `reset_password` | the Enter key submits without looking at `submitting` |
| `AdminSettingsPage` | the page, `BrandLogo`, `FaviconSync`, `routers/settings_admin.py` | the row, the objects, listeners that load when they are notified |
| `PublicCatalogPage` | the page, its sections, `PublicScanModal` | circles, featured product, and a grid in which each product has the place of as many as come before it, newest first among those of a price; one scan at a time unless the dialog is reopened |
| `ProductSearch` | the search of the sale screen | the debounce; whatever ends last is shown |
| `SaleForm` | `SaleScreen`, `PaymentsForm`, `ScanToCartModal` | cart, discount, the amount that an effect fills in |

Where the code differs from what its comments suggest, the model follows the code:
`update_user` never leaves the shop without an administrator only if updates do not overlap
(the docstring of its guard, `routers/users_admin.py:35`, promises it always), hence `raced` in
`SomeAdminLeft`; the subscribers of
the settings are those of one tab, though `FaviconSync` speaks of every open tab; a dialog
closed with its call under way puts its notice on the dialog opened next, hence `late`; a search
that fails shows that nothing was found, hence `behind` in `ProductSearch`. "It keeps tracking the live total"
(`SaleScreen.tsx:84-90`) is so while the total is above 0: at 0 the effect returns (`:97`), the
amount that it filled in last stays, and `create_sale` refuses the payment
(`services/sales.py:121`); `UntouchedPaysTotal` says both halves. Elsewhere, `models/inventory_movement.py` calls itself the
ledger of every stock change, with an 'ajuste' and an 'alta' that no handler writes: editing the
stock of a product, or creating it, records nothing (`AtomicSales`, above).

### `Session`

One tab: the access token in memory, the refresh cookie it shares with others, who the
screens say is in, and where the routes send it. `jobs` run at once: the restore of
`AuthContext`, a login, a logout, and the requests of pages. A job is one exchange after
another: `at` is what it asks, `cred` with whose credentials, `answer` what has come.

| Code | Model |
|---|---|
| `apiFetch`: 401, refresh, once more | `Fetch`, `Denied`, `Refreshed`, `RequestEnds` |
| `refreshAccessTokenInternal`: refused, or failed | `RefreshRefused` (`onUnauthorized`), `RefreshFailed` |
| the restore with its attempts and waits | `RestoreAnswered`, `TryLater`, `Awake`, `Restored` |
| `login`, `logout`, `handleSubmit` | `HandleSubmit`, `LoginAccepted`, `LoggedIn`, `LoginFailed`, `Logout`, `LogoutEnds` |
| `ProtectedRoute`, `AdminOnlyRoute`, the redirection of `LoginPage` | `Sent`, `Home`, `Navigate` |
| `get_current_user`, `refresh`, `login`, `logout` of the server | the actions of those names |
| another tab, an expired cookie, an administrator who deactivates the user | `OtherTab`, `Deactivate` |

Serving an exchange changes nothing on the server (tokens are signed, not stored), so a
lost answer is the same as no answer. A cookie is set when the answer arrives, as the
browser does. `crossed` is history: the session was started or ended, here or in another
tab, while a refresh or the restore was under way. Then the token can be that of another user
than the one shown, which `ActsAsShown` excepts and nothing in the code prevents.

`SessionEndsForAReason` names the reasons for which someone who is in is sent to the login. A
logout was answered. A refresh was refused, and either this session lost its cookie or its account
(`lapsed`), or exchanges have crossed and the refresh may be of a former session. Or the restore
is over and has found nobody: the login page does not wait for it, so someone may log in while it
runs, and when its last attempt fails it shows nobody all the same (`AuthContext.tsx:73-77`). That
is the one case in which calls that fail log out a session that is good.

## 4. Runs

| Run | Instance | Shows |
|---|---|---|
| `SalesRace` | 3 requests, 2 products with 2 units, one key, orders A,B; A; B | sales, voids, retries, deadlocks and restarts: the safety of the engine, and refinement of `AtomicSales` |
| `SalesAdmin` | 2 requests, 2 products with 1 unit, orders A,B; B,A, an administrator | the same against stock edits, deletes and restores: refinement, the ledger of sales and voids, what is left behind; every request ends |
| `DoubleVoid` | 3 requests, 1 product | violated: two voids both restore the stock |
| `DuplicateRequest` | 2 requests, one key | violated: a concurrent retry is answered with a 500 |
| `CashDay` | 2 users, 2 registers, 2 closes, 2 sales, 1 void | one open register per user, what a count is made of, and that a closed register takes no new sale |
| `LateSale` | as above without voids | violated: a sale misses the count of its register |
| `SecondClose` | as above without voids | violated: a close replaces an earlier one |
| `Checkout` | 2 carts, 2 keys, 5 requests, 2 registers | receipts, retries and keys of the seller's screen, and the invariant that proves them |
| `EditedRetry` | 2 carts, 1 key, 3 requests, 1 register | violated: an edited cart is answered with the sale of the earlier one |
| `Catalog` | 2 administrators, 2 products, 1 barcode, 3 photos, 2 photos per product, 3 requests | refinement of `BarcodeCatalog`; files, photos and cover; what a page shows; the invariant `PagesIInv` |
| `Screens` | each of the eight pages with 2 calls under way, 2 or 3 rows | lists, counts and dialogs; the circles and the grid of the catalog; the last administrator; the logo; the payment that is filled in; the two invariants of each page |
| `Session` | an administrator and a seller, 2 requests, 2 attempts to restore | who requests are made as; why a session ends; the restore ends; the invariant of the first two |

Bounds. Three requests are what a sale and two concurrent voids of it need, or
two sales that race for the units a third gives back. Two products locked in
both orders are what a deadlock needs: two sales do so in `SalesAdmin`, and a
sale and a void, whose items come in any order, in `SalesRace`; two sales of
different products meet only at the series row. With two units of each, three
sales exhaust the stock, and with one unit so do two. One key makes every pair of
keyed requests a retry. Requests, and the requests of one kind in `CashDay`, are
interchangeable, so the safety runs use symmetry; `SalesAdmin` checks liveness and
uses none. Five requests of the screen are a load, a checkout, its retry, and a
checkout of the next sale with its retry, or a load, an opening, a checkout, a close
and the load after it; two keys are a sale and the one that must not inherit its
receipt. Deadlock checking is off in all runs: requests are finitely many,
and once all have been answered nothing is left to do; users may stop at any time.

In `Catalog`, three requests are two that race for a barcode or for the photos of a product
and one that comes before, between or after them; two photos per product make every upload,
deletion and promotion meet a limit, and a third id lets a deleted photo be replaced. One
product exists at first, by its creation; no page is opened when no request is left.
Requests, photos, products and administrators are interchangeable (`PagesSymmetry`).
In `Screens`, two calls under way are an answer that overtakes another (`MaxCalls`; in the
settings a change adds the loads of its listeners, and a checkout of the sale form is not
held back); others change the rows once until the page has caught up, or have one request
under way. Products are listed from two, sales from three on pages of one, objects and
photos numbered up to three. In `Session`, one account is deactivated and one login is under
way at a time; once exchanges have crossed, those under way come to their end and nothing new
starts, since what follows is excepted by `crossed`.

Fairness. `Fairness` is weak fairness of `Serve(r)`, for each request: the server
goes on with a request it has accepted. That is what the event loop and the
database do; a waiting statement is granted its row, or is aborted as a deadlock
victim, when the condition for it holds for good. Nothing obliges a client to send
a request, an administrator to save, or the server to restart. `Session` has weak fairness of `Restoring`: a fetch of the restore is answered or
fails, its promise is settled and a timer goes off, which is what the browser does. Nothing
obliges anyone to log in, log out or navigate. The other modules state no liveness and no
fairness.

The five violated runs are disagreements between the code and its own comments
or tests; `PROJECT.json` ("findings") quotes both sides.

Each property of a passing run has a mutant: a definition written just before the
one it replaces, marked `Mutant:`, which changes the code's behaviour the way a
plausible bug would, and which TLC finds by that property.

## 5. Proofs

| Module | Theorem | For all constants |
|---|---|---|
| `SaleTransactionsProofs` | `Invariance`, `TypeCorrect` | the inductive invariant `IInv` and the types |
| | `NoOverselling` | `StockNeverNegative` |
| | `ReceiptNumbers` | `CorrelativosConsecutive` |
| | `ChargedOnce` | `OneSalePerKey` |
| | `TrueAnswers` | `AnswersAreTrue` |
| | `NoOrphanRows` | `UncommittedUnderLock` |
| | `SalesAreAtomic` | `SaleTransactions` implements `AtomicSales` |
| | `LedgerIsExact` | `LedgerRecordsSales` |
| `CashSessionsProofs` | `Invariance` | the inductive invariant `IInv` |
| | `NobodyHasTwoOpenCajas` | `OneOpenCaja` |
| | `NoCashCountedTwice` | `CountedCashWasTaken` |
| | `ClosedIsClosed` | `ClosedCajaTakesNoNewSale` |
| `CheckoutProofs` | `Invariance` | the inductive invariant `IInv`, which has the types |
| | `ReceiptsAreOfThisSale` | `ReceiptOfConfirmedCart` |
| | `RetriesFindTheirSale` | `RetryRecovers` |
| | `EverySaleIsAccountedFor` | `NoSaleForgotten` |
| `SessionProofs` | `Invariance` | the inductive invariant `IInv`, which has the types |
| | `ActsAsWhoIsIn` | `ActsAsShown` |
| | `SessionsEndForAReason` | `SessionEndsForAReason` |
| `ProductCatalogProofs` | `Invariance` | the inductive invariant `IInv` of the handlers alone |
| | `PhotosCanBeFetched`, `CoverIsPrimaryPhoto` | `PhotoFilesExist`, `PhotosInStep` |
| | `ImplementsBarcodes` | `ProductCatalog` implements `BarcodeCatalog` |
| `ProductPagesProofs` | `PagesInvariance` | the inductive invariant `PagesIInv` of handlers and pages |
| | `LonePage` | `LonePageShowsStored` |
| | `PhotosCanBeFetchedByPages`, `CoverIsPrimaryForPages`, `PagesImplementBarcodes` | the results of the handlers, used through their pages |
| `ScreensProofs` | `Invariance` | the inductive invariant `IInv` of every page |
| | `SomeAdministratorIsLeft` | `SomeAdminLeft` |
| | `LogoCanBeFetched` | `LogoFileExists` |
| | `DialogsAreOfTheirRow` | `DialogsNameTheirRow` |
| | `UntouchedPaymentIsTotal` | `UntouchedPaysTotal` |
| `ScreensListsProofs` | `ListsInvariance` | the inductive invariant `ListsIInv` of what the pages show |
| | `ListsAreOfStored` | `ListsShowStored` |
| | `GridsAreOfTheirCircles` | `GridsAreOfCircles` |
| | `TypeCorrect` | `TypeOK` of every page |

Assumptions: the named ASSUMEs of the modules. In `SaleData`, `SaleTransactions`, `CashSessions`,
`CheckoutClient`, `Session`, `ProductCatalog` and `ProductPages` they say that orders are
non-empty and name each product once, that stock and bounds are natural, that a product may
have a photo and photos are finitely many, that administrators are users, and that special
values are not ordinary ones. `ScreensAssumption` says the same of the pages, and
that the dates are of a month, that a page has room for a row and a form for a payment, that
prices are whole amounts, and that listeners are finitely many and none of them is the page or one
of its two columns. `AnswersAssumption` says that no answer of the server is taken for none. TLC evaluates them in every run.

Argument for the sale engine. None of the promises is inductive by itself. That
receipts are consecutive needs the number a sale has taken to be the next one until it
commits; this holds because it holds the series row meanwhile (`SeriesInv`), and
the same lock makes the unique index enough for the key. That stock is never negative
needs what a transaction will commit to be what it may commit: `LockInv` says that a
row is locked exactly by the transaction that has passed its line, and that its
pending stock is the committed one plus or minus that line. `ActiveInv`
says that a product cannot be deleted under a sale that has decremented it, which
the refinement of `Sell` needs. `HandlerInv` is what each step of a handler knows.
The proof that a step keeps the invariant has a lemma per part and a case per
action.

Argument for the registers. The code checks first and writes later, so the
invariant says what the check still guarantees: a register found by a close stays opened
(by somebody), a sale keeps its register for ever, so a count that was right
when it was summed is a count of that register whenever it is written.

Argument for the checkout screen. An answer may come from a request of any age, so the
invariant follows keys. `ScreenInv`: a call is awaited only by the screen that made it, under
the key that this screen still has, and a screen that was left has abandoned its key.
`RequestInv` and `VentaInv`: what was sent and what is stored have a key drawn by then, of which
the screen has given or will give an account, and under the present key only carts that were
confirmed since it was drawn.

Argument for the session. Until exchanges cross, the session belongs to one job at a time
(`OneUser`): the restore while it runs, then a login, then whoever is in, whose are every token,
every cookie and every refresh under way. `LapseNoted` carries the reason why a session ends from
the step that takes it away to the step that notices.

Argument for the catalog. A handler commits what it loaded, so the invariant says what outlives
the load. `PhotosOK`: an id once drawn belongs to one upload, then to one product, and never comes
back, so a file is deleted only after no row can name it again. `SessionOK`: a session whose
product was not raced holds its photos with the cover that was theirs, and a removal has another
photo left. In the refinement, a commit is a step of `BarcodeCatalog` because the unique index
is asked in it, whatever the look-up said before. With the pages, `OneEditor` says which copy of the
rows is right while one administrator edits photos: the session of the request under way, or its
answer, or else the page.

Argument for the pages. All of them move calls in the same way, so the module first proves what
becomes of a sequence of calls (`Becomes`): some end or are answered, some are new, and the others
go on in another place, overtaken or not; what holds of each call, or of each two, is
carried over by `ComesFrom`, `GoesOn` and `PairFrom`. Each page then has its own invariant. A
dialog: a call that was not overtaken is of the row of the dialog. A scan: until a late answer is
shown, the dialog has one call that was not overtaken, of the photo it shows. Users: unless updates
have overlapped, one that goes on has read what is stored, and has counted another administrator
if it takes one away. The logo: an object that was stored for a request is in no row until it is
committed, nobody has read it there to delete it, and no two requests have the same. The sale form:
an amount that was not typed is empty or what the effect filled in last, which is what the effect
compares it with.

Argument for the lists. A list may be wrong while calls are under way, so the invariant says why it
will be right. Either a change is served and its handler, which loads again, has yet to go on; or the
newest load is of what the page asks for, and it is not answered, or answered with what is stored, or
overtaken and known to be; or there is no load and the list is right. It is enough to look at the
newest, since an answer that comes after a newer one sets `behind`. Two of the pages need more.
In the settings each column of the row is changed and heard of on its own, so the page and each
listener show what is stored in a column, or a change of it is about to be heard of, or a load is to
come. The load of the sales screen is answered in two parts, between which sales are made and voided:
a part that was answered is up to date or known not to be. Sales are never unmade, so totals grow and
a page that was listed goes on existing, unless it was counted in a list of another range (`strayed`).

A list that the server sorts, and the grid of the catalog, name by counting what has a place: in a
strict order of a finite set each place is of one element (`PlacesAreTaken`). So no page of sales
lacks a row, and sorting the grid loses no product and repeats none: prices are compared first and
products of a price are told apart by how new they are, which is a strict order (`CatOrders`).

Only model-checked:

- `EveryRequestEnds` and `RestoreEnds`: liveness is beyond the prover.
- `LedgerIsOfSales`: it adds up the units of a set of sales, and what such a fold gives when a
  sale joins the set takes an induction that is beyond the prover. The step by step form,
  `LedgerRecordsSales`, is proved.

Every other property of the passing runs is proved.

Not proved because the code does not have them: the five properties of the violated runs.

## 6. Not modelled

- **Amounts**: prices, discount, IGV and payments as `Decimal`, JSON numbers and
  `Numeric(12,2)`. A sale is accepted or rejected whatever its amounts are; `SaleForm` has
  whole amounts, and the summary of the dashboard counts sales and adds up nothing.
- **Recognition**: decoding, embeddings, the vector index and its thresholds
  (`services/embeddings.py`, `similarity_search.py`, `routers/recognition.py`). It
  changes no state, and its decision is a comparison of real numbers; the dialogs
  that ask for it are modelled, with any answer.
- **Rate limiter**: a library's counter over time. A 429 is one of the failures of a call.
- **Authentication**: password hashing, signatures and clocks. An access token expires
  or not, a password is right or wrong.
- **Creating a user**: one INSERT under a unique index, and a form with one call.
- **Rest of the screens**: the search, the order and the export of the product list, the
  customer and the methods of payment, the dialog of one product in the catalog, and presentation
  (styles, charts, layout, formatting). They are functions of what is loaded, or
  inputs the models treat alike.
- **Limits of the environment**: the pool of connections, statement timeouts (the code sets
  none), and what MinIO does by itself. Two hazards of `PROJECT.json` have no property, and
  say why.
