--------------------------- MODULE ProductCatalog ---------------------------
(***************************************************************************)
(* The product administration of the server (routers/products_admin.py):   *)
(* barcodes under the partial index of active products, photos in          *)
(* product_images and in object storage, and the cover of a product, which *)
(* is a copy of its primary photo.                                         *)
(*                                                                         *)
(* A handler first loads the rows it works on (its ORM session keeps them) *)
(* and commits later, writing the columns it has changed.  Everything it   *)
(* flushes and commits is one step: whoever writes the same row or index   *)
(* entry waits for the commit, so the result is that of the handlers       *)
(* taken in the order of their commits.  What happens between the load and *)
(* the commit is what others commit.                                       *)
(***************************************************************************)
EXTENDS Integers, FiniteSets, Sequences

CONSTANTS
    Product, Photo,         \* ids the server may draw
    Barcode, NoBarcode,
    Request,
    MaxImages,              \* max_images_per_product, and MAX_IMAGES of the screens
    NoRow

ASSUME ImagesAssumption == MaxImages \in Nat \ {0} /\ IsFiniteSet(Photo)
ASSUME NoneAssumption == NoBarcode \notin Barcode

VARIABLES
    product, image,     \* committed rows; NoRow if there is none
    objects,            \* photos whose file is in object storage
    drawn,              \* photos that ever had an id
    pc, req,            \* how far each request has got, and what it asks for until it ends
    loaded, mine,       \* its session: the product row, the rows of the product's photos
    raced               \* history: products whose photos were written from a stale load

database == << product, image, objects, drawn >>
handlers == << pc, req, loaded, mine >>
serverVars == << database, handlers, raced >>

Code == Barcode \cup {NoBarcode}
ProductRow == [code : Code, active : BOOLEAN, cover : Photo]
ImageRow == [product : Product, primary : BOOLEAN, position : Nat]
ASSUME NoRowAssumption == NoRow \notin Product \cup Photo \cup ProductRow \cup ImageRow

Op == {"create", "update", "delete", "restore", "add", "remove", "primary"}

\* The photos of one upload, in the order they were chosen.
Upload == {s \in UNION {[1..n -> Photo] : n \in 1..MaxImages} :
               \A i, j \in DOMAIN s : s[i] = s[j] => i = j}
Ask == [op : Op, product : Product \cup {NoRow}, code : Code, new : Upload \cup {<< >>}, target : Photo \cup {NoRow}]

\* product.images: the rows of a product's photos, among any rows.
RowsOf(rows, p) == [f \in Photo |-> IF rows[f] # NoRow /\ rows[f].product = p THEN rows[f] ELSE NoRow]
Ids(rows) == {f \in Photo : rows[f] # NoRow}
Primaries(rows) == {f \in Ids(rows) : rows[f].primary}
NoRows == [f \in Photo |-> NoRow]
Nothing == [op |-> "update", product |-> NoRow, code |-> NoBarcode, new |-> << >>, target |-> NoRow]

TypeOK ==
    /\ product \in [Product -> ProductRow \cup {NoRow}]
    /\ image \in [Photo -> ImageRow \cup {NoRow}]
    /\ drawn \subseteq Photo /\ objects \subseteq drawn
    /\ pc \in [Request -> {"idle", "sent", "loaded", "deleting", "ok", "error", "late_error"}]
    /\ req \in [Request -> Ask]
    /\ loaded \in [Request -> ProductRow \cup {NoRow}]
    /\ mine \in [Request -> [Photo -> ImageRow \cup {NoRow}]]
    /\ raced \subseteq Product

-----------------------------------------------------------------------------
(* What a handler reads and what the database accepts.                     *)

\* _assert_barcode_available
Taken(c, p) ==
    c # NoBarcode /\ \E q \in Product \ {p} : product[q] # NoRow /\ product[q].active /\ product[q].code = c

\* ux_products_barcode_active
BarcodeIndex(rows) ==
    \A p, q \in Product :
        /\ p # q /\ rows[p] # NoRow /\ rows[q] # NoRow /\ rows[p].active /\ rows[q].active
        /\ rows[p].code # NoBarcode
        => rows[p].code # rows[q].code

\* ux_product_images_primary
PrimaryIndex(rows) == \A p \in Product : Cardinality(Primaries(RowsOf(rows, p))) <= 1

Asks(r, op, step) == pc[r] = step /\ req[r].op = op
Subject(r) == req[r].product

\* A handler that has ended keeps nothing but the photos it answers with.
End(r, how, session) ==
    /\ pc' = [pc EXCEPT ![r] = how] /\ req' = [req EXCEPT ![r] = Nothing]
    /\ loaded' = [loaded EXCEPT ![r] = NoRow] /\ mine' = [mine EXCEPT ![r] = session]

Answer(r, how) == End(r, how, NoRows) /\ UNCHANGED << database, raced >>

\* _get_product_or_404: the product and its photos as they are committed now.
Load(r) ==
    /\ pc' = [pc EXCEPT ![r] = "loaded"]
    /\ loaded' = [loaded EXCEPT ![r] = product[Subject(r)]]
    /\ mine' = [mine EXCEPT ![r] = RowsOf(image, Subject(r))]
    /\ UNCHANGED << product, image, drawn, req, raced >>

\* flush and commit, or the IntegrityError of an index and the rollback.
Commit(r, row, rows, session) ==
    LET products == [product EXCEPT ![Subject(r)] = row] IN
    IF BarcodeIndex(products) /\ PrimaryIndex(rows)
    THEN product' = products /\ image' = rows /\ End(r, "ok", session) /\ UNCHANGED << objects, drawn >>
    ELSE End(r, "error", NoRows) /\ UNCHANGED database

CommitProduct(r, row) == Commit(r, row, image, NoRows) /\ UNCHANGED raced

\* Photos were loaded, and others have committed photos of the product since.
Overtaken(r) == RowsOf(image, Subject(r)) # mine[r]
NoteRace(r) == raced' = IF Overtaken(r) /\ pc'[r] # "error" THEN raced \cup {Subject(r)} ELSE raced

CommitPhotos(r, row, rows, session) == Commit(r, row, rows, session) /\ NoteRace(r)

\* _sync_cover; of the product row only a cover that differs from the one loaded is
\* written.
SyncCover(r, session) ==
    LET first == CHOOSE f \in Primaries(session) : TRUE IN
    IF Primaries(session) = {} \/ first = loaded[r].cover THEN product[Subject(r)]
    ELSE [product[Subject(r)] EXCEPT !.cover = first]

\* _store_image, for each photo of an upload
NewRows(p, new, first, withPrimary) ==
    [f \in Photo |-> IF \E i \in DOMAIN new : new[i] = f
                     THEN [product |-> p, primary |-> withPrimary /\ f = new[1],
                           position |-> first + (CHOOSE j \in DOMAIN new : new[j] = f) - 1]
                     ELSE NoRow]
Insert(rows, more) == [f \in Photo |-> IF more[f] # NoRow THEN more[f] ELSE rows[f]]
Without(rows, f) == [rows EXCEPT ![f] = NoRow]
StoreObjects(r) == objects' = objects \cup {req[r].new[i] : i \in DOMAIN req[r].new}

-----------------------------------------------------------------------------
\* One product was created before, and no request is under way.
Init ==
    /\ \E p \in Product, upload \in Upload, c \in Code :
         /\ product = [q \in Product |-> IF q = p THEN [code |-> c, active |-> TRUE, cover |-> upload[1]]
                                         ELSE NoRow]
         /\ image = NewRows(p, upload, 0, TRUE)
         /\ objects = Ids(image) /\ drawn = objects
    /\ pc = [r \in Request |-> "idle"] /\ req = [r \in Request |-> Nothing]
    /\ loaded = [r \in Request |-> NoRow] /\ mine = [r \in Request |-> NoRows]
    /\ raced = {}

-----------------------------------------------------------------------------
(* A request arrives, with fresh ids for what it will store.               *)

Fresh(new) == \A i \in DOMAIN new : new[i] \in Photo \ drawn
NewProducts == {p \in Product : product[p] = NoRow /\ \A r \in Request : Subject(r) # p}

Send(r, op, p, c, new, f) ==
    /\ pc[r] = "idle"
    /\ pc' = [pc EXCEPT ![r] = "sent"]
    /\ req' = [req EXCEPT ![r] = [op |-> op, product |-> p, code |-> c, new |-> new, target |-> f]]
    /\ drawn' = drawn \cup {new[i] : i \in DOMAIN new}
    /\ UNCHANGED << product, image, objects, loaded, mine, raced >>

PostCreate(r, p, c, new) == p \in NewProducts /\ Fresh(new) /\ Send(r, "create", p, c, new, NoRow)
PutProduct(r, p, c) == product[p] # NoRow /\ Send(r, "update", p, c, << >>, NoRow)
PostActive(r, p, op) == product[p] # NoRow /\ Send(r, op, p, NoBarcode, << >>, NoRow)
PostImages(r, p, new) == product[p] # NoRow /\ Fresh(new) /\ Send(r, "add", p, NoBarcode, new, NoRow)
\* A photo the client has seen, which may be gone by now.
PostPhoto(r, p, op, f) == product[p] # NoRow /\ f \in drawn /\ Send(r, op, p, NoBarcode, << >>, f)

-----------------------------------------------------------------------------
(* create_product, update_product, delete_product, restore_product         *)

\* The barcode typed, or one that a photo shows.  The files are stored before
\* anything is committed.
LookUpBarcode(r) ==
    /\ Asks(r, "create", "sent")
    /\ \E detected \in Code :
         LET c == IF req[r].code # NoBarcode THEN req[r].code ELSE detected IN
         IF Taken(c, Subject(r)) THEN Answer(r, "error")
         ELSE /\ pc' = [pc EXCEPT ![r] = "loaded"]
              /\ req' = [req EXCEPT ![r].code = c]
              /\ StoreObjects(r)
              /\ UNCHANGED << product, image, drawn, loaded, mine, raced >>

CreateProduct(r) ==
    /\ Asks(r, "create", "loaded")
    /\ LET rows == NewRows(Subject(r), req[r].new, 0, TRUE) IN
       Commit(r, [code |-> req[r].code, active |-> TRUE, cover |-> req[r].new[1]],
              Insert(image, rows), NoRows)
    /\ UNCHANGED raced

NewCode(r, row) == req[r].code # NoBarcode /\ req[r].code # row.code

LoadForUpdate(r) ==
    /\ Asks(r, "update", "sent")
    /\ IF NewCode(r, product[Subject(r)]) /\ Taken(req[r].code, Subject(r))
       THEN Answer(r, "error")
       ELSE Load(r) /\ UNCHANGED objects

UpdateProduct(r) ==
    /\ Asks(r, "update", "loaded")
    /\ CommitProduct(r, IF NewCode(r, loaded[r]) THEN [product[Subject(r)] EXCEPT !.code = req[r].code]
                        ELSE product[Subject(r)])

LoadForActive(r) ==
    /\ Asks(r, "delete", "sent") \/ Asks(r, "restore", "sent")
    /\ Load(r) /\ UNCHANGED objects

\* is_active is written if it is not what was loaded.
DeleteProduct(r) ==
    /\ Asks(r, "delete", "loaded")
    /\ CommitProduct(r, [product[Subject(r)] EXCEPT !.active = IF loaded[r].active THEN FALSE ELSE @])

\* Mutant: restoring looks neither at the barcode nor at the index.
RestoreTaken(r) ==
    /\ Asks(r, "restore", "loaded")
    /\ product' = [product EXCEPT ![Subject(r)].active = TRUE] /\ End(r, "ok", NoRows)
    /\ UNCHANGED << image, objects, drawn, raced >>

\* Nothing looks the barcode up again: the index answers for it.
RestoreProduct(r) ==
    /\ Asks(r, "restore", "loaded")
    /\ CommitProduct(r, [product[Subject(r)] EXCEPT !.active = IF loaded[r].active THEN @ ELSE TRUE])

-----------------------------------------------------------------------------
(* add_product_images, delete_product_image, set_primary_product_image     *)

LoadForImages(r) ==
    /\ Asks(r, "add", "sent")
    /\ IF Cardinality(Ids(RowsOf(image, Subject(r)))) + Len(req[r].new) > MaxImages
       THEN Answer(r, "error")
       ELSE Load(r) /\ StoreObjects(r)

NextPosition(rows) ==
    IF Ids(rows) = {} THEN 0
    ELSE 1 + (CHOOSE n \in {rows[f].position : f \in Ids(rows)} : \A f \in Ids(rows) : rows[f].position <= n)

AddImages(r) ==
    /\ Asks(r, "add", "loaded")
    /\ LET new == NewRows(Subject(r), req[r].new, NextPosition(mine[r]), Primaries(mine[r]) = {})
           session == Insert(mine[r], new) IN
       CommitPhotos(r, SyncCover(r, session), Insert(image, new), session)

\* Mutant: the last photo may go.
LoadForAnyPhoto(r) ==
    /\ Asks(r, "remove", "sent") \/ Asks(r, "primary", "sent")
    /\ req[r].target \in Ids(RowsOf(image, Subject(r))) /\ Load(r) /\ UNCHANGED objects

LoadForPhoto(r) ==
    /\ Asks(r, "remove", "sent") \/ Asks(r, "primary", "sent")
    /\ LET photos == Ids(RowsOf(image, Subject(r))) IN
       IF req[r].target \notin photos \/ (req[r].op = "remove" /\ Cardinality(photos) <= 1)
       THEN Answer(r, "error")
       ELSE Load(r) /\ UNCHANGED objects

\* The remaining photos after a delete: if the primary one went, the one with the
\* lowest position takes its place.
Promotions(rest) ==
    {[rest EXCEPT ![heir].primary = TRUE] :
        heir \in {f \in Ids(rest) : \A g \in Ids(rest) : rest[f].position <= rest[g].position}}

\* Mutant: the file goes before the commit, which may fail.
RemoveObjectFirst(r) ==
    /\ Asks(r, "remove", "loaded")
    /\ objects' = objects \ {req[r].target} /\ pc' = [pc EXCEPT ![r] = "deleting"]
    /\ UNCHANGED << product, image, drawn, req, loaded, mine, raced >>

\* A row promoted here that is gone by now fails its UPDATE, and one beside a newer
\* primary photo the index; deleting a row that is gone fails nothing.
RemoveImage(r) ==
    /\ Asks(r, "remove", "loaded")
    /\ LET target == req[r].target
           rest == Without(mine[r], target) IN
       \E session \in IF mine[r][target].primary /\ Ids(rest) # {} THEN Promotions(rest) ELSE {rest} :
         LET rows == [f \in Photo |-> IF f = target THEN NoRow
                                      ELSE IF session[f] # rest[f] THEN session[f] ELSE image[f]]
             row == IF session = rest THEN product[Subject(r)] ELSE SyncCover(r, session)
             products == [product EXCEPT ![Subject(r)] = row] IN
         IF PrimaryIndex(rows) /\ \A f \in Photo : session[f] # rest[f] => image[f] # NoRow
         THEN /\ product' = products /\ image' = rows
              /\ pc' = [pc EXCEPT ![r] = "deleting"] /\ mine' = [mine EXCEPT ![r] = session]
              /\ NoteRace(r) /\ UNCHANGED << objects, drawn, req, loaded >>
         ELSE Answer(r, "error")

\* The file goes after the commit.
DeleteObject(r) ==
    /\ pc[r] = "deleting"
    /\ objects' = objects \ {req[r].target} /\ End(r, "ok", mine[r])
    /\ UNCHANGED << product, image, drawn, raced >>

\* The photo shown first so far loses the flag before the target gets it; a row to be
\* written that is gone by now fails its UPDATE.
SetPrimaryImage(r) ==
    /\ Asks(r, "primary", "loaded")
    /\ LET target == req[r].target
           session == [f \in Photo |-> IF mine[r][f] = NoRow THEN NoRow
                                       ELSE [mine[r][f] EXCEPT !.primary = (f = target)]]
           written == {f \in Photo : session[f] # mine[r][f]}
           rows == [f \in Photo |-> IF f \in written /\ image[f] # NoRow THEN session[f] ELSE image[f]] IN
       IF \E f \in written : image[f] = NoRow THEN Answer(r, "error")
       ELSE CommitPhotos(r, SyncCover(r, session), rows, session)

-----------------------------------------------------------------------------
\* An unreadable photo, a deadlock, a restart of the server: what is not committed is
\* rolled back, and stored files stay.
Fail(r) ==
    \/ pc[r] = "loaded" /\ Answer(r, "error")
    \/ pc[r] = "deleting" /\ Answer(r, "late_error")

Handle(r) ==
    \/ LookUpBarcode(r) \/ CreateProduct(r) \/ LoadForUpdate(r) \/ UpdateProduct(r)
    \/ LoadForActive(r) \/ DeleteProduct(r) \/ RestoreProduct(r)
    \/ LoadForImages(r) \/ AddImages(r)
    \/ LoadForPhoto(r) \/ RemoveImage(r) \/ DeleteObject(r) \/ SetPrimaryImage(r)

Arrive(r) ==
    \E p \in Product :
        \/ \E c \in Code : PutProduct(r, p, c)
        \/ \E c \in Code, new \in Upload : PostCreate(r, p, c, new)
        \/ \E op \in {"delete", "restore"} : PostActive(r, p, op)
        \/ \E new \in Upload : PostImages(r, p, new)
        \/ \E f \in Photo, op \in {"remove", "primary"} : PostPhoto(r, p, op, f)

Next == \E r \in Request : Arrive(r) \/ Handle(r) \/ Fail(r)

Spec == Init /\ [][Next]_serverVars

-----------------------------------------------------------------------------
(* Properties, and the inductive invariant.                                *)

\* The file of every photo row can be fetched, and that of a cover too unless
\* requests on the photos of its product have overlapped: a file is stored before its
\* row and deleted after it, whatever fails in between.  (A failure leaves files that
\* no row names; nothing collects them.)  A cover is a copy in the product row, which a
\* removal writes only if the photo it loaded was the primary one: when another removal
\* promotes that photo meanwhile, the cover stays on a file that is then deleted.
PhotoFilesExist ==
    /\ \A f \in Photo : image[f] # NoRow => f \in objects
    /\ \A p \in Product \ raced : product[p] # NoRow => product[p].cover \in objects

\* "Un producto debe tener al menos una foto", at most MaxImages, and the cover is the
\* primary one of them: each handler keeps this if what it loaded is what it writes.
\* Two requests on the photos of one product at the same time may break all three,
\* which is why the products that this happened to are set apart.
InStep(p) ==
    LET rows == RowsOf(image, p) IN
    /\ Cardinality(Ids(rows)) \in 1..MaxImages
    /\ Primaries(rows) = {product[p].cover}
PhotosInStep == \A p \in Product \ raced : product[p] # NoRow => InStep(p)

PhotoOp == {"add", "remove", "primary"}
New(r) == {req[r].new[i] : i \in DOMAIN req[r].new}
UnderWay(r) == pc[r] \in {"sent", "loaded", "deleting"}

\* A request under way is about a product that is there, or about one of its own.
RequestOK(r) ==
    /\ ~UnderWay(r) => req[r] = Nothing
    /\ UnderWay(r) =>
         /\ Subject(r) \in Product
         /\ (product[Subject(r)] = NoRow) = (req[r].op = "create")
         /\ req[r].op = "create" => \A s \in Request \ {r} : Subject(s) # Subject(r)
         /\ (New(r) # {}) = (req[r].op \in {"create", "add"})
    /\ pc[r] = "loaded" /\ req[r].op # "create" => loaded[r] # NoRow
    /\ pc[r] = "deleting" => req[r].op = "remove"

\* A photo belongs to the upload it came with, then to a product, and never comes back.
PhotosOK ==
    /\ \A f \in Ids(image) : product[image[f].product] # NoRow /\ f \in objects
    /\ \A r \in Request :
         /\ New(r) \subseteq drawn \ Ids(image)
         /\ \A s \in Request \ {r} : New(r) \cap New(s) = {}
         /\ pc[r] = "loaded" => New(r) \subseteq objects
         /\ pc[r] = "deleting" => req[r].target \in drawn \ (Ids(image) \cup UNION {New(s) : s \in Request})

\* What a session holds of photos was once theirs, and in step unless they were raced.
SessionOK(r) ==
    pc[r] = "loaded" /\ req[r].op \in PhotoOp =>
        /\ \A f \in Ids(mine[r]) :
             /\ mine[r][f].product = Subject(r) /\ f \in drawn
             /\ image[f] # NoRow => image[f].product = Subject(r)
             /\ \A s \in Request : f \notin New(s)
        /\ Subject(r) \notin raced => Primaries(mine[r]) = {loaded[r].cover}
        /\ req[r].op = "add" => Cardinality(Ids(mine[r])) + Len(req[r].new) <= MaxImages
        /\ req[r].op # "add" => req[r].target \in Ids(mine[r])
        /\ req[r].op = "remove" => Cardinality(Ids(mine[r])) > 1

IInv == TypeOK /\ PhotosOK /\ PhotosInStep /\ \A r \in Request : RequestOK(r) /\ SessionOK(r)

\* Requests look barcodes up early and commit late, and restoring looks up nothing:
\* what they commit is still a run of the catalog that assigns barcodes in one step.
Barcodes == INSTANCE BarcodeCatalog WITH
    created <- {p \in Product : product[p] # NoRow},
    active  <- {p \in Product : product[p] # NoRow /\ product[p].active},
    barcode <- [p \in Product |-> IF product[p] = NoRow THEN NoBarcode ELSE product[p].code]
ImplementsBarcodeCatalog == Barcodes!Spec
=============================================================================
