---------------------------- MODULE ProductPages ----------------------------
(***************************************************************************)
(* The pages on which administrators edit products                         *)
(* (AdminProductFormPage, ProductForm, ProductImageManager), and the       *)
(* server of ProductCatalog behind them.  A page acts on the photos it was *)
(* last shown, waits for one photo call and one form call at a time, and   *)
(* may be left with calls under way, which the server goes on serving.     *)
(***************************************************************************)
EXTENDS ProductCatalog

CONSTANTS Admin, None

ASSUME PagesAssumption ==
    /\ None \notin Request \cup Admin \cup {"several"} /\ "several" \notin Admin
    /\ Product \cap {"list", "new"} = {}

VARIABLES
    page,       \* "list", "new", or the product that is edited
    view,       \* the photos shown, NoRows if there are none to show
    call,       \* the requests awaited by the form and by the photo manager
    editor      \* history: the only administrator who has changed photos and has heard of
                \* the end of every change; None if nobody has, "several" if there is no such one

pages == << page, view, call >>
vars == << serverVars, pages, editor >>

Edited(a) == page[a] \in Product
Shown(a) == Ids(view[a])
Idle == [form |-> None, photos |-> None]

PagesTypeOK ==
    /\ TypeOK
    /\ page \in [Admin -> Product \cup {"list", "new"}]
    /\ view \in [Admin -> [Photo -> ImageRow \cup {NoRow}]]
    /\ call \in [Admin -> [form : Request \cup {None}, photos : Request \cup {None}]]
    /\ \A a \in Admin : ~Edited(a) => Shown(a) = {} /\ call[a].photos = None
    /\ editor \in Admin \cup {None, "several"}

PagesInit ==
    /\ Init
    /\ page = [a \in Admin |-> "list"]
    /\ view = [a \in Admin |-> NoRows] /\ call = [a \in Admin |-> Idle]
    /\ editor = None

-----------------------------------------------------------------------------
(* Coming and going.  What a page that was left awaits is not shown to it. *)

\* Mutant: the state of a page outlives it.
GoToKeepingCalls(a, where, photos) ==
    /\ page' = [page EXCEPT ![a] = where]
    /\ view' = [view EXCEPT ![a] = photos] /\ UNCHANGED call
    /\ editor' = IF call[a].photos # None THEN "several" ELSE editor

GoTo(a, where, photos) ==
    /\ page' = [page EXCEPT ![a] = where]
    /\ view' = [view EXCEPT ![a] = photos] /\ call' = [call EXCEPT ![a] = Idle]
    /\ editor' = IF call[a].photos # None THEN "several" ELSE editor

\* Bound: no page is opened when there is no request left to send.
OpenNew(a) ==
    /\ page[a] = "list" /\ \E r \in Request : pc[r] = "idle"
    /\ GoTo(a, "new", NoRows) /\ UNCHANGED serverVars

\* The page opens and its GET is answered; until then, or if it fails, there is
\* nothing to edit on it.
OpenEdit(a, p) ==
    /\ page[a] = "list" /\ product[p] # NoRow /\ \E r \in Request : pc[r] = "idle"
    /\ GoTo(a, p, RowsOf(image, p)) /\ UNCHANGED serverVars

Leave(a) == page[a] # "list" /\ GoTo(a, "list", NoRows) /\ UNCHANGED serverVars

\* Delete and restore, from the list of products.
PostFromList(a, r, p, op) ==
    /\ page[a] = "list" /\ PostActive(r, p, op)
    /\ UNCHANGED << pages, editor >>

-----------------------------------------------------------------------------
(* ProductForm: one submission at a time.                                  *)

MaySubmit(a) == page[a] # "list" /\ call[a].form = None

Await(a, which, r) ==
    /\ call' = [call EXCEPT ![a][which] = r]
    /\ UNCHANGED << page, view >>

\* Files chosen, less those removed again: some, and no more than MaxImages.
ChosenFiles == {new \in Upload : Fresh(new)}

SubmitCreate(a, r) ==
    /\ page[a] = "new" /\ MaySubmit(a)
    /\ \E p \in NewProducts, c \in Code, new \in ChosenFiles : PostCreate(r, p, c, new)
    /\ Await(a, "form", r) /\ UNCHANGED editor

\* A barcode field that was emptied is not sent: it reads as one left alone.
SubmitUpdate(a, r) ==
    /\ Edited(a) /\ MaySubmit(a)
    /\ \E typed \in Code : PutProduct(r, page[a], typed)
    /\ Await(a, "form", r) /\ UNCHANGED editor

FormAnswered(a) ==
    /\ call[a].form # None /\ pc[call[a].form] = "ok"
    /\ GoTo(a, "list", NoRows) /\ UNCHANGED serverVars

\* A call can throw whatever becomes of its request; the form keeps what was typed.
FormFailed(a) ==
    /\ call[a].form # None
    /\ Await(a, "form", None) /\ UNCHANGED << serverVars, editor >>

-----------------------------------------------------------------------------
(* ProductImageManager: its buttons are disabled while it is busy.         *)

\* Who has changed photos so far.
Edits(a) == editor' = IF editor \in {None, a} THEN a ELSE "several"

\* Mutant: nothing is disabled.
NeverBusy(a) == Edited(a)

Ready(a) == Edited(a) /\ call[a].photos = None

HandleAdd(a, r) ==
    /\ Ready(a)
    /\ \E new \in ChosenFiles :
         Len(new) <= MaxImages - Cardinality(Shown(a)) /\ PostImages(r, page[a], new)
    /\ Await(a, "photos", r) /\ Edits(a)

HandleDelete(a, r) ==
    /\ Ready(a) /\ Cardinality(Shown(a)) > 1
    /\ \E f \in Shown(a) : PostPhoto(r, page[a], "remove", f)
    /\ Await(a, "photos", r) /\ Edits(a)

HandleSetPrimary(a, r) ==
    /\ Ready(a)
    /\ \E f \in Shown(a) \ Primaries(view[a]) : PostPhoto(r, page[a], "primary", f)
    /\ Await(a, "photos", r) /\ Edits(a)

\* The page shows the product as the handler's session left it.
PhotosAnswered(a) ==
    LET r == call[a].photos IN
    /\ r # None /\ pc[r] = "ok"
    /\ view' = [view EXCEPT ![a] = mine[r]] /\ mine' = [mine EXCEPT ![r] = NoRows]
    /\ call' = [call EXCEPT ![a].photos = None]
    /\ UNCHANGED << database, pc, req, loaded, raced, page, editor >>

PhotosFailed(a) ==
    LET r == call[a].photos IN
    /\ r # None
    /\ call' = [call EXCEPT ![a].photos = None]
    /\ editor' = IF pc[r] = "error" THEN editor ELSE "several"
    /\ UNCHANGED << serverVars, page, view >>

-----------------------------------------------------------------------------
PageStep(a) ==
    \/ OpenNew(a) \/ (\E p \in Product : OpenEdit(a, p)) \/ Leave(a)
    \/ FormAnswered(a) \/ FormFailed(a)
    \/ PhotosAnswered(a) \/ PhotosFailed(a)
    \/ \E r \in Request :
         \/ SubmitCreate(a, r) \/ SubmitUpdate(a, r)
         \/ HandleAdd(a, r) \/ HandleDelete(a, r) \/ HandleSetPrimary(a, r)
         \/ \E p \in Product, op \in {"delete", "restore"} : PostFromList(a, r, p, op)

ServerStep(r) == (Handle(r) \/ Fail(r)) /\ UNCHANGED << pages, editor >>

PagesNext == (\E a \in Admin : PageStep(a)) \/ (\E r \in Request : ServerStep(r))

PagesSpec == PagesInit /\ [][PagesNext]_vars

\* What a photo manager waits for is about its photos.
PagesOK ==
    \A a \in Admin :
        /\ Edited(a) => product[page[a]] # NoRow
        /\ LET r == call[a].photos IN
           r # None => pc[r] # "idle" /\ (UnderWay(r) => req[r].op \in PhotoOp)

\* While nobody edits photos beside another, every change under way is that of the
\* editor's page, whose session or else the page itself holds what is stored.
OneEditor ==
    editor # "several" =>
        /\ raced = {}
        /\ \A a \in Admin \ {editor} : call[a].photos = None
        /\ \A r \in Request : req[r].op \in PhotoOp =>
             /\ editor \in Admin /\ call[editor].photos = r /\ page[editor] = Subject(r)
             /\ pc[r] = "loaded" => mine[r] = RowsOf(image, Subject(r))
        /\ \A a \in Admin : editor \in {None, a} /\ Edited(a) =>
             LET r == call[a].photos
                 stored == RowsOf(image, page[a])
             IN  IF r # None /\ pc[r] \in {"deleting", "ok"} THEN mine[r] = stored
                 ELSE (r # None => pc[r] # "late_error") => view[a] = stored

PagesIInv == PagesTypeOK /\ IInv /\ PagesOK /\ OneEditor

\* As long as one administrator edits photos and hears of the end of every call, the
\* photos of no product are raced, and the page shows what is stored: its flag keeps
\* its calls apart, and the answer is the session's own copy of the rows.
LonePageShowsStored ==
    /\ editor # "several" => raced = {}
    /\ editor \in Admin /\ Ready(editor) => view[editor] = RowsOf(image, page[editor])
=============================================================================
