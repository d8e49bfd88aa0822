------------------------- MODULE ProductPagesProofs -------------------------
(***************************************************************************)
(* Proofs about ProductPages: what ProductCatalogProofs shows of the       *)
(* server also holds of the server behind these pages, and what they show. *)
(***************************************************************************)
EXTENDS ProductPages, ProductCatalogProofs

(* What a step of a handler is to the pages.                               *)

Serves(r) ==
    /\ UnderWay(r) /\ pc'[r] # "idle"
    /\ \A s \in Request \ {r} : pc'[s] = pc[s] /\ req'[s] = req[s] /\ mine'[s] = mine[s]
    /\ \A p \in Product : product[p] # NoRow => product'[p] # NoRow
    /\ UnderWay(r)' => req'[r].op = req[r].op /\ Subject(r)' = Subject(r)

LEMMA AnswerServes ==
    ASSUME IInv, NEW r \in Request, NEW how \in Ended, UnderWay(r), NEW session \in Rows,
           End(r, how, session), UNCHANGED product
    PROVE  Serves(r) /\ pc'[r] = how /\ mine'[r] = session
<1>1. /\ pc'[r] = how /\ \A s \in Request \ {r} : pc'[s] = pc[s] /\ req'[s] = req[s] /\ mine'[s] = mine[s]
  BY EndIs
<1>2. mine'[r] = session
  BY DatabaseIs DEF End
<1> QED BY <1>1, <1>2 DEF Serves, UnderWay, Ended

LEMMA LoadServes ==
    ASSUME IInv, NEW r \in Request, pc[r] = "sent", Load(r)
    PROVE  /\ Serves(r) /\ pc'[r] = "loaded" /\ mine'[r] = RowsOf(image, Subject(r))
           /\ UNCHANGED << image, raced >>
<1>1. /\ pc' = [pc EXCEPT ![r] = "loaded"] /\ mine' = [mine EXCEPT ![r] = RowsOf(image, Subject(r))]
      /\ UNCHANGED << product, image, req, raced >>
  BY DEF Load
<1>2. /\ pc'[r] = "loaded" /\ mine'[r] = RowsOf(image, Subject(r))
      /\ \A s \in Request \ {r} : pc'[s] = pc[s] /\ mine'[s] = mine[s]
  BY <1>1, DatabaseIs
<1> QED BY <1>1, <1>2 DEF Serves, UnderWay, Subject

\* Requests that are not about photos leave those of every product there is alone.
Elsewhere == raced' = raced /\ \A p \in Product : product[p] # NoRow => RowsOf(image', p) = RowsOf(image, p)

LEMMA ProductServes ==
    ASSUME IInv, NEW r \in Request, req[r].op \notin PhotoOp, Handle(r) \/ Fail(r)
    PROVE  Serves(r) /\ Elsewhere
<1>0. UNCHANGED << image, raced >> => Elsewhere
  BY DEF Elsewhere
<1>1. ASSUME UnderWay(r), Answer(r, "error") PROVE Serves(r) /\ Elsewhere
  BY <1>0, <1>1, AnswerServes, NoRowsIs DEF Answer, database, Ended
<1>2. ASSUME UnderWay(r), NEW row \in ProductRow, NEW rows, Commit(r, row, rows, NoRows), raced' = raced,
             \A p \in Product : product[p] # NoRow => RowsOf(rows, p) = RowsOf(image, p)
      PROVE  Serves(r) /\ Elsewhere
  <2>1. CASE End(r, "error", NoRows) /\ UNCHANGED database
    BY <1>0, <1>2, <2>1, AnswerServes, NoRowsIs DEF database, Ended
  <2>2. CASE product' = [product EXCEPT ![Subject(r)] = row] /\ image' = rows /\ End(r, "ok", NoRows)
    <3>1. pc'[r] = "ok" /\ \A s \in Request \ {r} : pc'[s] = pc[s] /\ req'[s] = req[s] /\ mine'[s] = mine[s]
      BY <2>2, EndIs, NoRowsIs DEF Ended
    <3>2. \A p \in Product : product[p] # NoRow => product'[p] # NoRow
      BY <2>2, ProductRowIs, DatabaseIs
    <3> QED BY <1>2, <2>2, <3>1, <3>2 DEF Serves, Elsewhere, UnderWay
  <2> QED BY <1>2, <2>1, <2>2 DEF Commit
<1>3. CASE LookUpBarcode(r)
  <2>1. pc[r] = "sent" /\ UnderWay(r)
    BY <1>3 DEF LookUpBarcode, Asks, UnderWay
  <2>2. PICK c \in Code : \/ Answer(r, "error")
                          \/ /\ pc' = [pc EXCEPT ![r] = "loaded"] /\ req' = [req EXCEPT ![r].code = c]
                             /\ UNCHANGED << product, image, mine, raced >>
    BY <1>3, RequestIs DEF LookUpBarcode
  <2>3. CASE /\ pc' = [pc EXCEPT ![r] = "loaded"] /\ req' = [req EXCEPT ![r].code = c]
             /\ UNCHANGED << product, image, mine, raced >>
    <3>1. pc'[r] = "loaded" /\ \A s \in Request \ {r} : pc'[s] = pc[s] /\ req'[s] = req[s]
      BY <2>3, DatabaseIs
    <3>2. req'[r].op = req[r].op /\ req'[r].product = req[r].product
      BY <2>3, DatabaseIs DEF Ask
    <3> QED BY <1>0, <2>1, <2>3, <3>1, <3>2 DEF Serves, Subject
  <2> QED BY <1>1, <2>1, <2>2, <2>3
<1>4. CASE CreateProduct(r)
  <2> DEFINE new == NewRows(Subject(r), req[r].new, 0, TRUE)
             rows == Insert(image, new)
             row == [code |-> req[r].code, active |-> TRUE, cover |-> req[r].new[1]]
  <2>1. UnderWay(r) /\ req[r].op = "create"
    BY <1>4 DEF CreateProduct, Asks, UnderWay
  <2>2. req[r].new \in Upload /\ Subject(r) \in Product /\ product[Subject(r)] = NoRow
    BY <2>1, RequestIs DEF RequestOK
  <2>3. row \in ProductRow
    BY <2>2, RequestIs, UploadIs DEF ProductRow
  <2>4. rows \in Rows /\ Keeps(r, rows)
    BY <2>1, <2>2, Uploaded
  <2>5. ASSUME NEW p \in Product, product[p] # NoRow PROVE RowsOf(rows, p) = RowsOf(image, p)
    <3> HIDE DEF rows
    <3> QED BY <2>2, <2>4, <2>5, KeptRows
  <2>6. Commit(r, row, rows, NoRows) /\ raced' = raced
    BY <1>4 DEF CreateProduct
  <2> HIDE DEF row, rows
  <2> QED BY <1>2, <2>1, <2>3, <2>5, <2>6
<1>5. CASE LoadForUpdate(r) \/ LoadForActive(r)
  <2>1. pc[r] = "sent" /\ UnderWay(r)
    BY <1>5 DEF LoadForUpdate, LoadForActive, Asks, UnderWay
  <2> QED BY <1>0, <1>1, <1>5, <2>1, LoadServes DEF LoadForUpdate, LoadForActive
<1>6. CASE UpdateProduct(r) \/ DeleteProduct(r) \/ RestoreProduct(r)
  <2> DEFINE old == product[Subject(r)]
  <2>1. UnderWay(r) /\ req[r].op # "create"
    BY <1>6 DEF UpdateProduct, DeleteProduct, RestoreProduct, Asks, UnderWay
  <2>2. old \in ProductRow /\ req[r].code \in Code
    BY <2>1, RequestIs
  <2>3. \E row \in ProductRow : CommitProduct(r, row)
    <3>1. CASE UpdateProduct(r)
      <4> DEFINE row == IF NewCode(r, loaded[r]) THEN [old EXCEPT !.code = req[r].code] ELSE old
      <4>1. CommitProduct(r, row)
        BY <3>1 DEF UpdateProduct
      <4>2. row \in ProductRow
        BY <2>2, ProductRowIs
      <4> QED BY <4>1, <4>2
    <3>2. CASE DeleteProduct(r)
      <4> DEFINE a == IF loaded[r].active THEN FALSE ELSE old.active
      <4>1. CommitProduct(r, [old EXCEPT !.active = a])
        BY <3>2 DEF DeleteProduct
      <4>2. a \in BOOLEAN
        BY <2>2, ProductRowIs
      <4> HIDE DEF a, old
      <4>3. [old EXCEPT !.active = a] \in ProductRow
        BY <2>2, <4>2, ProductRowIs
      <4> QED BY <4>1, <4>3
    <3>3. CASE RestoreProduct(r)
      <4> DEFINE a == IF loaded[r].active THEN old.active ELSE TRUE
      <4>1. CommitProduct(r, [old EXCEPT !.active = a])
        BY <3>3 DEF RestoreProduct
      <4>2. a \in BOOLEAN
        BY <2>2, ProductRowIs
      <4> HIDE DEF a, old
      <4>3. [old EXCEPT !.active = a] \in ProductRow
        BY <2>2, <4>2, ProductRowIs
      <4> QED BY <4>1, <4>3
    <3> QED BY <1>6, <3>1, <3>2, <3>3
  <2> QED BY <1>2, <2>1, <2>3 DEF CommitProduct
<1>7. CASE LoadForImages(r) \/ LoadForPhoto(r) \/ AddImages(r) \/ RemoveImage(r) \/ SetPrimaryImage(r)
  BY <1>7 DEF LoadForImages, LoadForPhoto, AddImages, RemoveImage, SetPrimaryImage, Asks, PhotoOp
<1>8. pc[r] # "deleting"
  BY RequestIs DEF RequestOK, PhotoOp
<1>9. CASE Fail(r)
  BY <1>1, <1>8, <1>9 DEF Fail, UnderWay
<1> QED BY <1>3, <1>4, <1>5, <1>6, <1>7, <1>8, <1>9 DEF Handle, DeleteObject

\* Those about photos: rejected, loaded, committed, or past the commit.
Rejected(r) == pc[r] \in {"sent", "loaded"} /\ pc'[r] = "error" /\ UNCHANGED << image, raced >>
Loaded(r) == /\ pc[r] = "sent" /\ pc'[r] = "loaded" /\ mine'[r] = RowsOf(image, Subject(r))
             /\ UNCHANGED << image, raced >>
Deleted(r) == /\ pc[r] = "deleting" /\ UNCHANGED << image, raced >>
              /\ pc'[r] = "late_error" \/ (pc'[r] = "ok" /\ mine'[r] = mine[r])

LEMMA PhotoServes ==
    ASSUME IInv, NEW r \in Request, req[r].op \in PhotoOp, Handle(r) \/ Fail(r)
    PROVE  Serves(r) /\ (Rejected(r) \/ Loaded(r) \/ Deleted(r) \/ (pc[r] = "loaded" /\ Leaves(r)))
<1>1. ASSUME pc[r] \in {"sent", "loaded"}, Answer(r, "error") PROVE Serves(r) /\ Rejected(r)
  BY <1>1, AnswerServes, NoRowsIs DEF Answer, database, Ended, UnderWay, Rejected
<1>2. CASE LoadForImages(r) \/ LoadForPhoto(r)
  <2>1. pc[r] = "sent"
    BY <1>2 DEF LoadForImages, LoadForPhoto, Asks
  <2> QED BY <1>1, <1>2, <2>1, LoadServes DEF LoadForImages, LoadForPhoto, Loaded
<1>3. CASE AddImages(r) \/ RemoveImage(r) \/ SetPrimaryImage(r)
  <2>1. pc[r] = "loaded"
    BY <1>3 DEF AddImages, RemoveImage, SetPrimaryImage, Asks
  <2>2. Leaves(r)
    BY <1>3, AddImagesStep, RemoveImageStep, SetPrimaryImageStep
  <2> QED BY <2>1, <2>2 DEF Leaves, Serves, UnderWay, Subject
<1>4. CASE DeleteObject(r)
  BY <1>4, AnswerServes, RequestIs DEF DeleteObject, Ended, UnderWay, Deleted
<1>5. CASE Fail(r)
  <2>1. CASE pc[r] = "loaded" /\ Answer(r, "error")
    BY <1>1, <2>1
  <2>2. CASE pc[r] = "deleting" /\ Answer(r, "late_error")
    BY <2>2, AnswerServes, NoRowsIs DEF Answer, database, Ended, UnderWay, Deleted
  <2> QED BY <1>5, <2>1, <2>2 DEF Fail
<1>6. ~(LookUpBarcode(r) \/ CreateProduct(r) \/ LoadForUpdate(r) \/ UpdateProduct(r)
        \/ LoadForActive(r) \/ DeleteProduct(r) \/ RestoreProduct(r))
  BY DEF LookUpBarcode, CreateProduct, LoadForUpdate, UpdateProduct, LoadForActive, DeleteProduct,
         RestoreProduct, Asks, PhotoOp
<1> QED BY <1>2, <1>3, <1>4, <1>5, <1>6 DEF Handle

-----------------------------------------------------------------------------
(* The steps of the pages.                                                 *)

PageTypes ==
    /\ page \in [Admin -> Product \cup {"list", "new"}] /\ view \in [Admin -> Rows]
    /\ call \in [Admin -> [form : Request \cup {None}, photos : Request \cup {None}]]
    /\ \A a \in Admin : ~Edited(a) => Shown(a) = {} /\ call[a].photos = None
    /\ editor \in Admin \cup {None, "several"}

LEMMA PagesAre ==
    /\ PagesIInv = (PageTypes /\ IInv /\ PagesOK /\ OneEditor)
    /\ PagesIInv' = (PageTypes' /\ IInv' /\ PagesOK' /\ OneEditor')
BY DEF PagesIInv, PagesTypeOK, PageTypes, IInv, Rows

LEMMA NewCalls ==
    ASSUME PageTypes, NEW a \in Admin, NEW r \in Request \cup {None}
    PROVE  /\ [call EXCEPT ![a].form = r] \in [Admin -> [form : Request \cup {None}, photos : Request \cup {None}]]
           /\ \A b \in Admin : [call EXCEPT ![a].form = r][b].photos = call[b].photos
           /\ [call EXCEPT ![a].photos = r] \in [Admin -> [form : Request \cup {None}, photos : Request \cup {None}]]
           /\ \A b \in Admin : [call EXCEPT ![a].photos = r][b].photos = IF b = a THEN r ELSE call[b].photos
BY DEF PageTypes

LEMMA SameRows ==
    ASSUME UNCHANGED image
    PROVE  \A p : RowsOf(image', p) = RowsOf(image, p)
BY DEF RowsOf

\* A page opens or closes.
LEMMA GoToStep ==
    ASSUME PagesIInv, UNCHANGED serverVars, NEW a \in Admin, NEW where \in Product \cup {"list", "new"},
           NEW photos, GoTo(a, where, photos),
           IF where \in Product THEN product[where] # NoRow /\ photos = RowsOf(image, where)
           ELSE photos = NoRows
    PROVE  PagesIInv'
<1>1. PageTypes /\ IInv /\ PagesOK /\ OneEditor
  BY PagesAre
<1>2. /\ page' = [page EXCEPT ![a] = where] /\ view' = [view EXCEPT ![a] = photos]
      /\ call' = [call EXCEPT ![a] = Idle]
      /\ editor' = IF call[a].photos # None THEN "several" ELSE editor
      /\ UNCHANGED << product, image, pc, req, mine, raced >>
  BY DEF GoTo, serverVars, database, handlers
<1>3. photos \in Rows /\ Ids(NoRows) = {}
  BY <1>1, RowsOfIs, DatabaseIs, NoRowsIs
<1>4. /\ page'[a] = where /\ view'[a] = photos /\ call'[a].photos = None
      /\ \A b \in Admin \ {a} : page'[b] = page[b] /\ view'[b] = view[b] /\ call'[b] = call[b]
      /\ page' \in [Admin -> Product \cup {"list", "new"}] /\ view' \in [Admin -> Rows]
      /\ call' \in [Admin -> [form : Request \cup {None}, photos : Request \cup {None}]]
  BY <1>1, <1>2, <1>3 DEF PageTypes, Idle
<1>5. PageTypes'
  <2>1. ASSUME NEW b \in Admin, ~Edited(b)' PROVE Shown(b)' = {} /\ call'[b].photos = None
    <3>1. CASE b = a
      BY <1>3, <1>4, <2>1, <3>1 DEF Edited, Shown
    <3>2. CASE b # a
      BY <1>1, <1>4, <2>1, <3>2 DEF PageTypes, Edited, Shown, Ids
    <3> QED BY <3>1, <3>2
  <2> QED BY <1>1, <1>2, <1>4, <2>1 DEF PageTypes
<1>6. IInv'
  BY <1>1, StutterInv
<1>7. PagesOK'
  BY <1>1, <1>2, <1>4 DEF PagesOK, Edited, UnderWay
<1>8. OneEditor'
  <2> SUFFICES ASSUME editor' # "several" PROVE OneEditor'
    BY DEF OneEditor
  <2>1. editor' = editor /\ call[a].photos = None
    BY <1>2
  <2>2. \A b \in Admin : call'[b].photos = call[b].photos
    BY <1>4, <2>1
  <2>3. ASSUME NEW r \in Request, req'[r].op \in PhotoOp
        PROVE  /\ editor' \in Admin /\ call'[editor'].photos = r /\ page'[editor'] = Subject(r)'
               /\ pc'[r] = "loaded" => mine'[r] = RowsOf(image', Subject(r)')
    <3>1. /\ editor \in Admin /\ call[editor].photos = r /\ page[editor] = Subject(r)
          /\ pc[r] = "loaded" => mine[r] = RowsOf(image, Subject(r))
      BY <1>1, <1>2, <2>1, <2>3 DEF OneEditor
    <3>2. editor # a
      BY <2>1, <3>1, PagesAssumption
    <3> QED BY <1>2, <1>4, <2>1, <3>1, <3>2 DEF Subject
  <2>4. ASSUME NEW b \in Admin, editor' \in {None, b}, Edited(b)'
        PROVE  LET r == call'[b].photos
                   stored == RowsOf(image', page'[b])
               IN  IF r # None /\ pc'[r] \in {"deleting", "ok"} THEN mine'[r] = stored
                   ELSE (r # None => pc'[r] # "late_error") => view'[b] = stored
    <3>1. CASE b = a
      <4>1. where \in Product
        BY <1>4, <2>4, <3>1 DEF Edited
      <4> QED BY <1>2, <1>4, <3>1, <4>1, SameRows
    <3>2. CASE b # a
      BY <1>1, <1>2, <1>4, <2>1, <2>4, <3>2, SameRows DEF OneEditor, Edited
    <3> QED BY <3>1, <3>2
  <2> QED BY <1>1, <1>2, <2>1, <2>2, <2>3, <2>4 DEF OneEditor, Edited
<1> QED BY <1>5, <1>6, <1>7, <1>8, PagesAre

\* What follows leaves the pages as they are; only their calls and what they show change.
LEMMA StillTyped ==
    ASSUME PageTypes, page' = page, view' \in [Admin -> Rows],
           call' \in [Admin -> [form : Request \cup {None}, photos : Request \cup {None}]],
           \A a \in Admin : ~Edited(a) => view'[a] = view[a] /\ call'[a].photos = None,
           editor' \in Admin \cup {None, "several"}
    PROVE  PageTypes'
BY DEF PageTypes, Edited, Shown, Ids

\* A request that is not about photos sets out.
LEMMA ProductSent ==
    ASSUME PagesIInv, NEW r \in Request, pc[r] = "idle", Arrive(r), req'[r].op \notin PhotoOp,
           UNCHANGED << page, view, editor >>,
           call' \in [Admin -> [form : Request \cup {None}, photos : Request \cup {None}]],
           \A a \in Admin : call'[a].photos = call[a].photos
    PROVE  PagesIInv'
<1>1. PageTypes /\ IInv /\ PagesOK /\ OneEditor
  BY PagesAre
<1>2. /\ pc' = [pc EXCEPT ![r] = "sent"] /\ UNCHANGED << product, image, mine, raced >>
      /\ \A s \in Request \ {r} : req'[s] = req[s]
  BY <1>1, DatabaseIs DEF Arrive, PutProduct, PostCreate, PostActive, PostImages, PostPhoto, Send
<1>3. pc'[r] = "sent" /\ \A s \in Request \ {r} : pc'[s] = pc[s]
  BY <1>1, <1>2, DatabaseIs
<1>4. PageTypes'
  BY <1>1, StillTyped DEF PageTypes
<1>5. IInv'
  BY <1>1, ArriveStep
<1>6. \A a \in Admin : call[a].photos # r
  BY <1>1, PagesAssumption DEF PagesOK
<1>7. \A a \in Admin : call[a].photos \in Request \cup {None}
  BY <1>1 DEF PageTypes
<1>8. PagesOK'
  BY <1>1, <1>2, <1>3, <1>6, <1>7 DEF PagesOK, Edited, UnderWay
<1>9. OneEditor'
  <2> SUFFICES ASSUME editor # "several" PROVE OneEditor'
    BY DEF OneEditor
  <2>1. ASSUME NEW s \in Request, req'[s].op \in PhotoOp
        PROVE  /\ editor \in Admin /\ call'[editor].photos = s /\ page[editor] = Subject(s)'
               /\ pc'[s] = "loaded" => mine'[s] = RowsOf(image', Subject(s)')
    BY <1>1, <1>2, <1>3, <2>1 DEF OneEditor, Subject
  <2>2. ASSUME NEW b \in Admin, editor \in {None, b}, Edited(b)
        PROVE  LET s == call'[b].photos
                   stored == RowsOf(image', page[b])
               IN  IF s # None /\ pc'[s] \in {"deleting", "ok"} THEN mine'[s] = stored
                   ELSE (s # None => pc'[s] # "late_error") => view[b] = stored
    BY <1>1, <1>2, <1>3, <1>6, <1>7, <2>2, SameRows DEF OneEditor
  <2> QED BY <1>1, <1>2, <2>1, <2>2 DEF OneEditor, Edited
<1> QED BY <1>4, <1>5, <1>8, <1>9, PagesAre

\* A photo manager sends a request about its own photos.
LEMMA PhotosSent ==
    ASSUME PagesIInv, NEW a \in Admin, NEW r \in Request, Ready(a), pc[r] = "idle", Arrive(r),
           req'[r].op \in PhotoOp, Subject(r)' = page[a], Await(a, "photos", r), Edits(a)
    PROVE  PagesIInv'
<1>1. PageTypes /\ IInv /\ PagesOK /\ OneEditor
  BY PagesAre
<1>2. /\ pc' = [pc EXCEPT ![r] = "sent"] /\ UNCHANGED << product, image, mine, raced >>
      /\ \A s \in Request \ {r} : req'[s] = req[s]
  BY <1>1, DatabaseIs DEF Arrive, PutProduct, PostCreate, PostActive, PostImages, PostPhoto, Send
<1>3. pc'[r] = "sent" /\ \A s \in Request \ {r} : pc'[s] = pc[s]
  BY <1>1, <1>2, DatabaseIs
<1>4. /\ call' = [call EXCEPT ![a].photos = r] /\ UNCHANGED << page, view >>
      /\ call' \in [Admin -> [form : Request \cup {None}, photos : Request \cup {None}]]
      /\ \A b \in Admin : call'[b].photos = IF b = a THEN r ELSE call[b].photos
  BY <1>1, NewCalls DEF Await
<1>5. Edited(a) /\ call[a].photos = None
  BY DEF Ready
<1>6. PageTypes'
  BY <1>1, <1>4, <1>5, StillTyped DEF PageTypes, Edits
<1>7. IInv'
  BY <1>1, ArriveStep
<1>8. \A b \in Admin : call[b].photos # r /\ call[b].photos \in Request \cup {None}
  BY <1>1, PagesAssumption DEF PagesOK, PageTypes
<1>9. PagesOK'
  BY <1>1, <1>2, <1>3, <1>4, <1>8 DEF PagesOK, Edited, UnderWay
<1>10. OneEditor'
  <2> SUFFICES ASSUME editor' # "several" PROVE OneEditor'
    BY DEF OneEditor
  <2>1. editor \in {None, a} /\ editor' = a /\ editor # "several" /\ a # None
    BY PagesAssumption DEF Edits
  <2>2. \A b \in Admin \ {a} : call'[b].photos = None
    BY <1>1, <1>4, <2>1, PagesAssumption DEF OneEditor
  <2>3. \A s \in Request \ {r} : req[s].op \notin PhotoOp
    BY <1>1, <1>5, <2>1, PagesAssumption DEF OneEditor
  <2>4. ASSUME NEW s \in Request, req'[s].op \in PhotoOp
        PROVE  s = r /\ call'[a].photos = s /\ page[a] = Subject(s)' /\ pc'[s] # "loaded"
    BY <1>2, <1>3, <1>4, <2>3, <2>4
  <2>5. view[a] = RowsOf(image', page[a])
    BY <1>1, <1>2, <1>5, <2>1, SameRows DEF OneEditor
  <2> QED BY <1>1, <1>2, <1>3, <1>4, <2>1, <2>2, <2>4, <2>5 DEF OneEditor, Edited
<1> QED BY <1>6, <1>7, <1>9, <1>10, PagesAre

\* The answer to a photo call: the session, or nothing.
LEMMA PhotosAnsweredStep == ASSUME PagesIInv, NEW a \in Admin, PhotosAnswered(a) PROVE PagesIInv'
<1> DEFINE r == call[a].photos
<1>1. PageTypes /\ IInv /\ PagesOK /\ OneEditor
  BY PagesAre
<1>2. /\ r # None /\ pc[r] = "ok" /\ view' = [view EXCEPT ![a] = mine[r]]
      /\ mine' = [mine EXCEPT ![r] = NoRows] /\ call' = [call EXCEPT ![a].photos = None]
      /\ UNCHANGED << product, image, objects, drawn, pc, req, loaded, raced, page, editor >>
  BY DEF PhotosAnswered, database
<1>3. r \in Request /\ Edited(a)
  BY <1>1, <1>2 DEF PageTypes
<1>4. /\ mine'[r] = NoRows /\ mine' \in [Request -> Rows]
      /\ \A s \in Request \ {r} : mine'[s] = mine[s]
      /\ view'[a] = mine[r] /\ view' \in [Admin -> Rows]
      /\ \A b \in Admin \ {a} : view'[b] = view[b]
      /\ call' \in [Admin -> [form : Request \cup {None}, photos : Request \cup {None}]]
      /\ \A b \in Admin : call'[b].photos = IF b = a THEN None ELSE call[b].photos
  BY <1>1, <1>2, <1>3, NewCalls, NoRowsIs, DatabaseIs DEF PageTypes
<1>5. PageTypes'
  BY <1>1, <1>2, <1>3, <1>4, StillTyped DEF PageTypes
<1>6. IInv'
  <2>1. TypeOK'
    BY <1>1, <1>2, <1>4, DatabaseIs, TypedAgain
  <2>2. \A s \in Request : New(s)' = New(s) /\ Subject(s)' = Subject(s)
    BY <1>2 DEF New, Subject
  <2>3. ASSUME NEW s \in Request PROVE RequestOK(s)' /\ SessionOK(s)'
    <3>1. CASE s = r
      <4>1. RequestOK(r)
        BY <1>1, <1>3, RequestIs
      <4>2. pc'[r] = "ok" /\ req'[r] = req[r]
        BY <1>2
      <4> QED BY <1>2, <3>1, <4>1, <4>2 DEF RequestOK, SessionOK, UnderWay
    <3>2. CASE s # r
      BY <1>1, <1>2, <1>4, <2>2, <3>2, OthersStay
    <3> QED BY <3>1, <3>2
  <2>4. PhotosOK'
    <3>1. UNION {New(s)' : s \in Request} = UNION {New(s) : s \in Request} /\ Ids(image)' = Ids(image)
      BY <1>2, <2>2 DEF Ids
    <3> QED BY <1>1, <1>2, <2>2, <3>1, DatabaseIs DEF PhotosOK
  <2>5. PhotosInStep'
    BY <1>1, <1>2, DatabaseIs, RowsStay
  <2> QED BY <2>1, <2>3, <2>4, <2>5 DEF IInv
<1>7. PagesOK'
  BY <1>1, <1>2, <1>4 DEF PagesOK, Edited, UnderWay
<1>8. OneEditor'
  <2> SUFFICES ASSUME editor # "several" PROVE OneEditor'
    BY <1>2 DEF OneEditor
  <2>1. editor = a
    BY <1>1, <1>2, <1>3 DEF OneEditor
  <2>2. \A b \in Admin \ {a} : call[b].photos = None
    BY <1>1, <2>1 DEF OneEditor
  <2>3. \A s \in Request : req[s].op \notin PhotoOp
    <3> SUFFICES ASSUME NEW s \in Request, req[s].op \in PhotoOp PROVE FALSE
      OBVIOUS
    <3>1. s = r
      BY <1>1, <2>1 DEF OneEditor
    <3>2. req[s] = Nothing
      BY <1>1, <1>2, <3>1, RequestIs DEF RequestOK, UnderWay
    <3> QED BY <3>2, NothingIs DEF PhotoOp
  <2>4. mine[r] = RowsOf(image, page[a])
    BY <1>1, <1>2, <1>3, <2>1 DEF OneEditor
  <2>5. \A b \in Admin : editor \in {None, b} => b = a
    BY <2>1, PagesAssumption
  <2> QED BY <1>1, <1>2, <1>4, <2>1, <2>2, <2>3, <2>4, <2>5, SameRows DEF OneEditor, Edited
<1> QED BY <1>5, <1>6, <1>7, <1>8, PagesAre

LEMMA PhotosFailedStep == ASSUME PagesIInv, NEW a \in Admin, PhotosFailed(a) PROVE PagesIInv'
<1> DEFINE r == call[a].photos
<1>1. PageTypes /\ IInv /\ PagesOK /\ OneEditor
  BY PagesAre
<1>2. /\ r # None /\ call' = [call EXCEPT ![a].photos = None]
      /\ editor' = IF pc[r] = "error" THEN editor ELSE "several"
      /\ UNCHANGED << product, image, pc, req, mine, raced, page, view >>
  BY DEF PhotosFailed, serverVars, database, handlers
<1>3. r \in Request /\ Edited(a)
  BY <1>1, <1>2 DEF PageTypes
<1>4. /\ call' \in [Admin -> [form : Request \cup {None}, photos : Request \cup {None}]]
      /\ \A b \in Admin : call'[b].photos = IF b = a THEN None ELSE call[b].photos
  BY <1>1, <1>2, <1>3 DEF PageTypes
<1>5. PageTypes'
  BY <1>1, <1>2, <1>4, StillTyped DEF PageTypes
<1>6. IInv'
  BY <1>1, StutterInv DEF PhotosFailed
<1>7. PagesOK'
  BY <1>1, <1>2, <1>4 DEF PagesOK, Edited, UnderWay
<1>8. OneEditor'
  <2> SUFFICES ASSUME editor' # "several" PROVE OneEditor'
    BY DEF OneEditor
  <2>1. pc[r] = "error" /\ editor' = editor /\ editor = a
    BY <1>1, <1>2, <1>3 DEF OneEditor
  <2>2. \A b \in Admin \ {a} : call[b].photos = None
    BY <1>1, <1>2, <2>1 DEF OneEditor
  <2>3. \A s \in Request : req[s].op \notin PhotoOp
    <3> SUFFICES ASSUME NEW s \in Request, req[s].op \in PhotoOp PROVE FALSE
      OBVIOUS
    <3>1. s = r
      BY <1>1, <1>2, <2>1 DEF OneEditor
    <3>2. req[s] = Nothing
      BY <1>1, <2>1, <3>1, RequestIs DEF RequestOK, UnderWay
    <3> QED BY <3>2, NothingIs DEF PhotoOp
  <2>4. view[a] = RowsOf(image, page[a])
    BY <1>1, <1>2, <1>3, <2>1 DEF OneEditor
  <2>5. \A b \in Admin : editor \in {None, b} => b = a
    BY <2>1, PagesAssumption
  <2> QED BY <1>1, <1>2, <1>4, <2>1, <2>2, <2>3, <2>4, <2>5, SameRows DEF OneEditor, Edited
<1> QED BY <1>5, <1>6, <1>7, <1>8, PagesAre

\* A handler goes on behind the pages.
LEMMA ServerStepInv == ASSUME PagesIInv, NEW r \in Request, ServerStep(r) PROVE PagesIInv'
<1>1. PageTypes /\ IInv /\ PagesOK /\ OneEditor
  BY PagesAre
<1>2. (Handle(r) \/ Fail(r)) /\ UNCHANGED << page, view, call, editor >>
  BY DEF ServerStep, pages
<1>3. Serves(r)
  BY <1>1, <1>2, ProductServes, PhotoServes
<1>4. PageTypes'
  BY <1>1, <1>2 DEF PageTypes, Edited, Shown, Ids
<1>5. IInv'
  BY <1>1, <1>2, HandleStep, FailStep
<1>6. PagesOK'
  <2>1. ASSUME NEW a \in Admin, Edited(a) PROVE product'[page[a]] # NoRow
    BY <1>1, <1>3, <2>1 DEF PagesOK, Serves, Edited
  <2>2. ASSUME NEW a \in Admin, NEW s \in Request, call[a].photos = s
        PROVE  pc'[s] # "idle" /\ (UnderWay(s)' => req'[s].op \in PhotoOp)
    <3>1. pc[s] # "idle" /\ (UnderWay(s) => req[s].op \in PhotoOp)
      BY <1>1, <2>2, PagesAssumption DEF PagesOK
    <3>2. CASE s = r
      BY <1>3, <3>1, <3>2 DEF Serves
    <3>3. CASE s # r
      BY <1>3, <3>1, <3>3 DEF Serves, UnderWay
    <3> QED BY <3>2, <3>3
  <2>3. \A a \in Admin : call[a].photos \in Request \cup {None}
    BY <1>1 DEF PageTypes
  <2> QED BY <1>2, <2>1, <2>2, <2>3 DEF PagesOK, Edited, UnderWay
<1>7. OneEditor'
  <2> SUFFICES ASSUME editor # "several" PROVE OneEditor'
    BY <1>2 DEF OneEditor
  <2>1. /\ raced = {} /\ \A a \in Admin \ {editor} : call[a].photos = None
        /\ \A s \in Request : req[s].op \in PhotoOp =>
             /\ editor \in Admin /\ call[editor].photos = s /\ page[editor] = Subject(s)
             /\ pc[s] = "loaded" => mine[s] = RowsOf(image, Subject(s))
        /\ \A a \in Admin : editor \in {None, a} /\ Edited(a) =>
             LET s == call[a].photos
                 stored == RowsOf(image, page[a])
             IN  IF s # None /\ pc[s] \in {"deleting", "ok"} THEN mine[s] = stored
                 ELSE (s # None => pc[s] # "late_error") => view[a] = stored
    BY <1>1 DEF OneEditor
  <2>2. \A a \in Admin : call[a].photos \in Request \cup {None} /\ (Edited(a) => product[page[a]] # NoRow)
    BY <1>1 DEF PageTypes, PagesOK
  <2>3. \A s \in Request \ {r} : pc'[s] = pc[s] /\ req'[s] = req[s] /\ mine'[s] = mine[s] /\ Subject(s)' = Subject(s)
    BY <1>3 DEF Serves, Subject
  <2>4. CASE req[r].op \notin PhotoOp
    <3>1. Elsewhere
      BY <1>1, <1>2, <2>4, ProductServes
    <3>2. \A a \in Admin : call[a].photos # r
      BY <1>1, <1>3, <2>4, PagesAssumption DEF PagesOK, Serves
    <3>3. req'[r].op \notin PhotoOp
      <4>1. UnderWay(r)' => req'[r].op = req[r].op
        BY <1>3 DEF Serves
      <4>2. ~UnderWay(r)' => req'[r] = Nothing
        BY <1>5 DEF IInv, RequestOK
      <4> QED BY <2>4, <4>1, <4>2, NothingIs DEF PhotoOp
    <3>4. ASSUME NEW s \in Request, req'[s].op \in PhotoOp
          PROVE  /\ editor \in Admin /\ call[editor].photos = s /\ page[editor] = Subject(s)'
                 /\ pc'[s] = "loaded" => mine'[s] = RowsOf(image', Subject(s)')
      <4>1. s # r /\ req[s].op \in PhotoOp
        BY <2>3, <3>3, <3>4
      <4>2. pc[s] = "loaded" => Subject(s) \in Product /\ product[Subject(s)] # NoRow
        BY <1>1, <4>1, RequestIs, ProductRowIs DEF UnderWay, PhotoOp
      <4> QED BY <2>1, <2>3, <3>1, <4>1, <4>2 DEF Elsewhere
    <3>5. ASSUME NEW a \in Admin, editor \in {None, a}, Edited(a)
          PROVE  LET s == call[a].photos
                     stored == RowsOf(image', page[a])
                 IN  IF s # None /\ pc'[s] \in {"deleting", "ok"} THEN mine'[s] = stored
                     ELSE (s # None => pc'[s] # "late_error") => view[a] = stored
      <4>1. RowsOf(image', page[a]) = RowsOf(image, page[a])
        BY <2>2, <3>1, <3>5 DEF Elsewhere, Edited
      <4> QED BY <2>1, <2>2, <2>3, <3>2, <3>5, <4>1
    <3>6. raced' = {}
      BY <2>1, <3>1 DEF Elsewhere
    <3> QED BY <1>2, <2>1, <3>4, <3>5, <3>6 DEF OneEditor, Edited
  <2>5. CASE req[r].op \in PhotoOp
    <3> DEFINE p == Subject(r)
    <3>1. /\ editor \in Admin /\ call[editor].photos = r /\ page[editor] = p /\ r # None /\ editor # None
          /\ pc[r] = "loaded" => mine[r] = RowsOf(image, p)
      BY <2>1, <2>5, PagesAssumption
    <3>2. p \in Product /\ Edited(editor)
      BY <1>1, <1>3, <3>1, RequestIs DEF Serves, Edited
    <3>3. /\ pc[r] \in {"sent", "loaded"} => view[editor] = RowsOf(image, p)
          /\ pc[r] = "deleting" => mine[r] = RowsOf(image, p)
      BY <2>1, <3>1, <3>2
    <3>4. /\ raced' = {}
          /\ pc'[r] = "loaded" => mine'[r] = RowsOf(image', p)
          /\ IF pc'[r] \in {"deleting", "ok"} THEN mine'[r] = RowsOf(image', p)
             ELSE pc'[r] # "late_error" => view[editor] = RowsOf(image', p)
      <4>1. CASE Rejected(r)
        BY <2>1, <3>3, <4>1, SameRows DEF Rejected
      <4>2. CASE Loaded(r)
        BY <2>1, <3>3, <4>2, SameRows DEF Loaded
      <4>3. CASE Deleted(r)
        BY <2>1, <3>3, <4>3, SameRows DEF Deleted
      <4>4. CASE pc[r] = "loaded" /\ Leaves(r)
        <5>1. raced' = {}
          BY <2>1, <3>1, <4>4 DEF Leaves, Overtaken
        <5> QED BY <3>3, <4>4, <5>1, SameRows DEF Leaves
      <4> QED BY <1>1, <1>2, <2>5, <4>1, <4>2, <4>3, <4>4, PhotoServes
    <3>5. ASSUME NEW s \in Request, req'[s].op \in PhotoOp
          PROVE  s = r /\ Subject(r)' = p
      <4>1. s = r
        BY <2>1, <2>3, <3>1, <3>5
      <4>2. UnderWay(r)'
        <5>1. ~UnderWay(r)' => req'[r] = Nothing
          BY <1>5 DEF IInv, RequestOK
        <5> QED BY <3>5, <4>1, <5>1, NothingIs DEF PhotoOp
      <4> QED BY <1>3, <4>1, <4>2 DEF Serves
    <3> QED BY <1>2, <2>1, <3>1, <3>4, <3>5 DEF OneEditor, Edited
  <2> QED BY <2>4, <2>5
<1> QED BY <1>4, <1>5, <1>6, <1>7, PagesAre

\* What a page sends is what the server of ProductCatalog may receive.
LEMMA PageArrives ==
    ASSUME NEW r \in Request, NEW p \in Product
    PROVE  /\ \A c \in Code : PutProduct(r, p, c) => Arrive(r) /\ pc[r] = "idle"
           /\ \A c \in Code, new \in Upload : PostCreate(r, p, c, new) => Arrive(r) /\ pc[r] = "idle"
           /\ \A op \in {"delete", "restore"} : PostActive(r, p, op) => Arrive(r) /\ pc[r] = "idle"
           /\ \A new \in Upload : PostImages(r, p, new) => Arrive(r) /\ pc[r] = "idle"
           /\ \A f \in Photo, op \in {"remove", "primary"} : PostPhoto(r, p, op, f) => Arrive(r) /\ pc[r] = "idle"
<1> USE DEF Send, Arrive
<1>1. \A c \in Code : PutProduct(r, p, c) => Arrive(r) /\ pc[r] = "idle"
  BY DEF PutProduct
<1>2. \A c \in Code, new \in Upload : PostCreate(r, p, c, new) => Arrive(r) /\ pc[r] = "idle"
  BY DEF PostCreate
<1>3. \A op \in {"delete", "restore"} : PostActive(r, p, op) => Arrive(r) /\ pc[r] = "idle"
  BY DEF PostActive
<1>4. \A new \in Upload : PostImages(r, p, new) => Arrive(r) /\ pc[r] = "idle"
  BY DEF PostImages
<1>5. \A f \in Photo, op \in {"remove", "primary"} : PostPhoto(r, p, op, f) => Arrive(r) /\ pc[r] = "idle"
  BY DEF PostPhoto
<1> QED BY <1>1, <1>2, <1>3, <1>4, <1>5

\* And what it asks for.
LEMMA SentIs ==
    ASSUME IInv, NEW r \in Request, NEW op, NEW p, NEW c, NEW new, NEW f, Send(r, op, p, c, new, f)
    PROVE  req'[r].op = op /\ Subject(r)' = p
BY DatabaseIs DEF Send, Subject

LEMMA PageStepInv == ASSUME PagesIInv, NEW a \in Admin, PageStep(a) PROVE PagesIInv' /\ Refines
<1>1. PageTypes /\ IInv /\ PagesOK /\ OneEditor /\ image \in Rows
  BY PagesAre, DatabaseIs
<1>2. ASSUME UNCHANGED serverVars PROVE Refines
  BY <1>2, SameProducts DEF serverVars, database
<1>3. CASE OpenNew(a) \/ Leave(a) \/ FormAnswered(a)
  <2>1. UNCHANGED serverVars /\ \E where \in {"list", "new"} : GoTo(a, where, NoRows)
    BY <1>3 DEF OpenNew, Leave, FormAnswered
  <2> QED BY <1>2, <2>1, GoToStep, PagesAssumption
<1>4. CASE \E p \in Product : OpenEdit(a, p)
  BY <1>2, <1>4, GoToStep DEF OpenEdit
<1>5. CASE FormFailed(a)
  <2>1. /\ call' = [call EXCEPT ![a].form = None] /\ UNCHANGED << page, view, serverVars, editor >>
    BY <1>5 DEF FormFailed, Await
  <2>2. /\ call' \in [Admin -> [form : Request \cup {None}, photos : Request \cup {None}]]
        /\ \A b \in Admin : call'[b].photos = call[b].photos
    BY <1>1, <2>1 DEF PageTypes
  <2>3. PageTypes'
    BY <1>1, <2>1, <2>2, StillTyped DEF PageTypes
  <2>4. UNCHANGED << product, image, pc, req, mine, raced >>
    BY <2>1 DEF serverVars, database, handlers
  <2>5. PagesOK' /\ OneEditor'
    BY <1>1, <2>1, <2>2, <2>4 DEF PagesOK, OneEditor, Edited, UnderWay, Subject, RowsOf
  <2> QED BY <1>1, <1>2, <2>1, <2>3, <2>5, StutterInv, PagesAre
<1>6. CASE PhotosAnswered(a)
  BY <1>6, PhotosAnsweredStep, SameProducts DEF PhotosAnswered, database
<1>7. CASE PhotosFailed(a)
  BY <1>2, <1>7, PhotosFailedStep DEF PhotosFailed
<1>8. ASSUME NEW r \in Request, SubmitCreate(a, r) \/ SubmitUpdate(a, r) PROVE PagesIInv' /\ Refines
  <2>1. call' = [call EXCEPT ![a].form = r] /\ UNCHANGED << page, view, editor >>
    BY <1>8 DEF SubmitCreate, SubmitUpdate, Await
  <2>2. /\ call' \in [Admin -> [form : Request \cup {None}, photos : Request \cup {None}]]
        /\ \A b \in Admin : call'[b].photos = call[b].photos
    BY <1>1, <1>8, <2>1 DEF PageTypes
  <2>3. Arrive(r) /\ pc[r] = "idle" /\ req'[r].op \notin PhotoOp
    <3>1. CASE SubmitCreate(a, r)
      <4>1. PICK p \in Product, c \in Code, new \in Upload : PostCreate(r, p, c, new)
        BY <3>1 DEF SubmitCreate, NewProducts, ChosenFiles
      <4> QED BY <1>1, <4>1, PageArrives, SentIs DEF PostCreate, PhotoOp
    <3>2. CASE SubmitUpdate(a, r)
      BY <1>1, <3>2, PageArrives, SentIs DEF SubmitUpdate, Edited, PutProduct, PhotoOp
    <3> QED BY <1>8, <3>1, <3>2
  <2> QED BY <2>1, <2>2, <2>3, ProductSent, ArriveOrFailRefines
<1>9. ASSUME NEW r \in Request, NEW p \in Product, NEW op \in {"delete", "restore"}, PostFromList(a, r, p, op)
      PROVE  PagesIInv' /\ Refines
  <2>1. Arrive(r) /\ pc[r] = "idle" /\ req'[r].op \notin PhotoOp
    BY <1>1, <1>9, PageArrives, SentIs DEF PostFromList, PostActive, PhotoOp
  <2>2. UNCHANGED << page, view, call, editor >>
    BY <1>9 DEF PostFromList, pages
  <2> QED BY <1>1, <2>1, <2>2, ProductSent, ArriveOrFailRefines DEF PageTypes
<1>10. ASSUME NEW r \in Request, HandleAdd(a, r) \/ HandleDelete(a, r) \/ HandleSetPrimary(a, r)
       PROVE  PagesIInv' /\ Refines
  <2>1. Ready(a) /\ Await(a, "photos", r) /\ Edits(a) /\ page[a] \in Product
    BY <1>10 DEF HandleAdd, HandleDelete, HandleSetPrimary, Ready, Edited
  <2>2. Arrive(r) /\ pc[r] = "idle" /\ req'[r].op \in PhotoOp /\ Subject(r)' = page[a]
    <3>1. CASE HandleAdd(a, r)
      <4>1. PICK new \in Upload : PostImages(r, page[a], new)
        BY <3>1 DEF HandleAdd, ChosenFiles
      <4> QED BY <1>1, <2>1, <4>1, PageArrives, SentIs DEF PostImages, PhotoOp
    <3>2. CASE HandleDelete(a, r) \/ HandleSetPrimary(a, r)
      <4>1. PICK f \in Photo, op \in {"remove", "primary"} : PostPhoto(r, page[a], op, f)
        BY <3>2 DEF HandleDelete, HandleSetPrimary, Shown, Ids, Primaries
      <4> QED BY <1>1, <2>1, <4>1, PageArrives, SentIs DEF PostPhoto, PhotoOp
    <3> QED BY <1>10, <3>1, <3>2
  <2> QED BY <2>1, <2>2, PhotosSent, ArriveOrFailRefines
<1> QED BY <1>3, <1>4, <1>5, <1>6, <1>7, <1>8, <1>9, <1>10 DEF PageStep

-----------------------------------------------------------------------------
(* The theorems.                                                           *)

LEMMA PagesInitInv == PagesInit => PagesIInv
<1> SUFFICES ASSUME PagesInit PROVE PagesIInv
  OBVIOUS
<1>1. IInv
  BY InitInv DEF PagesInit
<1>2. /\ page = [a \in Admin |-> "list"] /\ view = [a \in Admin |-> NoRows]
      /\ call = [a \in Admin |-> Idle] /\ editor = None /\ raced = {}
      /\ \A r \in Request : req[r] = Nothing
  BY DEF PagesInit, Init
<1>3. PageTypes /\ \A a \in Admin : ~Edited(a) /\ call[a].photos = None
  BY <1>2, NoRowsIs, PagesAssumption DEF PageTypes, Idle, Edited, Shown
<1>4. PagesOK
  BY <1>3 DEF PagesOK
<1>5. OneEditor
  BY <1>2, <1>3, NothingIs DEF OneEditor, PhotoOp
<1> QED BY <1>1, <1>3, <1>4, <1>5, PagesAre

LEMMA PagesStutter == ASSUME PagesIInv, UNCHANGED vars PROVE PagesIInv' /\ Refines
<1>1. PageTypes /\ IInv /\ PagesOK /\ OneEditor
  BY PagesAre
<1>2. UNCHANGED << product, image, pc, req, mine, raced, page, view, call, editor, serverVars >>
  BY DEF vars, pages, serverVars, database, handlers
<1>3. PageTypes' /\ PagesOK' /\ OneEditor'
  BY <1>1, <1>2 DEF PageTypes, PagesOK, OneEditor, Edited, Shown, Ids, UnderWay, Subject, RowsOf
<1> QED BY <1>1, <1>2, <1>3, StutterInv, SameProducts, PagesAre

LEMMA PagesNextInv == PagesIInv /\ [PagesNext]_vars => PagesIInv' /\ Refines
<1> SUFFICES ASSUME PagesIInv, [PagesNext]_vars PROVE PagesIInv' /\ Refines
  OBVIOUS
<1>1. ASSUME NEW r \in Request, ServerStep(r) PROVE PagesIInv' /\ Refines
  BY <1>1, ServerStepInv, HandleRefines, ArriveOrFailRefines DEF ServerStep, PagesIInv
<1> QED BY <1>1, PageStepInv, PagesStutter DEF PagesNext

\* Every state of the pages and the server satisfies the inductive invariant.
THEOREM PagesInvariance == PagesSpec => []PagesIInv
<1>1. PagesInit => PagesIInv
  BY PagesInitInv
<1>2. PagesIInv /\ [PagesNext]_vars => PagesIInv'
  BY PagesNextInv
<1> QED BY <1>1, <1>2, PTL DEF PagesSpec

\* As long as a single administrator changes photos and hears of the end of every call,
\* the photos of no product are raced and the photo manager (ProductImageManager.tsx)
\* shows what is stored.
THEOREM LonePage == PagesSpec => []LonePageShowsStored
<1>1. PagesIInv => LonePageShowsStored
  BY PagesAssumption DEF PagesIInv, OneEditor, LonePageShowsStored, Ready
<1> QED BY <1>1, PagesInvariance, PTL

\* Whatever the pages ask for and whatever fails, the file of every photo row is stored,
\* and that of a cover too unless requests on the photos of its product have overlapped.
THEOREM PhotosCanBeFetchedByPages == PagesSpec => []PhotoFilesExist
<1>1. PagesIInv => PhotoFilesExist
  BY FilesOfRows DEF PagesIInv
<1> QED BY <1>1, PagesInvariance, PTL

\* A product that the pages edit keeps at least one photo and at most the maximum, and its
\* cover is its primary one, unless requests on its photos have overlapped.
THEOREM CoverIsPrimaryForPages == PagesSpec => []PhotosInStep
<1>1. PagesIInv => PhotosInStep
  BY DEF PagesIInv, IInv
<1> QED BY <1>1, PagesInvariance, PTL

\* What the pages do to barcodes is a run of the catalog that assigns them in one step.
THEOREM PagesImplementBarcodes == PagesSpec => ImplementsBarcodeCatalog
<1>1. PagesInit => Barcodes!Init
  BY InitRefines DEF PagesInit
<1>2. PagesIInv /\ [PagesNext]_vars => [Barcodes!Next]_(Barcodes!catalog)
  BY PagesNextInv DEF Refines
<1> QED BY <1>1, <1>2, PagesInvariance, PTL DEF PagesSpec, ImplementsBarcodeCatalog, Barcodes!Spec
=============================================================================
