------------------------ MODULE ProductCatalogProofs ------------------------
(***************************************************************************)
(* Proofs about ProductCatalog, for any products, photos, barcodes and     *)
(* requests, and any limit of photos.                                      *)
(***************************************************************************)
EXTENDS ProductCatalog, FiniteSetTheorems, TLAPS

(* Rows.                                                                   *)

Rows == [Photo -> ImageRow \cup {NoRow}]

LEMMA ProductRowIs ==
    ASSUME NEW x \in ProductRow
    PROVE  /\ x # NoRow /\ x.code \in Code /\ x.active \in BOOLEAN /\ x.cover \in Photo
           /\ \A c \in Code : /\ [x EXCEPT !.code = c] \in ProductRow /\ [x EXCEPT !.code = c].code = c
                              /\ [x EXCEPT !.code = c].active = x.active
                              /\ [x EXCEPT !.code = c].cover = x.cover
           /\ \A a \in BOOLEAN : /\ [x EXCEPT !.active = a] \in ProductRow /\ [x EXCEPT !.active = a].code = x.code
                                 /\ [x EXCEPT !.active = a].active = a
                                 /\ [x EXCEPT !.active = a].cover = x.cover
           /\ \A f \in Photo : /\ [x EXCEPT !.cover = f] \in ProductRow /\ [x EXCEPT !.cover = f].code = x.code
                               /\ [x EXCEPT !.cover = f].active = x.active
                               /\ [x EXCEPT !.cover = f].cover = f
BY NoRowAssumption DEF ProductRow

LEMMA ImageRowIs ==
    ASSUME NEW x \in ImageRow
    PROVE  /\ x # NoRow /\ x.product \in Product /\ x.primary \in BOOLEAN /\ x.position \in Nat
           /\ \A a \in BOOLEAN : /\ [x EXCEPT !.primary = a] \in ImageRow
                                 /\ [x EXCEPT !.primary = a].product = x.product
                                 /\ [x EXCEPT !.primary = a].primary = a
                                 /\ [x EXCEPT !.primary = a].position = x.position
BY NoRowAssumption DEF ImageRow

LEMMA RowsOfIs ==
    ASSUME NEW rows \in Rows, NEW p \in Product
    PROVE  /\ RowsOf(rows, p) \in Rows
           /\ Ids(RowsOf(rows, p)) = {f \in Ids(rows) : rows[f].product = p}
           /\ \A f \in Ids(RowsOf(rows, p)) : RowsOf(rows, p)[f] = rows[f]
           /\ Primaries(RowsOf(rows, p)) = {f \in Ids(rows) : rows[f].product = p /\ rows[f].primary}
           /\ IsFiniteSet(Ids(rows)) /\ Ids(rows) \subseteq Photo
           /\ \A f \in Ids(rows) : rows[f] \in ImageRow
<1> DEFINE of == RowsOf(rows, p)
<1>1. of \in Rows /\ \A f \in Photo : of[f] = IF rows[f] # NoRow /\ rows[f].product = p THEN rows[f] ELSE NoRow
  BY DEF Rows, RowsOf
<1> HIDE DEF of
<1>2. Ids(rows) \subseteq Photo /\ IsFiniteSet(Ids(rows))
  <2>1. Ids(rows) \in SUBSET Photo
    BY DEF Ids
  <2> QED BY <2>1, FS_Subset, ImagesAssumption
<1>3. \A f \in Ids(rows) : rows[f] \in ImageRow
  BY DEF Ids, Rows
<1>4. Ids(of) = {f \in Ids(rows) : rows[f].product = p}
  BY <1>1 DEF Ids
<1>5. \A f \in Ids(of) : of[f] = rows[f]
  BY <1>1 DEF Ids
<1>6. Primaries(of) = {f \in Ids(rows) : rows[f].product = p /\ rows[f].primary}
  BY <1>4, <1>5 DEF Primaries
<1> QED BY <1>1, <1>2, <1>3, <1>4, <1>5, <1>6 DEF of

LEMMA NoRowsIs == NoRows \in Rows /\ Ids(NoRows) = {}
BY DEF NoRows, Rows, Ids

\* The photos of an upload.
Of(new) == {new[i] : i \in DOMAIN new}

LEMMA UploadIs ==
    ASSUME NEW new \in Upload
    PROVE  /\ Len(new) \in 1..MaxImages /\ DOMAIN new = 1..Len(new) /\ new[1] \in Of(new)
           /\ Of(new) \subseteq Photo /\ Of(new) # {} /\ new # << >>
           /\ IsFiniteSet(Of(new)) /\ Cardinality(Of(new)) = Len(new)
<1>1. PICK n \in 1..MaxImages : new \in [1..n -> Photo]
  BY DEF Upload
<1>2. \A i, j \in DOMAIN new : new[i] = new[j] => i = j
  BY DEF Upload
<1>3. n \in Nat /\ n >= 1 /\ DOMAIN new = 1..n /\ Len(new) = n /\ new \in Seq(Photo)
  BY <1>1, ImagesAssumption
<1>4. new[1] \in Of(new) /\ Of(new) \subseteq Photo
  BY <1>1, <1>3 DEF Of
<1>5. new \in Bijection(1..n, Of(new))
  <2>1. new \in [1..n -> Of(new)]
    BY <1>1 DEF Of
  <2>2. \A y \in Of(new) : \E i \in 1..n : new[i] = y
    BY <1>3 DEF Of
  <2> QED BY <1>2, <1>3, <2>1, <2>2 DEF Bijection, Injection, Surjection, IsInjective
<1>6. IsFiniteSet(1..n) /\ Cardinality(1..n) = n
  BY <1>3, FS_Interval
<1>7. IsFiniteSet(Of(new)) /\ Cardinality(Of(new)) = n
  BY <1>5, <1>6, FS_Bijection DEF ExistsBijection
<1> QED BY <1>1, <1>3, <1>4, <1>7

LEMMA NewRowsIs ==
    ASSUME NEW p \in Product, NEW new \in Upload, NEW first \in Nat, NEW w \in BOOLEAN
    PROVE  LET rows == NewRows(p, new, first, w) IN
           /\ rows \in Rows /\ Ids(rows) = Of(new)
           /\ \A f \in Of(new) : rows[f].product = p
           /\ Primaries(rows) = IF w THEN {new[1]} ELSE {}
<1> DEFINE rows == NewRows(p, new, first, w)
           row(f) == [product |-> p, primary |-> w /\ f = new[1],
                      position |-> first + (CHOOSE j \in DOMAIN new : new[j] = f) - 1]
<1>1. \A f \in Photo : rows[f] = IF f \in Of(new) THEN row(f) ELSE NoRow
  BY DEF NewRows, Of
<1>2. ASSUME NEW f \in Of(new) PROVE row(f) \in ImageRow
  <2> DEFINE j == CHOOSE j \in DOMAIN new : new[j] = f
  <2>1. j \in 1..Len(new) /\ Len(new) \in Nat
    BY UploadIs, ImagesAssumption DEF Of
  <2> HIDE DEF j
  <2>2. first + j - 1 \in Nat
    BY <2>1
  <2>3. (w /\ f = new[1]) \in BOOLEAN
    OBVIOUS
  <2> QED BY <2>2, <2>3 DEF ImageRow, j
<1>3. rows \in Rows
  <2>1. \A f \in Photo : rows[f] \in ImageRow \cup {NoRow}
    BY <1>1, <1>2
  <2> QED BY <2>1 DEF NewRows, Rows
<1>4. Ids(rows) = Of(new)
  <2>1. Of(new) \subseteq Photo
    BY UploadIs
  <2>2. \A f \in Photo : f \in Of(new) => rows[f] \in ImageRow
    BY <1>1, <1>2
  <2>3. \A f \in Photo : f \notin Of(new) => rows[f] = NoRow
    BY <1>1
  <2> HIDE DEF rows
  <2> QED BY <2>1, <2>2, <2>3, NoRowAssumption DEF Ids
<1>5. \A f \in Of(new) : rows[f] = row(f)
  BY <1>1, UploadIs
<1>6. ASSUME NEW f \in Of(new) PROVE rows[f].product = p /\ rows[f].primary = (w /\ f = new[1])
  <2> DEFINE b == w /\ f = new[1]
             n == first + (CHOOSE j \in DOMAIN new : new[j] = f) - 1
  <2>1. rows[f] = [product |-> p, primary |-> b, position |-> n]
    BY <1>5
  <2> HIDE DEF b, n, rows
  <2>2. rows[f].product = p /\ rows[f].primary = b
    BY <2>1
  <2> QED BY <2>2 DEF b
<1> HIDE DEF rows
<1>7. Primaries(rows) = IF w THEN {new[1]} ELSE {}
  BY <1>4, <1>6, UploadIs DEF Primaries
<1> QED BY <1>3, <1>4, <1>6, <1>7 DEF rows

\* A set of numbers that is finite and not empty has a greatest one: its least bound.
LEMMA Greatest ==
    ASSUME NEW rows \in Rows, Ids(rows) # {}
    PROVE  \E f \in Ids(rows) : \A g \in Ids(rows) : rows[g].position <= rows[f].position
<1> DEFINE R == StrictSubsetOrdering(Photo)
           T == {S \in FiniteSubsetsOf(Photo) :
                   S # {} /\ S \subseteq Ids(rows)
                   /\ ~\E f \in S : \A g \in S : rows[g].position <= rows[f].position}
<1> SUFFICES ASSUME T # {} PROVE FALSE
  <2>1. Ids(rows) \in FiniteSubsetsOf(Photo)
    BY RowsOfIs, ImagesAssumption, FS_Subset DEF FiniteSubsetsOf, Ids
  <2> QED BY <2>1
<1>1. PICK S \in T : \A U \in T : ~(<< U, S >> \in R)
  <2>1. IsWellFoundedOn(R, FiniteSubsetsOf(Photo))
    BY FS_StrictSubsetOrderingWellFounded
  <2>2. T \subseteq FiniteSubsetsOf(Photo)
    OBVIOUS
  <2> HIDE DEF T, R
  <2> QED BY <2>1, <2>2, WFMin
<1>2. S \subseteq Ids(rows) /\ S \subseteq Photo /\ IsFiniteSet(S)
  BY DEF FiniteSubsetsOf
<1>3. PICK x \in S : TRUE
  OBVIOUS
<1>4. \A f \in S : rows[f].position \in Nat
  BY <1>2 DEF Ids, Rows, ImageRow
<1> DEFINE U == S \ {x}
<1>5. U # {}
  BY <1>3, <1>4
<1>6. \E f \in U : \A g \in U : rows[g].position <= rows[f].position
  <2>1. IsFiniteSet(U) /\ U \subseteq Photo /\ U \subseteq Ids(rows)
    BY <1>2, FS_RemoveElement
  <2>2. << U, S >> \in R
    BY <1>2, <1>3, <2>1 DEF StrictSubsetOrdering
  <2>3. U \notin T
    BY <1>1, <2>2
  <2> QED BY <1>5, <2>1, <2>3 DEF FiniteSubsetsOf
<1>7. PICK f \in U : \A g \in U : rows[g].position <= rows[f].position
  BY <1>6
<1>8. \E h \in {f, x} : \A g \in S : rows[g].position <= rows[h].position
  <2>1. CASE rows[f].position <= rows[x].position
    BY <1>3, <1>4, <1>7, <2>1
  <2>2. CASE ~(rows[f].position <= rows[x].position)
    BY <1>3, <1>4, <1>7, <2>2
  <2> QED BY <2>1, <2>2
<1> QED BY <1>3, <1>7, <1>8

LEMMA NextPositionIs == ASSUME NEW rows \in Rows PROVE NextPosition(rows) \in Nat
<1>1. CASE Ids(rows) = {}
  BY <1>1 DEF NextPosition
<1>2. CASE Ids(rows) # {}
  <2> DEFINE P == {rows[f].position : f \in Ids(rows)}
             n == CHOOSE n \in P : \A f \in Ids(rows) : rows[f].position <= n
  <2>1. n \in P
    BY <1>2, Greatest
  <2>2. \A m \in P : m \in Nat
    BY DEF Ids, Rows, ImageRow
  <2>3. n \in Nat
    BY <2>1, <2>2
  <2>4. NextPosition(rows) = 1 + n
    BY <1>2 DEF NextPosition
  <2> HIDE DEF n
  <2> QED BY <2>3, <2>4
<1> QED BY <1>1, <1>2

-----------------------------------------------------------------------------
(* Requests.                                                               *)

Steps == {"idle", "sent", "loaded", "deleting", "ok", "error", "late_error"}

LEMMA NothingIs ==
    /\ Nothing \in Ask /\ Nothing.op = "update" /\ Nothing.product = NoRow
    /\ Nothing.new = << >> /\ Of(<< >>) = {}
BY DEF Nothing, Ask, Op, Code, Of

LEMMA RequestIs ==
    ASSUME IInv, NEW r \in Request
    PROVE  /\ req[r] \in Ask /\ req[r].op \in Op /\ req[r].code \in Code /\ Subject(r) \in Product \cup {NoRow}
           /\ req[r].new \in Upload \cup {<< >>} /\ req[r].target \in Photo \cup {NoRow}
           /\ New(r) = Of(req[r].new) /\ New(r) \subseteq Photo
           /\ mine[r] \in Rows /\ loaded[r] \in ProductRow \cup {NoRow}
           /\ RequestOK(r) /\ SessionOK(r)
           /\ UnderWay(r) => Subject(r) \in Product
           /\ UnderWay(r) /\ req[r].op # "create" => product[Subject(r)] \in ProductRow
           /\ UnderWay(r) /\ req[r].op \in {"create", "add"} => req[r].new \in Upload
           /\ UnderWay(r) /\ req[r].op \notin {"create", "add"} => New(r) = {}
<1>1. req[r] \in Ask /\ mine[r] \in Rows /\ loaded[r] \in ProductRow \cup {NoRow}
  BY DEF IInv, TypeOK, Rows
<1>2. /\ req[r].op \in Op /\ req[r].code \in Code /\ Subject(r) \in Product \cup {NoRow}
      /\ req[r].new \in Upload \cup {<< >>} /\ req[r].target \in Photo \cup {NoRow}
  BY <1>1 DEF Ask, Subject
<1>3. New(r) = Of(req[r].new)
  BY DEF New, Of
<1>4. New(r) \subseteq Photo
  BY <1>2, <1>3, UploadIs, NothingIs
<1>5. RequestOK(r) /\ SessionOK(r)
  BY DEF IInv
<1>6. UnderWay(r) => Subject(r) \in Product
  BY <1>5 DEF RequestOK
<1>7. UnderWay(r) /\ req[r].op # "create" => product[Subject(r)] \in ProductRow
  BY <1>5, <1>6 DEF RequestOK, IInv, TypeOK
<1>8. UnderWay(r) /\ req[r].op \in {"create", "add"} => req[r].new \in Upload
  BY <1>2, <1>3, <1>5, NothingIs DEF RequestOK
<1>9. UnderWay(r) /\ req[r].op \notin {"create", "add"} => New(r) = {}
  BY <1>5 DEF RequestOK
<1> QED BY <1>1, <1>2, <1>3, <1>4, <1>5, <1>6, <1>7, <1>8, <1>9

LEMMA DatabaseIs ==
    ASSUME IInv
    PROVE  /\ product \in [Product -> ProductRow \cup {NoRow}] /\ image \in Rows
           /\ drawn \subseteq Photo /\ objects \subseteq drawn /\ raced \subseteq Product
           /\ pc \in [Request -> Steps] /\ req \in [Request -> Ask]
           /\ loaded \in [Request -> ProductRow \cup {NoRow}] /\ mine \in [Request -> Rows]
           /\ PhotosOK /\ PhotosInStep
           /\ Ids(image) \subseteq objects
BY DEF IInv, TypeOK, Rows, Steps, PhotosOK, Ids

LEMMA TypedAgain ==
    ASSUME product' \in [Product -> ProductRow \cup {NoRow}], image' \in Rows,
           drawn' \subseteq Photo, objects' \subseteq drawn', raced' \subseteq Product,
           pc' \in [Request -> Steps], req' \in [Request -> Ask],
           loaded' \in [Request -> ProductRow \cup {NoRow}], mine' \in [Request -> Rows]
    PROVE  TypeOK'
BY DEF TypeOK, Rows, Steps

LEMMA InStepStays ==
    ASSUME PhotosInStep, NEW p \in Product, p \notin raced, product[p] # NoRow,
           product'[p] = product[p], RowsOf(image, p)' = RowsOf(image, p)
    PROVE  InStep(p)'
<1>1. InStep(p)
  BY DEF PhotosInStep
<1>2. Ids(RowsOf(image, p))' = Ids(RowsOf(image, p))
  BY DEF Ids
<1>3. Primaries(RowsOf(image, p))' = Primaries(RowsOf(image, p))
  BY <1>2 DEF Primaries
<1> QED BY <1>1, <1>2, <1>3 DEF InStep

LEMMA RowsStay ==
    ASSUME PhotosInStep, UNCHANGED << product, image >>, raced \subseteq raced'
    PROVE  PhotosInStep' /\ \A p \in Product : RowsOf(image, p)' = RowsOf(image, p)
<1>1. \A p \in Product : RowsOf(image, p)' = RowsOf(image, p)
  BY DEF RowsOf
<1>2. ASSUME NEW p \in Product, p \notin raced', product'[p] # NoRow PROVE InStep(p)'
  BY <1>1, <1>2, InStepStays
<1> QED BY <1>1, <1>2 DEF PhotosInStep

\* The requests that do not take the step: what they rely on is still so.
LEMMA OthersStay ==
    ASSUME IInv, NEW s \in Request,
           pc'[s] = pc[s], req'[s] = req[s], loaded'[s] = loaded[s], mine'[s] = mine[s],
           drawn \subseteq drawn', raced \subseteq raced',
           UnderWay(s) => (product'[Subject(s)] = NoRow) = (product[Subject(s)] = NoRow),
           \A r \in Request \ {s} : UnderWay(s) /\ req[s].op = "create" /\ Subject(r) # Subject(s)
                                     => Subject(r)' # Subject(s),
           \A r \in Request : New(r)' \subseteq New(r) \/ New(r)' \cap drawn = {},
           \A f \in drawn : image'[f] # NoRow =>
                (image[f] # NoRow /\ image'[f].product = image[f].product) \/ \E r \in Request : f \in New(r)
    PROVE  RequestOK(s)' /\ SessionOK(s)'
<1>1. RequestOK(s) /\ SessionOK(s)
  BY DEF IInv
<1>2. RequestOK(s)'
  BY <1>1 DEF RequestOK, UnderWay, Subject, New
<1>3. SessionOK(s)'
  <2> SUFFICES ASSUME pc[s] = "loaded", req[s].op \in PhotoOp PROVE SessionOK(s)'
    BY DEF SessionOK
  <2>1. \A f \in Ids(mine[s]) : /\ mine[s][f].product = Subject(s) /\ f \in drawn
                                /\ image[f] # NoRow => image[f].product = Subject(s)
                                /\ \A r \in Request : f \notin New(r)
    BY <1>1 DEF SessionOK
  <2>2. \A f \in Ids(mine[s]) : /\ f \in drawn' /\ \A r \in Request : f \notin New(r)'
                                /\ image'[f] # NoRow => image'[f].product = Subject(s)
    BY <2>1
  <2>3. Subject(s)' = Subject(s) /\ Ids(mine[s])' = Ids(mine[s]) /\ Primaries(mine[s])' = Primaries(mine[s])
    BY DEF Subject, Ids, Primaries
  <2> QED BY <1>1, <2>1, <2>2, <2>3 DEF SessionOK
<1> QED BY <1>2, <1>3

-----------------------------------------------------------------------------
(* Steps that leave the rows alone.                                        *)

Ended == {"ok", "error", "late_error"}

LEMMA EndIs ==
    ASSUME IInv, NEW r \in Request, NEW how \in Ended, NEW session \in Rows, End(r, how, session)
    PROVE  /\ pc' \in [Request -> Steps] /\ req' \in [Request -> Ask]
           /\ loaded' \in [Request -> ProductRow \cup {NoRow}] /\ mine' \in [Request -> Rows]
           /\ pc'[r] = how /\ req'[r] = Nothing /\ New(r)' = {}
           /\ \A s \in Request \ {r} : /\ pc'[s] = pc[s] /\ req'[s] = req[s]
                                       /\ loaded'[s] = loaded[s] /\ mine'[s] = mine[s]
           /\ \A s \in Request \ {r} : New(s)' = New(s) /\ Subject(s)' = Subject(s)
           /\ RequestOK(r)' /\ SessionOK(r)'
<1>1. /\ pc' \in [Request -> Steps] /\ req' \in [Request -> Ask]
      /\ loaded' \in [Request -> ProductRow \cup {NoRow}] /\ mine' \in [Request -> Rows]
  BY DatabaseIs, NothingIs DEF End, Ended, Steps
<1>2. pc'[r] = how /\ req'[r] = Nothing
  BY DatabaseIs DEF End
<1>3. \A s \in Request \ {r} : /\ pc'[s] = pc[s] /\ req'[s] = req[s]
                               /\ loaded'[s] = loaded[s] /\ mine'[s] = mine[s]
  BY DatabaseIs DEF End
<1>4. New(r)' = {}
  BY <1>2, NothingIs DEF New, Of
<1>5. \A s \in Request \ {r} : New(s)' = New(s) /\ Subject(s)' = Subject(s)
  BY <1>3 DEF New, Subject
<1>6. RequestOK(r)' /\ SessionOK(r)'
  BY <1>2 DEF RequestOK, SessionOK, UnderWay, Ended
<1> QED BY <1>1, <1>2, <1>3, <1>4, <1>5, <1>6

\* A handler ends without a commit, and may have deleted a file that no row names.
LEMMA EndStep ==
    ASSUME IInv, NEW r \in Request, NEW how \in Ended, NEW session \in Rows, End(r, how, session),
           UNCHANGED << product, image, drawn, raced >>,
           objects' = objects \/ (pc[r] = "deleting" /\ objects' = objects \ {req[r].target})
    PROVE  IInv'
<1>1. /\ pc' \in [Request -> Steps] /\ req' \in [Request -> Ask]
      /\ loaded' \in [Request -> ProductRow \cup {NoRow}] /\ mine' \in [Request -> Rows]
      /\ New(r)' = {} /\ RequestOK(r)' /\ SessionOK(r)' /\ pc'[r] = how /\ req'[r] = Nothing
      /\ \A s \in Request \ {r} : /\ pc'[s] = pc[s] /\ req'[s] = req[s]
                                  /\ loaded'[s] = loaded[s] /\ mine'[s] = mine[s]
                                  /\ New(s)' = New(s) /\ Subject(s)' = Subject(s)
  BY EndIs
<1>2. TypeOK'
  BY <1>1, DatabaseIs, TypedAgain
<1>3. ASSUME NEW s \in Request PROVE RequestOK(s)' /\ SessionOK(s)'
  <2>1. CASE s = r
    BY <1>1, <2>1
  <2>2. CASE s # r
    <3>1. Subject(r)' = NoRow /\ \A t \in Request : New(t)' \subseteq New(t)
      BY <1>1, NothingIs DEF Subject
    <3>2. UnderWay(s) => Subject(s) # NoRow
      BY RequestIs, NoRowAssumption
    <3>3. \A t \in Request \ {s} : UnderWay(s) /\ Subject(t) # Subject(s) => Subject(t)' # Subject(s)
      BY <1>1, <3>1, <3>2
    <3> QED BY <1>1, <2>2, <3>1, <3>3, OthersStay
  <2> QED BY <2>1, <2>2
<1>4. PhotosOK'
  <2>1. \A f \in Ids(image) : product[image[f].product] # NoRow /\ f \in objects /\ f \in objects'
    BY DatabaseIs DEF PhotosOK
  <2>2. \A s \in Request : New(s)' \subseteq New(s)
    BY <1>1
  <2>3. ASSUME NEW s \in Request, pc'[s] = "loaded" PROVE New(s)' \subseteq objects'
    <3>1. s # r /\ New(s) \subseteq objects
      BY <1>1, <2>3, DatabaseIs DEF PhotosOK, Ended
    <3> QED BY <1>1, <3>1, DatabaseIs DEF PhotosOK
  <2>4. ASSUME NEW s \in Request, pc'[s] = "deleting"
        PROVE  s # r /\ req'[s].target \in drawn \ (Ids(image) \cup UNION {New(t) : t \in Request})
    BY <1>1, <2>4, DatabaseIs DEF PhotosOK, Ended
  <2>5. UNION {New(t)' : t \in Request} \subseteq UNION {New(t) : t \in Request}
    BY <2>2
  <2>6. Ids(image)' = Ids(image)
    BY DEF Ids
  <2> QED BY <2>1, <2>2, <2>3, <2>4, <2>5, <2>6, DatabaseIs DEF PhotosOK
<1>5. PhotosInStep'
  BY DatabaseIs, RowsStay
<1> QED BY <1>2, <1>3, <1>4, <1>5 DEF IInv

LEMMA AnswerStep == ASSUME IInv, NEW r \in Request, NEW how \in Ended, Answer(r, how) PROVE IInv'
BY EndStep, NoRowsIs DEF Answer, database

LEMMA SendStep ==
    ASSUME IInv, NEW r \in Request, NEW op \in Op, NEW p \in Product, NEW c \in Code,
           NEW new \in Upload \cup {<< >>}, NEW f \in Photo \cup {NoRow}, Send(r, op, p, c, new, f),
           new # << >> => Fresh(new), (new # << >>) = (op \in {"create", "add"}),
           op = "create" => p \in NewProducts, op # "create" => product[p] # NoRow
    PROVE  IInv'
<1> DEFINE ask == [op |-> op, product |-> p, code |-> c, new |-> new, target |-> f]
<1>1. /\ pc[r] = "idle" /\ pc' = [pc EXCEPT ![r] = "sent"] /\ req' = [req EXCEPT ![r] = ask]
      /\ drawn' = drawn \cup Of(new)
      /\ UNCHANGED << product, image, objects, loaded, mine, raced >>
  BY DEF Send, Of
<1>2. ask \in Ask /\ ask.op = op /\ ask.product = p /\ ask.new = new /\ ask.target = f
  BY DEF Ask
<1> HIDE DEF ask
<1>3. /\ pc'[r] = "sent" /\ req'[r] = ask
      /\ \A s \in Request \ {r} : pc'[s] = pc[s] /\ req'[s] = req[s]
  BY <1>1, DatabaseIs
<1>4. req[r] = Nothing /\ New(r) = {} /\ Subject(r) = NoRow
  <2>1. req[r] = Nothing
    BY <1>1, RequestIs DEF RequestOK, UnderWay
  <2> QED BY <2>1, NothingIs DEF New, Of, Subject
<1>5. New(r)' = Of(new) /\ Subject(r)' = p /\ (Of(new) # {}) = (op \in {"create", "add"})
  <2>1. New(r)' = Of(new) /\ Subject(r)' = p
    BY <1>2, <1>3 DEF New, Of, Subject
  <2>2. new # << >> => Of(new) # {}
    BY UploadIs
  <2> QED BY <2>1, <2>2, NothingIs
<1>6. \A s \in Request \ {r} : New(s)' = New(s) /\ Subject(s)' = Subject(s)
  BY <1>3 DEF New, Subject
<1>7. Of(new) \subseteq Photo \ drawn
  BY UploadIs, NothingIs DEF Fresh, Of
<1>8. TypeOK'
  BY <1>1, <1>2, <1>7, DatabaseIs, TypedAgain DEF Steps
<1>9. ASSUME NEW s \in Request PROVE RequestOK(s)' /\ SessionOK(s)'
  <2>1. CASE s = r
    <3>1. op = "create" => product[p] = NoRow /\ \A t \in Request \ {r} : Subject(t)' # p
      BY <1>6 DEF NewProducts
    <3> QED BY <1>1, <1>2, <1>3, <1>5, <2>1, <3>1 DEF RequestOK, SessionOK, UnderWay, Subject
  <2>2. CASE s # r
    <3>1. UnderWay(s) /\ req[s].op = "create" => Subject(s) # p
      BY RequestIs DEF RequestOK, NewProducts
    <3>2. \A t \in Request : New(t)' \subseteq New(t) \/ New(t)' \cap drawn = {}
      BY <1>5, <1>6, <1>7
    <3>3. \A t \in Request \ {s} : UnderWay(s) /\ req[s].op = "create" /\ Subject(t) # Subject(s)
                                   => Subject(t)' # Subject(s)
      BY <1>5, <1>6, <3>1
    <3> QED BY <1>1, <1>3, <2>2, <3>2, <3>3, OthersStay
  <2> QED BY <2>1, <2>2
<1>10. PhotosOK'
  <2>1. Ids(image)' = Ids(image) /\ Ids(image) \subseteq drawn
    BY <1>1, DatabaseIs DEF Ids
  <2>2. ASSUME NEW s \in Request PROVE New(s) \subseteq drawn
    BY DatabaseIs DEF PhotosOK
  <2>3. ASSUME NEW s \in Request
        PROVE  /\ New(s)' \subseteq drawn' \ Ids(image)
               /\ \A t \in Request \ {s} : New(s)' \cap New(t)' = {}
    <3>1. New(s)' \subseteq drawn' \ Ids(image)
      BY <1>1, <1>5, <1>6, <1>7, <2>1, DatabaseIs DEF PhotosOK
    <3>2. \A t \in Request \ {s} : New(s) \cap New(t) = {}
      BY DatabaseIs DEF PhotosOK
    <3>3. \A t \in Request \ {s} : New(s)' \cap New(t)' = {}
      BY <1>5, <1>6, <1>7, <2>2, <3>2
    <3> QED BY <3>1, <3>3
  <2>4. ASSUME NEW s \in Request, pc'[s] = "loaded" PROVE New(s)' \subseteq objects'
    BY <1>1, <1>3, <1>6, <2>4, DatabaseIs DEF PhotosOK
  <2>5. ASSUME NEW s \in Request, pc'[s] = "deleting"
        PROVE  req'[s].target \in drawn' \ (Ids(image) \cup UNION {New(t)' : t \in Request})
    <3>1. s # r /\ req[s].target \in drawn \ (Ids(image) \cup UNION {New(t) : t \in Request})
      BY <1>3, <2>5, DatabaseIs DEF PhotosOK
    <3>2. \A t \in Request : req[s].target \notin New(t)'
      BY <1>5, <1>6, <1>7, <3>1
    <3> QED BY <1>1, <1>3, <3>1, <3>2
  <2>6. \A f_1 \in Ids(image) : product[image[f_1].product] # NoRow /\ f_1 \in objects
    BY DatabaseIs DEF PhotosOK
  <2> QED BY <1>1, <2>1, <2>3, <2>4, <2>5, <2>6 DEF PhotosOK
<1>11. PhotosInStep'
  BY <1>1, DatabaseIs, RowsStay
<1> QED BY <1>8, <1>9, <1>10, <1>11 DEF IInv

LEMMA ArriveStep == ASSUME IInv, NEW r \in Request, Arrive(r) PROVE IInv'
<1>1. PICK p \in Product :
        \/ \E c \in Code : PutProduct(r, p, c)
        \/ \E c \in Code, new \in Upload : PostCreate(r, p, c, new)
        \/ \E op \in {"delete", "restore"} : PostActive(r, p, op)
        \/ \E new \in Upload : PostImages(r, p, new)
        \/ \E f \in Photo, op \in {"remove", "primary"} : PostPhoto(r, p, op, f)
  BY DEF Arrive
<1> USE DEF Op, Code
<1>2. CASE \E c \in Code : PutProduct(r, p, c)
  BY <1>2, SendStep DEF PutProduct
<1>3. CASE \E c \in Code, new \in Upload : PostCreate(r, p, c, new)
  BY <1>3, SendStep, UploadIs DEF PostCreate
<1>4. CASE \E op \in {"delete", "restore"} : PostActive(r, p, op)
  BY <1>4, SendStep DEF PostActive
<1>5. CASE \E new \in Upload : PostImages(r, p, new)
  BY <1>5, SendStep, UploadIs DEF PostImages
<1>6. CASE \E f \in Photo, op \in {"remove", "primary"} : PostPhoto(r, p, op, f)
  BY <1>6, SendStep DEF PostPhoto
<1> QED BY <1>1, <1>2, <1>3, <1>4, <1>5, <1>6

\* A request goes on with files stored and its photos not yet in the rows.
LEMMA GoesOn ==
    ASSUME IInv, NEW r \in Request, pc[r] = "sent", pc' = [pc EXCEPT ![r] = "loaded"],
           req' \in [Request -> Ask], loaded' \in [Request -> ProductRow \cup {NoRow}], mine' \in [Request -> Rows],
           \A s \in Request \ {r} : req'[s] = req[s] /\ loaded'[s] = loaded[s] /\ mine'[s] = mine[s],
           req'[r].new = req[r].new, Subject(r)' = Subject(r),
           UNCHANGED << product, image, drawn, raced >>,
           objects' = objects \/ objects' = objects \cup New(r), New(r) \subseteq objects',
           RequestOK(r)', SessionOK(r)'
    PROVE  IInv'
<1>1. pc'[r] = "loaded" /\ \A s \in Request \ {r} : pc'[s] = pc[s]
  BY DatabaseIs
<1>2. \A s \in Request : New(s)' = New(s) /\ Subject(s)' = Subject(s)
  BY DEF New, Subject
<1>3. Ids(image)' = Ids(image) /\ New(r) \subseteq drawn
  BY DatabaseIs DEF Ids, PhotosOK
<1>4. TypeOK'
  <2>1. pc' \in [Request -> Steps]
    BY DatabaseIs DEF Steps
  <2>2. objects' \subseteq drawn'
    BY <1>3, DatabaseIs
  <2> QED BY <2>1, <2>2, DatabaseIs, TypedAgain
<1>5. ASSUME NEW s \in Request PROVE RequestOK(s)' /\ SessionOK(s)'
  <2>1. CASE s = r
    BY <2>1
  <2>2. CASE s # r
    BY <1>1, <1>2, <2>2, OthersStay
  <2> QED BY <2>1, <2>2
<1>6. PhotosOK'
  <2>1. objects \subseteq objects'
    OBVIOUS
  <2>2. ASSUME NEW s \in Request, pc'[s] = "loaded" PROVE New(s)' \subseteq objects'
    BY <1>1, <1>2, <2>1, <2>2, DatabaseIs DEF PhotosOK
  <2>3. ASSUME NEW s \in Request, pc'[s] = "deleting"
        PROVE  req'[s].target \in drawn \ (Ids(image) \cup UNION {New(t) : t \in Request})
    BY <1>1, <2>3, DatabaseIs DEF PhotosOK
  <2>4. UNION {New(t)' : t \in Request} = UNION {New(t) : t \in Request}
    BY <1>2
  <2> QED BY <1>2, <1>3, <2>1, <2>2, <2>3, <2>4, DatabaseIs DEF PhotosOK
<1>7. PhotosInStep'
  BY DatabaseIs, RowsStay
<1> QED BY <1>4, <1>5, <1>6, <1>7 DEF IInv

LEMMA LookUpBarcodeStep == ASSUME IInv, NEW r \in Request, LookUpBarcode(r) PROVE IInv'
<1>1. PICK detected \in Code :
        LET c == IF req[r].code # NoBarcode THEN req[r].code ELSE detected IN
        IF Taken(c, Subject(r)) THEN Answer(r, "error")
        ELSE /\ pc' = [pc EXCEPT ![r] = "loaded"]
             /\ req' = [req EXCEPT ![r].code = c]
             /\ StoreObjects(r)
             /\ UNCHANGED << product, image, drawn, loaded, mine, raced >>
  BY DEF LookUpBarcode
<1> DEFINE c == IF req[r].code # NoBarcode THEN req[r].code ELSE detected
<1>2. CASE Taken(c, Subject(r))
  BY <1>1, <1>2, AnswerStep DEF Ended
<1>3. CASE ~Taken(c, Subject(r))
  <2>1. /\ pc' = [pc EXCEPT ![r] = "loaded"] /\ req' = [req EXCEPT ![r].code = c] /\ StoreObjects(r)
        /\ UNCHANGED << product, image, drawn, loaded, mine, raced >>
    BY <1>1, <1>3
  <2>2. pc[r] = "sent" /\ req[r].op = "create" /\ req[r] \in Ask /\ c \in Code
    BY RequestIs DEF LookUpBarcode, Asks
  <2> HIDE DEF c
  <2>3. /\ [req[r] EXCEPT !.code = c] \in Ask /\ [req[r] EXCEPT !.code = c].op = req[r].op
        /\ [req[r] EXCEPT !.code = c].new = req[r].new /\ [req[r] EXCEPT !.code = c].product = Subject(r)
    BY <2>2 DEF Ask, Subject
  <2>4. /\ req' \in [Request -> Ask] /\ req'[r] = [req[r] EXCEPT !.code = c]
        /\ \A s \in Request \ {r} : req'[s] = req[s]
    BY <2>1, <2>3, DatabaseIs
  <2>5. New(r)' = New(r) /\ \A s \in Request : Subject(s)' = Subject(s)
    <3>1. req'[r].new = req[r].new /\ Subject(r)' = Subject(r)
      BY <2>3, <2>4 DEF Subject
    <3>2. \A s \in Request \ {r} : Subject(s)' = Subject(s)
      BY <2>4 DEF Subject
    <3> QED BY <3>1, <3>2 DEF New
  <2>6. objects' = objects \cup New(r)
    BY <2>1 DEF StoreObjects, New
  <2>7. pc'[r] = "loaded"
    BY <2>1, DatabaseIs
  <2>8. RequestOK(r)'
    BY <2>1, <2>2, <2>3, <2>4, <2>5, <2>7, RequestIs DEF RequestOK, UnderWay
  <2>9. SessionOK(r)'
    BY <2>2, <2>3, <2>4 DEF SessionOK, PhotoOp
  <2> QED BY <2>1, <2>2, <2>3, <2>4, <2>5, <2>6, <2>8, <2>9, GoesOn, DatabaseIs
<1> QED BY <1>2, <1>3

LEMMA LoadStep ==
    ASSUME IInv, NEW r \in Request, pc[r] = "sent", req[r].op # "create", Load(r),
           objects' = objects \/ objects' = objects \cup New(r),
           req[r].op = "add" =>
             /\ objects' = objects \cup New(r)
             /\ Cardinality(Ids(RowsOf(image, Subject(r)))) + Len(req[r].new) <= MaxImages,
           req[r].op \in {"remove", "primary"} => req[r].target \in Ids(RowsOf(image, Subject(r))),
           req[r].op = "remove" => Cardinality(Ids(RowsOf(image, Subject(r)))) > 1
    PROVE  IInv'
<1> DEFINE p == Subject(r)
           photos == RowsOf(image, p)
<1>1. /\ pc' = [pc EXCEPT ![r] = "loaded"] /\ loaded' = [loaded EXCEPT ![r] = product[p]]
      /\ mine' = [mine EXCEPT ![r] = photos] /\ UNCHANGED << product, image, drawn, req, raced >>
  BY DEF Load
<1>2. p \in Product /\ product[p] \in ProductRow /\ UnderWay(r)
  BY RequestIs DEF UnderWay
<1>3. /\ photos \in Rows /\ Ids(photos) = {f \in Ids(image) : image[f].product = p}
      /\ \A f \in Ids(photos) : photos[f] = image[f]
  BY <1>2, RowsOfIs, DatabaseIs
<1> HIDE DEF photos
<1>4. /\ pc'[r] = "loaded" /\ loaded'[r] = product[p] /\ mine'[r] = photos
      /\ \A s \in Request \ {r} : loaded'[s] = loaded[s] /\ mine'[s] = mine[s]
      /\ loaded' \in [Request -> ProductRow \cup {NoRow}] /\ mine' \in [Request -> Rows]
  BY <1>1, <1>2, <1>3, DatabaseIs
<1>5. New(r) \subseteq objects'
  BY <1>2, RequestIs
<1>6. RequestOK(r)'
  <2>1. UnderWay(r)' /\ req'[r] = req[r] /\ New(r)' = New(r) /\ \A s \in Request : Subject(s)' = Subject(s)
    BY <1>1, <1>4 DEF UnderWay, Subject, New
  <2>2. RequestOK(r) /\ product[p] # NoRow /\ product' = product
    BY <1>1, <1>2, ProductRowIs, RequestIs
  <2> QED BY <1>2, <1>4, <2>1, <2>2 DEF RequestOK
<1>7. SessionOK(r)'
  <2> SUFFICES ASSUME req[r].op \in PhotoOp PROVE SessionOK(r)'
    BY <1>1 DEF SessionOK
  <2>1. ASSUME NEW f \in Ids(photos)
        PROVE  /\ photos[f].product = p /\ f \in drawn /\ image[f].product = p
               /\ \A s \in Request : f \notin New(s)'
    <3>1. f \in Ids(image) /\ photos[f] = image[f] /\ image[f].product = p
      BY <1>3, <2>1
    <3>2. \A s \in Request : New(s)' = New(s)
      BY <1>1 DEF New
    <3> QED BY <3>1, <3>2, DatabaseIs DEF PhotosOK
  <2>2. p \notin raced => Primaries(photos) = {product[p].cover}
    BY <1>2, ProductRowIs, DatabaseIs DEF PhotosInStep, InStep, photos
  <2>3. Ids(mine[r])' = Ids(photos) /\ Primaries(mine[r])' = Primaries(photos) /\ Subject(r)' = p
    BY <1>1, <1>4 DEF Ids, Primaries, Subject
  <2>4. req[r].op = "add" => Cardinality(Ids(photos)) + Len(req[r].new) <= MaxImages
    BY DEF photos
  <2>5. req[r].op \in {"remove", "primary"} => req[r].target \in Ids(photos)
    BY DEF photos
  <2>6. req[r].op = "remove" => Cardinality(Ids(photos)) > 1
    BY DEF photos
  <2> QED BY <1>1, <1>4, <2>1, <2>2, <2>3, <2>4, <2>5, <2>6 DEF SessionOK, PhotoOp
<1>8. Subject(r)' = Subject(r)
  BY <1>1 DEF Subject
<1> QED BY <1>1, <1>4, <1>5, <1>6, <1>7, <1>8, GoesOn, DatabaseIs

LEMMA LoadsStep ==
    ASSUME IInv, NEW r \in Request,
           LoadForUpdate(r) \/ LoadForActive(r) \/ LoadForImages(r) \/ LoadForPhoto(r)
    PROVE  IInv'
<1> DEFINE photos == Ids(RowsOf(image, Subject(r)))
<1>1. CASE LoadForUpdate(r)
  BY <1>1, AnswerStep, LoadStep DEF LoadForUpdate, Asks, Ended
<1>2. CASE LoadForActive(r)
  BY <1>2, LoadStep DEF LoadForActive, Asks
<1>3. CASE LoadForImages(r)
  <2>1. pc[r] = "sent" /\ req[r].op = "add"
    BY <1>3 DEF LoadForImages, Asks
  <2>2. CASE Cardinality(photos) + Len(req[r].new) > MaxImages
    BY <1>3, <2>2, AnswerStep DEF LoadForImages, Ended
  <2>3. CASE ~(Cardinality(photos) + Len(req[r].new) > MaxImages)
    <3>1. Load(r) /\ objects' = objects \cup New(r)
      BY <1>3, <2>3 DEF LoadForImages, StoreObjects, New
    <3>2. Cardinality(photos) \in Nat /\ Len(req[r].new) \in Nat /\ MaxImages \in Nat
      <4>1. Subject(r) \in Product /\ req[r].new \in Upload
        BY <2>1, RequestIs DEF UnderWay
      <4>2. IsFiniteSet(photos)
        BY <4>1, RowsOfIs, DatabaseIs
      <4> QED BY <4>1, <4>2, FS_CardinalityType, UploadIs, ImagesAssumption
    <3> QED BY <2>1, <2>3, <3>1, <3>2, LoadStep
  <2> QED BY <2>2, <2>3
<1>4. CASE LoadForPhoto(r)
  <2>1. pc[r] = "sent" /\ req[r].op \in {"remove", "primary"}
    BY <1>4 DEF LoadForPhoto, Asks
  <2>2. CASE req[r].target \notin photos \/ (req[r].op = "remove" /\ Cardinality(photos) <= 1)
    BY <1>4, <2>2, AnswerStep DEF LoadForPhoto, Ended
  <2>3. CASE ~(req[r].target \notin photos \/ (req[r].op = "remove" /\ Cardinality(photos) <= 1))
    <3>1. Load(r) /\ objects' = objects
      BY <1>4, <2>3 DEF LoadForPhoto
    <3>2. Cardinality(photos) \in Nat
      <4>1. IsFiniteSet(photos)
        BY <2>1, RequestIs, RowsOfIs, DatabaseIs DEF UnderWay
      <4> QED BY <4>1, FS_CardinalityType
    <3> QED BY <2>1, <2>3, <3>1, <3>2, LoadStep
  <2> QED BY <2>2, <2>3
<1> QED BY <1>1, <1>2, <1>3, <1>4

-----------------------------------------------------------------------------
(* Commits.                                                                *)

\* What a commit may do to the rows: those of other products stay, each keeps its product,
\* and what is new is of the upload.
Keeps(r, rows) ==
    /\ \A f \in Ids(rows) : /\ f \in Ids(image) \cup New(r)
                            /\ rows[f].product = IF f \in Ids(image) THEN image[f].product ELSE Subject(r)
    /\ \A f \in Ids(image) : image[f].product # Subject(r) => rows[f] = image[f]

\* A product row and its photos that are in step.
Fits(rows, p, row) ==
    /\ Cardinality(Ids(RowsOf(rows, p))) \in 1..MaxImages
    /\ Primaries(RowsOf(rows, p)) = {row.cover}

LEMMA KeptRows ==
    ASSUME IInv, NEW r \in Request, NEW rows \in Rows, Keeps(r, rows), NEW p \in Product, p # Subject(r)
    PROVE  RowsOf(rows, p) = RowsOf(image, p)
<1>1. ASSUME NEW f \in Photo PROVE RowsOf(rows, p)[f] = RowsOf(image, p)[f]
  <2>1. CASE f \in Ids(image) /\ image[f].product # Subject(r)
    BY <2>1 DEF Keeps, RowsOf
  <2>2. CASE ~(f \in Ids(image) /\ image[f].product # Subject(r))
    <3>1. f \in Ids(rows) => rows[f].product # p
      BY <2>2 DEF Keeps
    <3> QED BY <2>2, <3>1 DEF RowsOf, Ids
  <2> QED BY <2>1, <2>2
<1> QED BY <1>1 DEF RowsOf

LEMMA CommittedStep ==
    ASSUME IInv, NEW r \in Request, pc[r] = "loaded", NEW row \in ProductRow, NEW rows \in Rows,
           product' = [product EXCEPT ![Subject(r)] = row], image' = rows, UNCHANGED << objects, drawn >>,
           raced' \in {raced, raced \cup {Subject(r)}},
           Keeps(r, rows), Subject(r) \notin raced' => Fits(rows, Subject(r), row),
           pc' \in [Request -> Steps], req' \in [Request -> Ask],
           loaded' \in [Request -> ProductRow \cup {NoRow}], mine' \in [Request -> Rows],
           \A s \in Request \ {r} : /\ pc'[s] = pc[s] /\ req'[s] = req[s]
                                    /\ loaded'[s] = loaded[s] /\ mine'[s] = mine[s],
           New(r)' \subseteq New(r), Subject(r)' \in {NoRow, Subject(r)}, RequestOK(r)', SessionOK(r)',
           pc'[r] = "ok" \/ (pc'[r] = "deleting" /\
                req'[r].target \in drawn \ (Ids(rows) \cup UNION {New(s) : s \in Request}))
    PROVE  IInv'
<1> DEFINE p == Subject(r)
<1>1. p \in Product /\ UnderWay(r) /\ New(r) \subseteq objects /\ row # NoRow
  BY RequestIs, DatabaseIs, ProductRowIs DEF UnderWay, PhotosOK
<1>2. /\ \A s \in Request \ {r} : New(s)' = New(s) /\ Subject(s)' = Subject(s)
      /\ \A s \in Request : New(s)' \subseteq New(s)
  BY DEF New, Subject
<1>3. product' \in [Product -> ProductRow \cup {NoRow}] /\ product'[p] = row
      /\ \A q \in Product \ {p} : product'[q] = product[q]
  BY <1>1, DatabaseIs
<1>4. TypeOK'
  BY <1>1, <1>3, DatabaseIs, TypedAgain
<1>5. ASSUME NEW s \in Request PROVE RequestOK(s)' /\ SessionOK(s)'
  <2>1. CASE s = r
    BY <2>1
  <2>2. CASE s # r
    <3>1. UnderWay(s) => Subject(s) \in Product /\ Subject(s) # NoRow
      BY RequestIs, NoRowAssumption
    <3>2. UnderWay(s) /\ Subject(s) = p => product[p] # NoRow
      BY <1>1, <2>2, RequestIs DEF RequestOK
    <3>3. UnderWay(s) => (product'[Subject(s)] = NoRow) = (product[Subject(s)] = NoRow)
      BY <1>1, <1>3, <3>1, <3>2
    <3>4. \A t \in Request \ {s} : UnderWay(s) /\ req[s].op = "create" /\ Subject(t) # Subject(s)
                                   => Subject(t)' # Subject(s)
      BY <1>2, <3>1
    <3>5. \A f \in drawn : image'[f] # NoRow =>
             (image[f] # NoRow /\ image'[f].product = image[f].product) \/ \E t \in Request : f \in New(t)
      BY DatabaseIs DEF Keeps, Ids
    <3> QED BY <1>2, <2>2, <3>3, <3>4, <3>5, OthersStay
  <2> QED BY <2>1, <2>2
<1>6. PhotosOK'
  <2>1. Ids(image)' = Ids(rows)
    BY DEF Ids
  <2>2. ASSUME NEW f \in Ids(rows) PROVE product'[rows[f].product] # NoRow /\ f \in objects
    <3>1. CASE f \in Ids(image)
      <4>1. product[image[f].product] # NoRow /\ f \in objects /\ image[f].product \in Product
        BY <3>1, RowsOfIs, ImageRowIs, <1>1, DatabaseIs DEF PhotosOK
      <4> QED BY <1>1, <1>3, <2>2, <3>1, <4>1 DEF Keeps
    <3>2. CASE f \notin Ids(image)
      BY <1>1, <1>3, <2>2, <3>2 DEF Keeps
    <3> QED BY <3>1, <3>2
  <2>3. ASSUME NEW s \in Request
        PROVE  /\ New(s)' \subseteq drawn \ Ids(rows)
               /\ \A t \in Request \ {s} : New(s)' \cap New(t)' = {}
    <3>1. New(s) \subseteq drawn \ Ids(image) /\ \A t \in Request \ {s} : New(s) \cap New(t) = {}
      BY DatabaseIs DEF PhotosOK
    <3>2. CASE s # r \/ pc'[r] = "deleting"
      <4>1. New(s)' \cap New(r) = {}
        <5>1. CASE s # r
          BY <1>2, <3>1, <5>1
        <5>2. CASE s = r /\ pc'[r] = "deleting"
          <6>1. req'[r].op = "remove" /\ UnderWay(r)'
            BY <5>2 DEF RequestOK, UnderWay
          <6>2. New(r)' = {}
            BY <6>1 DEF RequestOK
          <6> QED BY <5>2, <6>2
        <5> QED BY <3>2, <5>1, <5>2
      <4> QED BY <1>2, <3>1, <4>1 DEF Keeps
    <3>3. CASE s = r /\ pc'[r] = "ok"
      <4>1. req'[r] = Nothing
        BY <3>3 DEF RequestOK, UnderWay
      <4>2. New(r)' = {}
        BY <4>1, NothingIs DEF New, Of
      <4> QED BY <3>3, <4>2
    <3> QED BY <3>2, <3>3
  <2>4. ASSUME NEW s \in Request, pc'[s] = "loaded" PROVE New(s)' \subseteq objects
    BY <1>2, <2>4, DatabaseIs DEF PhotosOK
  <2>5. ASSUME NEW s \in Request, pc'[s] = "deleting"
        PROVE  req'[s].target \in drawn \ (Ids(rows) \cup UNION {New(t)' : t \in Request})
    <3>1. UNION {New(t)' : t \in Request} \subseteq UNION {New(t) : t \in Request}
      BY <1>2
    <3>2. CASE s = r
      BY <2>5, <3>1, <3>2
    <3>3. CASE s # r
      <4>1. req[s].target \in drawn \ (Ids(image) \cup UNION {New(t) : t \in Request})
        BY <2>5, <3>3, DatabaseIs DEF PhotosOK
      <4>2. Ids(rows) \subseteq Ids(image) \cup UNION {New(t) : t \in Request}
        BY DEF Keeps
      <4> QED BY <3>1, <3>3, <4>1, <4>2
    <3> QED BY <3>2, <3>3
  <2> QED BY <2>1, <2>2, <2>3, <2>4, <2>5 DEF PhotosOK
<1>7. PhotosInStep'
  <2> SUFFICES ASSUME NEW q \in Product, q \notin raced', product'[q] # NoRow PROVE InStep(q)'
    BY DEF PhotosInStep
  <2>1. CASE q = p
    <3>1. Fits(rows, p, row)
      BY <2>1
    <3>2. RowsOf(image, q)' = RowsOf(rows, p)
      BY <2>1 DEF RowsOf
    <3>3. Ids(RowsOf(image, q))' = Ids(RowsOf(rows, p)) /\ Primaries(RowsOf(image, q))' = Primaries(RowsOf(rows, p))
      BY <3>2 DEF Ids, Primaries
    <3> QED BY <1>3, <2>1, <3>1, <3>3 DEF InStep, Fits
  <2>2. CASE q # p
    <3>1. \A f \in Photo : (rows[f] # NoRow /\ rows[f].product = q) = (image[f] # NoRow /\ image[f].product = q)
      BY <1>1, <2>2 DEF Keeps, Ids
    <3>2. \A f \in Photo : image[f] # NoRow /\ image[f].product = q => rows[f] = image[f]
      BY <2>2 DEF Keeps, Ids
    <3>3. RowsOf(image, q)' = RowsOf(image, q)
      BY <3>1, <3>2 DEF RowsOf
    <3> QED BY <1>3, <2>2, <3>3, InStepStays, DatabaseIs
  <2> QED BY <2>1, <2>2
<1> QED BY <1>4, <1>5, <1>6, <1>7 DEF IInv

\* A commit that ends its handler, or its rollback.
LEMMA CommitStep ==
    ASSUME IInv, NEW r \in Request, pc[r] = "loaded", NEW row \in ProductRow, NEW rows \in Rows,
           NEW session \in Rows, Commit(r, row, rows, session),
           raced' \in {raced, raced \cup {Subject(r)}}, pc'[r] = "error" => raced' = raced,
           Keeps(r, rows), Subject(r) \notin raced' /\ pc'[r] = "ok" => Fits(rows, Subject(r), row)
    PROVE  IInv'
<1> DEFINE products == [product EXCEPT ![Subject(r)] = row]
<1>1. CASE BarcodeIndex(products) /\ PrimaryIndex(rows)
  <2>1. product' = products /\ image' = rows /\ End(r, "ok", session) /\ UNCHANGED << objects, drawn >>
    BY <1>1 DEF Commit
  <2>2. /\ pc' \in [Request -> Steps] /\ req' \in [Request -> Ask]
        /\ loaded' \in [Request -> ProductRow \cup {NoRow}] /\ mine' \in [Request -> Rows]
        /\ pc'[r] = "ok" /\ req'[r] = Nothing /\ New(r)' = {}
        /\ \A s \in Request \ {r} : /\ pc'[s] = pc[s] /\ req'[s] = req[s]
                                    /\ loaded'[s] = loaded[s] /\ mine'[s] = mine[s]
        /\ RequestOK(r)' /\ SessionOK(r)'
    BY <2>1, EndIs DEF Ended
  <2>3. Subject(r)' = NoRow
    BY <2>2, NothingIs DEF Subject
  <2> QED BY <2>1, <2>2, <2>3, CommittedStep
<1>2. CASE ~(BarcodeIndex(products) /\ PrimaryIndex(rows))
  <2>1. End(r, "error", NoRows) /\ UNCHANGED << product, image, objects, drawn >>
    BY <1>2 DEF Commit, database
  <2>2. pc'[r] = "error"
    BY <2>1, DatabaseIs DEF End
  <2> QED BY <2>1, <2>2, EndStep, NoRowsIs DEF Ended
<1> QED BY <1>1, <1>2

LEMMA CommitProductStep ==
    ASSUME IInv, NEW r \in Request, pc[r] = "loaded", req[r].op # "create", NEW row \in ProductRow,
           row.cover = product[Subject(r)].cover, CommitProduct(r, row)
    PROVE  IInv'
<1>1. Subject(r) \in Product /\ product[Subject(r)] # NoRow
  BY RequestIs, ProductRowIs DEF UnderWay
<1>2. Commit(r, row, image, NoRows) /\ raced' = raced
  BY DEF CommitProduct
<1>3. Keeps(r, image)
  BY DEF Keeps
<1>4. Subject(r) \notin raced' => Fits(image, Subject(r), row)
  BY <1>1, <1>2, DatabaseIs DEF PhotosInStep, InStep, Fits
<1> QED BY <1>1, <1>2, <1>3, <1>4, CommitStep, NoRowsIs, DatabaseIs

LEMMA ProductStep ==
    ASSUME IInv, NEW r \in Request, UpdateProduct(r) \/ DeleteProduct(r) \/ RestoreProduct(r)
    PROVE  IInv'
<1> DEFINE x == product[Subject(r)]
<1>1. pc[r] = "loaded" /\ req[r].op # "create"
  BY DEF UpdateProduct, DeleteProduct, RestoreProduct, Asks
<1>2. x \in ProductRow /\ req[r].code \in Code
  BY <1>1, RequestIs DEF UnderWay
<1> HIDE DEF x
<1>3. /\ x.active \in BOOLEAN
      /\ \A c \in Code : [x EXCEPT !.code = c] \in ProductRow /\ [x EXCEPT !.code = c].cover = x.cover
      /\ \A a \in BOOLEAN : [x EXCEPT !.active = a] \in ProductRow /\ [x EXCEPT !.active = a].cover = x.cover
  BY <1>2, ProductRowIs
<1>4. \E row \in ProductRow : row.cover = x.cover /\ CommitProduct(r, row)
  <2>1. CASE UpdateProduct(r)
    <3> DEFINE row == IF NewCode(r, loaded[r]) THEN [x EXCEPT !.code = req[r].code] ELSE x
    <3>1. CommitProduct(r, row)
      BY <2>1 DEF UpdateProduct, x
    <3>2. row \in ProductRow /\ row.cover = x.cover
      BY <1>2, <1>3
    <3> HIDE DEF row
    <3> QED BY <3>1, <3>2
  <2>2. CASE DeleteProduct(r)
    <3> DEFINE a == IF loaded[r].active THEN FALSE ELSE x.active
    <3>1. CommitProduct(r, [x EXCEPT !.active = a])
      BY <2>2 DEF DeleteProduct, x
    <3>2. a \in BOOLEAN
      BY <1>3
    <3> HIDE DEF a
    <3> QED BY <1>3, <3>1, <3>2
  <2>3. CASE RestoreProduct(r)
    <3> DEFINE a == IF loaded[r].active THEN x.active ELSE TRUE
    <3>1. CommitProduct(r, [x EXCEPT !.active = a])
      BY <2>3 DEF RestoreProduct, x
    <3>2. a \in BOOLEAN
      BY <1>3
    <3> HIDE DEF a
    <3> QED BY <1>3, <3>1, <3>2
  <2> QED BY <2>1, <2>2, <2>3
<1> QED BY <1>1, <1>4, CommitProductStep DEF x

-----------------------------------------------------------------------------
(* What an upload adds to rows.                                            *)

LEMMA InsertIs ==
    ASSUME NEW rows \in Rows, NEW more \in Rows
    PROVE  LET all == Insert(rows, more) IN
           /\ all \in Rows /\ Ids(all) = Ids(rows) \cup Ids(more)
           /\ \A f \in Ids(more) : all[f] = more[f]
           /\ \A f \in Photo \ Ids(more) : all[f] = rows[f]
BY DEF Insert, Rows, Ids

\* The photos of a product after the upload that is committed for it.
LEMMA Uploaded ==
    ASSUME IInv, NEW r \in Request, UnderWay(r), req[r].new \in Upload,
           NEW first \in Nat, NEW w \in BOOLEAN
    PROVE  LET p == Subject(r)
               new == NewRows(p, req[r].new, first, w)
               rows == Insert(image, new)
               photos == RowsOf(image, p) IN
           /\ new \in Rows /\ Ids(new) = New(r) /\ rows \in Rows /\ Keeps(r, rows)
           /\ Ids(RowsOf(rows, p)) = Ids(photos) \cup New(r)
           /\ Primaries(RowsOf(rows, p)) = Primaries(photos) \cup IF w THEN {req[r].new[1]} ELSE {}
           /\ Cardinality(Ids(RowsOf(rows, p))) = Cardinality(Ids(photos)) + Len(req[r].new)
           /\ RowsOf(rows, p) = Insert(photos, new)
<1> DEFINE p == Subject(r)
           new == NewRows(p, req[r].new, first, w)
           rows == Insert(image, new)
           photos == RowsOf(image, p)
<1>1. p \in Product /\ image \in Rows /\ New(r) = Of(req[r].new) /\ New(r) \subseteq Photo \ Ids(image)
  BY RequestIs, DatabaseIs DEF PhotosOK
<1>2. /\ new \in Rows /\ Ids(new) = New(r) /\ \A f \in New(r) : new[f].product = p
      /\ Primaries(new) = IF w THEN {req[r].new[1]} ELSE {}
  <2> DEFINE upload == req[r].new
  <2>1. upload \in Upload
    OBVIOUS
  <2> HIDE DEF upload, p
  <2>2. LET ones == NewRows(p, upload, first, w) IN
        /\ ones \in Rows /\ Ids(ones) = Of(upload) /\ \A f \in Of(upload) : ones[f].product = p
        /\ Primaries(ones) = IF w THEN {upload[1]} ELSE {}
    BY <1>1, <2>1, NewRowsIs
  <2> QED BY <1>1, <2>2 DEF upload
<1> HIDE DEF new
<1>3. /\ rows \in Rows /\ Ids(rows) = Ids(image) \cup New(r)
      /\ \A f \in New(r) : rows[f] = new[f]
      /\ \A f \in Photo \ New(r) : rows[f] = image[f]
  BY <1>1, <1>2, InsertIs
<1> HIDE DEF rows
<1>4. Ids(image) \cap New(r) = {} /\ Ids(image) \subseteq Photo
  BY <1>1 DEF Ids
<1>5. Keeps(r, rows)
  BY <1>2, <1>3, <1>4 DEF Keeps
<1>6. /\ Ids(photos) = {f \in Ids(image) : image[f].product = p} /\ IsFiniteSet(Ids(photos))
      /\ Primaries(photos) = {f \in Ids(image) : image[f].product = p /\ image[f].primary}
  BY <1>1, RowsOfIs, DatabaseIs
<1>7. /\ Ids(RowsOf(rows, p)) = {f \in Ids(rows) : rows[f].product = p}
      /\ Primaries(RowsOf(rows, p)) = {f \in Ids(rows) : rows[f].product = p /\ rows[f].primary}
  BY <1>1, <1>3, RowsOfIs
<1>8. Ids(RowsOf(rows, p)) = Ids(photos) \cup New(r)
  BY <1>2, <1>3, <1>4, <1>6, <1>7
<1>9. Primaries(RowsOf(rows, p)) = Primaries(photos) \cup Primaries(new)
  <2>1. Primaries(new) = {f \in New(r) : rows[f].primary}
    BY <1>2, <1>3 DEF Primaries
  <2> QED BY <1>2, <1>3, <1>4, <1>6, <1>7, <2>1
<1>10. Cardinality(Ids(photos) \cup New(r)) = Cardinality(Ids(photos)) + Len(req[r].new)
  <2>1. IsFiniteSet(New(r)) /\ Cardinality(New(r)) = Len(req[r].new)
    BY <1>1, UploadIs
  <2>2. Ids(photos) \cap New(r) = {}
    BY <1>4, <1>6
  <2>3. Cardinality(Ids(photos) \cap New(r)) = 0
    BY <2>2, FS_EmptySet
  <2>4. Cardinality(Ids(photos)) \in Nat /\ Cardinality(New(r)) \in Nat
    BY <1>6, <2>1, FS_CardinalityType
  <2>5. Cardinality(Ids(photos) \cup New(r)) =
          Cardinality(Ids(photos)) + Cardinality(New(r)) - Cardinality(Ids(photos) \cap New(r))
    BY <1>6, <2>1, FS_Union
  <2> QED BY <2>1, <2>3, <2>4, <2>5
<1>11. RowsOf(rows, p) = Insert(photos, new)
  <2>1. ASSUME NEW f \in Photo PROVE RowsOf(rows, p)[f] = Insert(photos, new)[f]
    <3>1. CASE f \in New(r)
      BY <1>2, <1>3, <3>1 DEF RowsOf, Insert, Ids
    <3>2. CASE f \notin New(r)
      BY <1>2, <1>3, <3>2 DEF RowsOf, Insert, Ids
    <3> QED BY <3>1, <3>2
  <2> QED BY <2>1 DEF RowsOf, Insert
<1> QED BY <1>2, <1>3, <1>5, <1>8, <1>9, <1>10, <1>11 DEF rows, new

LEMMA CreateProductStep == ASSUME IInv, NEW r \in Request, CreateProduct(r) PROVE IInv'
<1> DEFINE p == Subject(r)
           new == NewRows(p, req[r].new, 0, TRUE)
           rows == Insert(image, new)
           row == [code |-> req[r].code, active |-> TRUE, cover |-> req[r].new[1]]
<1>1. pc[r] = "loaded" /\ req[r].op = "create" /\ UnderWay(r)
  BY DEF CreateProduct, Asks, UnderWay
<1>2. req[r].new \in Upload /\ p \in Product /\ product[p] = NoRow
  BY <1>1, RequestIs DEF RequestOK
<1>3. row \in ProductRow /\ row.cover = req[r].new[1]
  BY <1>2, RequestIs, UploadIs DEF ProductRow
<1>4. Commit(r, row, rows, NoRows) /\ raced' = raced
  BY DEF CreateProduct
<1> HIDE DEF row
<1>5. Ids(RowsOf(image, p)) = {}
  <2>1. \A f \in Ids(image) : image[f].product # p
    BY <1>2, DatabaseIs DEF PhotosOK
  <2> QED BY <1>2, <2>1, RowsOfIs, DatabaseIs
<1>6. Primaries(RowsOf(image, p)) = {}
  BY <1>5 DEF Primaries
<1>7. /\ rows \in Rows /\ Keeps(r, rows)
      /\ Primaries(RowsOf(rows, p)) = {req[r].new[1]}
      /\ Cardinality(Ids(RowsOf(rows, p))) = 0 + Len(req[r].new)
  BY <1>1, <1>2, <1>5, <1>6, Uploaded, FS_EmptySet
<1>8. Fits(rows, p, row)
  <2>1. Len(req[r].new) \in 1..MaxImages
    BY <1>2, UploadIs
  <2>2. 0 + Len(req[r].new) = Len(req[r].new)
    BY <2>1, ImagesAssumption
  <2> HIDE DEF rows
  <2> QED BY <1>3, <1>7, <2>1, <2>2 DEF Fits
<1> HIDE DEF rows
<1> QED BY <1>1, <1>3, <1>4, <1>7, <1>8, CommitStep, NoRowsIs

-----------------------------------------------------------------------------
(* Photos that are written from what a session holds of them.              *)

LEMMA SyncCoverIs ==
    ASSUME IInv, NEW r \in Request, Subject(r) \in Product, product[Subject(r)] \in ProductRow,
           NEW session \in Rows
    PROVE  LET row == SyncCover(r, session)
               old == product[Subject(r)] IN
           /\ row \in ProductRow /\ row.code = old.code /\ row.active = old.active
           /\ \A f : Primaries(session) = {f} => row.cover = IF f = loaded[r].cover THEN old.cover ELSE f
<1> DEFINE old == product[Subject(r)]
           first == CHOOSE f \in Primaries(session) : TRUE
           row == SyncCover(r, session)
<1>1. row = IF Primaries(session) = {} \/ first = loaded[r].cover THEN old ELSE [old EXCEPT !.cover = first]
  BY DEF SyncCover
<1>2. \A f : Primaries(session) = {f} => first = f
  OBVIOUS
<1>3. Primaries(session) # {} => first \in Photo
  BY DEF Primaries, Ids
<1>4. /\ old \in ProductRow
      /\ \A f \in Photo : /\ [old EXCEPT !.cover = f] \in ProductRow /\ [old EXCEPT !.cover = f].code = old.code
                          /\ [old EXCEPT !.cover = f].active = old.active
                          /\ [old EXCEPT !.cover = f].cover = f
  BY ProductRowIs
<1> HIDE DEF row, first, old
<1>5. row \in ProductRow /\ row.code = old.code /\ row.active = old.active
  BY <1>1, <1>3, <1>4
<1>6. ASSUME NEW f, Primaries(session) = {f} PROVE row.cover = IF f = loaded[r].cover THEN old.cover ELSE f
  BY <1>1, <1>2, <1>3, <1>4, <1>6
<1> QED BY <1>5, <1>6 DEF row, old

\* A handler of photos, and what it can rely on when it has not been overtaken.
LEMMA PhotoHandler ==
    ASSUME IInv, NEW r \in Request, pc[r] = "loaded", req[r].op \in PhotoOp
    PROVE  /\ UnderWay(r) /\ Subject(r) \in Product /\ product[Subject(r)] \in ProductRow
           /\ \A f \in Ids(mine[r]) : /\ mine[r][f] \in ImageRow /\ mine[r][f].product = Subject(r)
                                      /\ f \in drawn /\ f \in Photo
                                      /\ f \in Ids(image) => image[f].product = Subject(r)
                                      /\ \A s \in Request : f \notin New(s)
           /\ IsFiniteSet(Ids(mine[r])) /\ Cardinality(Ids(mine[r])) \in Nat
           /\ Subject(r) \notin raced /\ ~Overtaken(r) =>
                /\ mine[r] = RowsOf(image, Subject(r))
                /\ Cardinality(Ids(mine[r])) \in 1..MaxImages
                /\ Primaries(mine[r]) = {product[Subject(r)].cover}
                /\ loaded[r].cover = product[Subject(r)].cover
<1>1. UnderWay(r) /\ Subject(r) \in Product /\ product[Subject(r)] \in ProductRow /\ mine[r] \in Rows
  BY RequestIs DEF UnderWay, PhotoOp
<1>2. SessionOK(r)
  BY RequestIs
<1>3. IsFiniteSet(Ids(mine[r])) /\ \A f \in Ids(mine[r]) : mine[r][f] \in ImageRow /\ f \in Photo
  BY <1>1, RowsOfIs
<1>4. Cardinality(Ids(mine[r])) \in Nat
  BY <1>3, FS_CardinalityType
<1>5. ASSUME Subject(r) \notin raced, ~Overtaken(r)
      PROVE  /\ mine[r] = RowsOf(image, Subject(r))
             /\ Cardinality(Ids(mine[r])) \in 1..MaxImages
             /\ Primaries(mine[r]) = {product[Subject(r)].cover}
             /\ loaded[r].cover = product[Subject(r)].cover
  <2>1. mine[r] = RowsOf(image, Subject(r))
    BY <1>5 DEF Overtaken
  <2>2. InStep(Subject(r))
    BY <1>1, <1>5, ProductRowIs, DatabaseIs DEF PhotosInStep
  <2>3. Primaries(mine[r]) = {loaded[r].cover}
    BY <1>2, <1>5 DEF SessionOK
  <2> QED BY <2>1, <2>2, <2>3 DEF InStep
<1> QED BY <1>1, <1>2, <1>3, <1>4, <1>5 DEF SessionOK, Ids

LEMMA NotedRace ==
    ASSUME NEW r \in Request, NoteRace(r)
    PROVE  /\ raced' \in {raced, raced \cup {Subject(r)}} /\ (pc'[r] = "error" => raced' = raced)
           /\ Subject(r) \notin raced' /\ pc'[r] # "error" => Subject(r) \notin raced /\ ~Overtaken(r)
BY DEF NoteRace

\* What a request on photos leaves behind: if nobody has overtaken it, its session holds
\* what is stored.
Leaves(r) ==
    /\ Keeps(r, image')
    /\ pc'[r] \in {"ok", "error", "deleting"} /\ (pc'[r] = "deleting" => req'[r] = req[r])
    /\ \A s \in Request \ {r} : pc'[s] = pc[s] /\ req'[s] = req[s] /\ mine'[s] = mine[s]
    /\ \A p \in Product : product[p] # NoRow => product'[p] # NoRow
    /\ raced' \subseteq raced \cup {Subject(r)}
    /\ ~Overtaken(r) => raced' = raced
    /\ pc'[r] = "error" => UNCHANGED << image, raced >>
    /\ pc'[r] # "error" /\ Subject(r) \notin raced' => mine'[r] = RowsOf(image', Subject(r))

LEMMA AnswerLeaves == ASSUME IInv, NEW r \in Request, Answer(r, "error") PROVE Leaves(r)
<1>1. End(r, "error", NoRows) /\ UNCHANGED << product, image, raced >>
  BY DEF Answer, database
<1>2. /\ pc'[r] = "error"
      /\ \A s \in Request \ {r} : pc'[s] = pc[s] /\ req'[s] = req[s] /\ mine'[s] = mine[s]
  BY <1>1, EndIs, NoRowsIs DEF Ended
<1>3. Keeps(r, image')
  BY <1>1 DEF Keeps
<1> QED BY <1>1, <1>2, <1>3 DEF Leaves

LEMMA CommitLeaves ==
    ASSUME IInv, NEW r \in Request, NEW row \in ProductRow, NEW rows, NEW session \in Rows,
           Commit(r, row, rows, session), NoteRace(r), Keeps(r, rows),
           Subject(r) \notin raced' /\ pc'[r] = "ok" => RowsOf(rows, Subject(r)) = session
    PROVE  Leaves(r)
<1>1. CASE End(r, "error", NoRows) /\ UNCHANGED database
  <2>1. pc'[r] = "error"
    BY <1>1, DatabaseIs DEF End
  <2> QED BY <1>1, <2>1, AnswerLeaves, NotedRace DEF Answer
<1>2. CASE product' = [product EXCEPT ![Subject(r)] = row] /\ image' = rows /\ End(r, "ok", session)
  <2>1. /\ pc'[r] = "ok"
        /\ \A s \in Request \ {r} : pc'[s] = pc[s] /\ req'[s] = req[s] /\ mine'[s] = mine[s]
    BY <1>2, EndIs DEF Ended
  <2>2. mine'[r] = session
    BY <1>2, DatabaseIs DEF End
  <2>3. \A p \in Product : product[p] # NoRow => product'[p] # NoRow
    BY <1>2, ProductRowIs, DatabaseIs
  <2> QED BY <1>2, <2>1, <2>2, <2>3, NotedRace DEF Leaves, NoteRace
<1> QED BY <1>1, <1>2 DEF Commit

LEMMA AddImagesStep == ASSUME IInv, NEW r \in Request, AddImages(r) PROVE IInv' /\ Leaves(r)
<1> DEFINE p == Subject(r)
           w == Primaries(mine[r]) = {}
           new == NewRows(p, req[r].new, NextPosition(mine[r]), w)
           session == Insert(mine[r], new)
           rows == Insert(image, new)
           row == SyncCover(r, session)
<1>1. pc[r] = "loaded" /\ req[r].op = "add" /\ Commit(r, row, rows, session) /\ NoteRace(r)
  BY DEF AddImages, CommitPhotos, Asks
<1>2. /\ UnderWay(r) /\ p \in Product /\ product[p] \in ProductRow /\ req[r].new \in Upload
      /\ mine[r] \in Rows /\ NextPosition(mine[r]) \in Nat /\ w \in BOOLEAN
  BY <1>1, PhotoHandler, RequestIs, NextPositionIs DEF PhotoOp
<1>3. /\ new \in Rows /\ rows \in Rows /\ Keeps(r, rows)
      /\ Primaries(RowsOf(rows, p)) = Primaries(RowsOf(image, p)) \cup IF w THEN {req[r].new[1]} ELSE {}
      /\ Cardinality(Ids(RowsOf(rows, p))) = Cardinality(Ids(RowsOf(image, p))) + Len(req[r].new)
      /\ RowsOf(rows, p) = Insert(RowsOf(image, p), new)
  <2> HIDE DEF w
  <2> QED BY <1>2, Uploaded
<1> HIDE DEF new, rows
<1>4. session \in Rows
  BY <1>2, <1>3, InsertIs
<1>5. /\ row \in ProductRow
      /\ \A f : Primaries(session) = {f} => row.cover = IF f = loaded[r].cover THEN product[p].cover ELSE f
  BY <1>2, <1>4, SyncCoverIs
<1>6. ASSUME p \notin raced', pc'[r] = "ok" PROVE Fits(rows, p, row) /\ RowsOf(rows, p) = session
  <2>1. p \notin raced /\ ~Overtaken(r)
    BY <1>1, <1>6, NotedRace
  <2>2. /\ mine[r] = RowsOf(image, p) /\ Cardinality(Ids(mine[r])) \in 1..MaxImages
        /\ Primaries(mine[r]) = {product[p].cover} /\ loaded[r].cover = product[p].cover
    BY <1>1, <2>1, PhotoHandler DEF PhotoOp
  <2>3. ~w
    BY <2>2
  <2>4. RowsOf(rows, p) = session /\ Primaries(session) = {product[p].cover}
    BY <1>3, <2>2, <2>3
  <2>5. row.cover = product[p].cover
    BY <1>5, <2>2, <2>4
  <2>6. Cardinality(Ids(RowsOf(rows, p))) \in 1..MaxImages
    <3>1. Cardinality(Ids(mine[r])) + Len(req[r].new) <= MaxImages
      BY <1>1, RequestIs DEF SessionOK, PhotoOp
    <3>2. Len(req[r].new) \in 1..MaxImages
      BY <1>2, UploadIs
    <3> QED BY <1>3, <2>2, <3>1, <3>2, ImagesAssumption
  <2> QED BY <2>4, <2>5, <2>6 DEF Fits
<1> HIDE DEF row, session
<1>7. Leaves(r)
  BY <1>1, <1>3, <1>4, <1>5, <1>6, CommitLeaves
<1>8. IInv'
  BY <1>1, <1>3, <1>4, <1>5, <1>6, NotedRace, CommitStep
<1> QED BY <1>7, <1>8

\* The rows that may remain when RemoveImage takes its photo out, and what they are like.
MayRemain(session, r) ==
    LET rest == Without(mine[r], req[r].target) IN
    session \in IF mine[r][req[r].target].primary /\ Ids(rest) # {} THEN Promotions(rest) ELSE {rest}
Remains(session, r) ==
    LET t == req[r].target
        rest == Without(mine[r], t)
    IN  /\ t \in Ids(mine[r]) /\ rest \in Rows /\ session \in Rows
        /\ Ids(session) = Ids(mine[r]) \ {t} /\ session[t] = NoRow
        /\ \A f \in Ids(session) : session[f] \in ImageRow /\ session[f].product = Subject(r)
        /\ \A f \in Photo : session[f] # rest[f] => f \in Ids(session)
        /\ \A f \in Photo \ {t} : rest[f] = mine[r][f]
        /\ \A c : Primaries(mine[r]) = {c} /\ Cardinality(Ids(mine[r])) > 1 =>
             IF c = t THEN session # rest /\ \E h : h # t /\ Primaries(session) = {h}
             ELSE session = rest /\ Primaries(session) = {c}

LEMMA Removed ==
    ASSUME IInv, NEW r \in Request, pc[r] = "loaded", req[r].op = "remove",
           NEW session, MayRemain(session, r)
    PROVE  Remains(session, r)
<1> DEFINE t == req[r].target
           rest == Without(mine[r], t)
<1>1. t \in Ids(mine[r]) /\ mine[r] \in Rows
  BY RequestIs DEF SessionOK, PhotoOp
<1>2. \A f \in Ids(mine[r]) : mine[r][f] \in ImageRow /\ mine[r][f].product = Subject(r) /\ f \in Photo
  BY PhotoHandler DEF PhotoOp
<1>3. rest \in Rows /\ rest[t] = NoRow /\ \A f \in Photo \ {t} : rest[f] = mine[r][f]
  BY <1>1, <1>2 DEF Without, Rows
<1> HIDE DEF rest
<1>4. Ids(rest) = Ids(mine[r]) \ {t}
  BY <1>3 DEF Ids
<1>5. Primaries(rest) = Primaries(mine[r]) \ {t}
  BY <1>3, <1>4 DEF Primaries, Ids
<1>6. mine[r][t].primary => t \in Primaries(mine[r])
  BY <1>1 DEF Primaries
<1>7. CASE mine[r][t].primary /\ Ids(rest) # {}
  <2>1. PICK heir \in Ids(rest) : session = [rest EXCEPT ![heir].primary = TRUE]
    BY <1>7 DEF MayRemain, Promotions, rest
  <2> DEFINE x == rest[heir]
             y == [x EXCEPT !.primary = TRUE]
  <2>2. x \in ImageRow /\ x.product = Subject(r) /\ heir \in Photo /\ heir # t
    BY <1>2, <1>3, <1>4
  <2>3. y \in ImageRow /\ y # NoRow /\ y.product = Subject(r) /\ y.primary
    BY <2>2, ImageRowIs
  <2>4. session = [rest EXCEPT ![heir] = y]
    BY <2>1
  <2> HIDE DEF y, x
  <2>5. session \in Rows /\ session[heir] = y /\ \A f \in Photo \ {heir} : session[f] = rest[f]
    BY <1>3, <2>2, <2>3, <2>4 DEF Rows
  <2>6. Ids(session) = Ids(rest)
    BY <2>3, <2>5 DEF Ids
  <2>7. \A f \in Ids(session) : session[f] \in ImageRow /\ session[f].product = Subject(r)
    BY <1>2, <1>3, <1>4, <2>3, <2>5, <2>6
  <2>8. session[t] = NoRow /\ \A f \in Photo : session[f] # rest[f] => f \in Ids(session)
    BY <1>1, <1>2, <1>3, <2>2, <2>5, <2>6
  <2>9. ASSUME NEW c, Primaries(mine[r]) = {c}
        PROVE  c = t /\ session # rest /\ heir # t /\ Primaries(session) = {heir}
    <3>1. c = t /\ Primaries(rest) = {}
      BY <1>5, <1>6, <1>7, <2>9
    <3>2. ~rest[heir].primary
      BY <3>1 DEF Primaries
    <3>3. Primaries(session) = {heir}
      BY <2>2, <2>3, <2>5, <2>6, <3>1 DEF Primaries, Ids
    <3> QED BY <2>2, <2>3, <2>5, <3>1, <3>2, <3>3
  <2> QED BY <1>1, <1>3, <1>4, <2>5, <2>6, <2>7, <2>8, <2>9 DEF Remains, rest
<1>8. CASE ~(mine[r][t].primary /\ Ids(rest) # {})
  <2>1. session = rest
    BY <1>8 DEF MayRemain, rest
  <2>2. \A f \in Ids(session) : session[f] \in ImageRow /\ session[f].product = Subject(r)
    BY <1>2, <1>3, <1>4, <2>1
  <2>3. ASSUME NEW c, Primaries(mine[r]) = {c}, Cardinality(Ids(mine[r])) > 1
        PROVE  c # t /\ Primaries(session) = {c}
    <3>1. Ids(rest) # {}
      <4> SUFFICES ASSUME Ids(mine[r]) = {t} PROVE FALSE
        BY <1>1, <1>4
      <4>1. Cardinality({t}) = 1
        BY FS_Singleton
      <4> QED BY <2>3, <4>1
    <3>2. ~mine[r][t].primary
      BY <1>8, <3>1
    <3>3. c # t
      BY <2>3, <3>2 DEF Primaries
    <3> QED BY <1>5, <2>1, <2>3, <3>3
  <2> QED BY <1>1, <1>3, <1>4, <2>1, <2>2, <2>3 DEF Remains, rest
<1> QED BY <1>7, <1>8

LEMMA RemoveImageStep == ASSUME IInv, NEW r \in Request, RemoveImage(r) PROVE IInv' /\ Leaves(r)
<1> DEFINE p == Subject(r)
           t == req[r].target
           rest == Without(mine[r], t)
           of(session) == [f \in Photo |-> IF f = t THEN NoRow
                                           ELSE IF session[f] # rest[f] THEN session[f] ELSE image[f]]
           at(session) == IF session = rest THEN product[p] ELSE SyncCover(r, session)
<1>1. pc[r] = "loaded" /\ req[r].op = "remove"
  BY DEF RemoveImage, Asks
<1>2. PICK session \in IF mine[r][t].primary /\ Ids(rest) # {} THEN Promotions(rest) ELSE {rest} :
        IF PrimaryIndex(of(session)) /\ \A f \in Photo : session[f] # rest[f] => image[f] # NoRow
        THEN /\ product' = [product EXCEPT ![p] = at(session)] /\ image' = of(session)
             /\ pc' = [pc EXCEPT ![r] = "deleting"] /\ mine' = [mine EXCEPT ![r] = session]
             /\ NoteRace(r) /\ UNCHANGED << objects, drawn, req, loaded >>
        ELSE Answer(r, "error")
  BY DEF RemoveImage
<1> DEFINE rows == of(session)
           row == at(session)
           fine == PrimaryIndex(rows) /\ \A f \in Photo : session[f] # rest[f] => image[f] # NoRow
<1>3. CASE ~fine
  BY <1>2, <1>3, AnswerStep, AnswerLeaves DEF Ended
<1>4. CASE fine
  <2>1. /\ product' = [product EXCEPT ![p] = row] /\ image' = rows
        /\ pc' = [pc EXCEPT ![r] = "deleting"] /\ mine' = [mine EXCEPT ![r] = session]
        /\ NoteRace(r) /\ UNCHANGED << objects, drawn, req, loaded >>
    BY <1>2, <1>4
  <2>2. /\ t \in Ids(mine[r]) /\ session \in Rows
        /\ Ids(session) = Ids(mine[r]) \ {t} /\ session[t] = NoRow
        /\ \A f \in Ids(session) : session[f] \in ImageRow /\ session[f].product = Subject(r)
        /\ \A f \in Photo : session[f] # rest[f] => f \in Ids(session)
        /\ \A f \in Photo \ {t} : rest[f] = mine[r][f]
        /\ \A c : Primaries(mine[r]) = {c} /\ Cardinality(Ids(mine[r])) > 1 =>
             IF c = t THEN session # rest /\ \E h : h # t /\ Primaries(session) = {h}
             ELSE session = rest /\ Primaries(session) = {c}
    <3>1. MayRemain(session, r)
      BY <1>2 DEF MayRemain
    <3>2. Remains(session, r)
      BY <1>1, <3>1, Removed
    <3> QED BY <3>2 DEF Remains
  <2>3. /\ UnderWay(r) /\ p \in Product /\ product[p] \in ProductRow
        /\ \A f \in Ids(mine[r]) : /\ f \in Ids(image) => image[f].product = p
                                   /\ f \in drawn /\ f \in Photo /\ \A s \in Request : f \notin New(s)
    BY <1>1, PhotoHandler DEF PhotoOp
  <2>4. \A f \in Photo : session[f] # rest[f] => image[f] # NoRow
    BY <1>4
  <2>5. /\ row \in ProductRow
        /\ session = rest => row = product[p]
        /\ \A f : session # rest /\ Primaries(session) = {f} =>
                row.cover = IF f = loaded[r].cover THEN product[p].cover ELSE f
    <3> DEFINE synced == SyncCover(r, session)
    <3>1. /\ synced \in ProductRow
          /\ \A f : Primaries(session) = {f} => synced.cover = IF f = loaded[r].cover THEN product[p].cover ELSE f
      BY <2>2, <2>3, SyncCoverIs
    <3>2. row = IF session = rest THEN product[p] ELSE synced
      OBVIOUS
    <3> HIDE DEF synced, row, rest
    <3> QED BY <2>3, <3>1, <3>2
  <2>6. \A f \in Photo : rows[f] = IF f = t THEN NoRow
                                   ELSE IF session[f] # rest[f] THEN session[f] ELSE image[f]
    OBVIOUS
  <2>7. rows \in Rows
    <3>1. \A f \in Photo : rows[f] \in ImageRow \cup {NoRow}
      BY <2>2, <2>6, DatabaseIs DEF Rows
    <3> QED BY <3>1 DEF Rows
  <2> HIDE DEF rows, row, rest, fine
  <2>8. Keeps(r, rows)
    <3>1. ASSUME NEW f \in Ids(rows)
          PROVE  f \in Ids(image) /\ rows[f].product = image[f].product
      <4>1. f \in Photo /\ f # t /\ rows[f] # NoRow
        BY <2>6, <3>1 DEF Ids
      <4>2. CASE session[f] # rest[f]
        BY <2>2, <2>3, <2>4, <2>6, <4>1, <4>2 DEF Ids
      <4>3. CASE session[f] = rest[f]
        BY <2>6, <4>1, <4>3 DEF Ids
      <4> QED BY <4>2, <4>3
    <3>2. ASSUME NEW f \in Ids(image), image[f].product # p PROVE rows[f] = image[f]
      <4>1. f \in Photo /\ f \notin Ids(mine[r])
        BY <2>3, <3>2 DEF Ids
      <4> QED BY <2>2, <2>6, <4>1
    <3> QED BY <3>1, <3>2 DEF Keeps
  <2>9. ASSUME p \notin raced' PROVE Fits(rows, p, row) /\ RowsOf(rows, p) = session
    <3>1. pc'[r] # "error"
      BY <2>1, DatabaseIs
    <3>2. p \notin raced /\ ~Overtaken(r)
      BY <2>1, <2>9, <3>1, NotedRace
    <3>3. /\ mine[r] = RowsOf(image, p) /\ Cardinality(Ids(mine[r])) \in 1..MaxImages
          /\ Primaries(mine[r]) = {product[p].cover} /\ loaded[r].cover = product[p].cover
          /\ IsFiniteSet(Ids(mine[r])) /\ Cardinality(Ids(mine[r])) > 1
      BY <1>1, <3>2, PhotoHandler, RequestIs DEF PhotoOp, SessionOK
    <3>4. RowsOf(rows, p) = session
      <4>1. ASSUME NEW f \in Photo PROVE RowsOf(rows, p)[f] = session[f]
        <5>1. RowsOf(rows, p)[f] = IF rows[f] # NoRow /\ rows[f].product = p THEN rows[f] ELSE NoRow
          BY DEF RowsOf
        <5>2. mine[r][f] = IF image[f] # NoRow /\ image[f].product = p THEN image[f] ELSE NoRow
          BY <3>3 DEF RowsOf
        <5>3. CASE f = t
          BY <2>2, <2>6, <5>1, <5>3
        <5>4. CASE f # t /\ session[f] # rest[f]
          BY <2>2, <2>6, <5>1, <5>4 DEF Ids
        <5>5. CASE f # t /\ session[f] = rest[f]
          BY <2>2, <2>6, <5>1, <5>2, <5>5
        <5> QED BY <5>3, <5>4, <5>5
      <4> QED BY <2>2, <4>1 DEF RowsOf, Rows
    <3>5. Cardinality(Ids(session)) \in 1..MaxImages
      <4>1. Cardinality(Ids(session)) = Cardinality(Ids(mine[r])) - 1
        <5>1. Cardinality(Ids(mine[r]) \ {t}) = Cardinality(Ids(mine[r])) - 1
          BY <2>2, <3>3, FS_RemoveElement
        <5> QED BY <2>2, <5>1
      <4> QED BY <3>3, <4>1, ImagesAssumption
    <3>6. Primaries(session) = {row.cover}
      BY <2>2, <2>5, <3>3
    <3> QED BY <3>4, <3>5, <3>6 DEF Fits
  <2>10. raced' \in {raced, raced \cup {p}}
    BY <2>1, NotedRace
  <2>11. /\ pc' \in [Request -> Steps] /\ mine' \in [Request -> Rows] /\ pc'[r] = "deleting"
         /\ \A s \in Request \ {r} : pc'[s] = pc[s] /\ mine'[s] = mine[s]
    BY <2>1, <2>2, DatabaseIs DEF Steps
  <2>12. New(r)' = New(r) /\ Subject(r)' = p /\ UnderWay(r)'
    BY <2>1, <2>11 DEF New, Subject, UnderWay
  <2>13. RequestOK(r)'
    <3>1. product'[p] # NoRow /\ New(r) = {}
      BY <1>1, <2>1, <2>3, <2>5, ProductRowIs, RequestIs, DatabaseIs
    <3> QED BY <1>1, <2>1, <2>3, <2>11, <2>12, <3>1 DEF RequestOK
  <2>14. SessionOK(r)'
    BY <2>11 DEF SessionOK
  <2>15. req'[r].target \in drawn \ (Ids(rows) \cup UNION {New(s) : s \in Request})
    BY <2>1, <2>2, <2>3, <2>6 DEF Ids
  <2>16. Leaves(r)
    <3>1. mine'[r] = session
      BY <2>1, DatabaseIs
    <3>2. \A q \in Product : product[q] # NoRow => product'[q] # NoRow
      BY <2>1, <2>5, ProductRowIs, DatabaseIs
    <3>3. ~Overtaken(r) => raced' = raced
      BY <2>1 DEF NoteRace
    <3> QED BY <2>1, <2>8, <2>9, <2>10, <2>11, <3>1, <3>2, <3>3 DEF Leaves
  <2>17. IInv'
    BY <1>1, <2>1, <2>5, <2>7, <2>8, <2>9, <2>10, <2>11, <2>12, <2>13, <2>14, <2>15,
       CommittedStep, DatabaseIs
  <2> QED BY <2>16, <2>17
<1> QED BY <1>3, <1>4

LEMMA SetPrimaryImageStep == ASSUME IInv, NEW r \in Request, SetPrimaryImage(r) PROVE IInv' /\ Leaves(r)
<1> DEFINE p == Subject(r)
           t == req[r].target
           set(f) == [mine[r][f] EXCEPT !.primary = (f = t)]
           session == [f \in Photo |-> IF mine[r][f] = NoRow THEN NoRow ELSE set(f)]
           written == {f \in Photo : session[f] # mine[r][f]}
           rows == [f \in Photo |-> IF f \in written /\ image[f] # NoRow THEN session[f] ELSE image[f]]
           row == SyncCover(r, session)
<1>1. pc[r] = "loaded" /\ req[r].op = "primary"
  BY DEF SetPrimaryImage, Asks
<1>2. IF \E f \in written : image[f] = NoRow THEN Answer(r, "error")
      ELSE Commit(r, row, rows, session) /\ NoteRace(r)
  BY DEF SetPrimaryImage, CommitPhotos
<1>3. /\ UnderWay(r) /\ p \in Product /\ product[p] \in ProductRow
      /\ t \in Ids(mine[r]) /\ mine[r] \in Rows
      /\ \A f \in Ids(mine[r]) : /\ mine[r][f] \in ImageRow /\ mine[r][f].product = p /\ f \in Photo
                                 /\ f \in Ids(image) => image[f].product = p
  BY <1>1, PhotoHandler, RequestIs DEF PhotoOp, SessionOK
<1>4. \A f \in Ids(mine[r]) : set(f) \in ImageRow /\ set(f) # NoRow /\ set(f).product = p /\ set(f).primary = (f = t)
  <2> TAKE f \in Ids(mine[r])
  <2> DEFINE b == f = t
             x == mine[r][f]
  <2>1. b \in BOOLEAN /\ x \in ImageRow /\ x.product = p
    BY <1>3
  <2> HIDE DEF b, x
  <2>2. LET y == [x EXCEPT !.primary = b] IN y \in ImageRow /\ y # NoRow /\ y.product = p /\ y.primary = b
    BY <2>1, ImageRowIs
  <2> QED BY <2>2 DEF b, x
<1>5. /\ \A f \in Photo : session[f] = IF f \in Ids(mine[r]) THEN set(f) ELSE NoRow
      /\ \A f \in Photo : rows[f] = IF f \in written /\ image[f] # NoRow THEN session[f] ELSE image[f]
  BY DEF Ids
<1> HIDE DEF set
<1>6. session \in Rows /\ Ids(session) = Ids(mine[r])
  <2>1. \A f \in Photo : session[f] \in ImageRow \cup {NoRow}
    BY <1>4, <1>5
  <2>2. session \in Rows
    BY <2>1 DEF Rows
  <2> HIDE DEF session
  <2>3. Ids(session) = Ids(mine[r])
    BY <1>3, <1>4, <1>5 DEF Ids
  <2> QED BY <2>2, <2>3
<1>7. Primaries(session) = {t}
  <2> HIDE DEF session
  <2> QED BY <1>3, <1>4, <1>5, <1>6 DEF Primaries
<1>8. written \subseteq Ids(mine[r]) /\ \A f \in Photo \ written : session[f] = mine[r][f]
  BY <1>5 DEF Ids
<1>9. /\ row \in ProductRow
      /\ row.cover = IF t = loaded[r].cover THEN product[p].cover ELSE t
  <2> HIDE DEF session
  <2> QED BY <1>3, <1>6, <1>7, SyncCoverIs
<1> HIDE DEF session, written, row
<1>10. rows \in Rows
  <2>1. \A f \in Photo : rows[f] \in ImageRow \cup {NoRow}
    BY <1>5, <1>6, DatabaseIs DEF Rows
  <2> QED BY <2>1 DEF Rows
<1> HIDE DEF rows
<1>11. Keeps(r, rows)
  <2>1. ASSUME NEW f \in Ids(rows) PROVE f \in Ids(image) /\ rows[f].product = image[f].product
    <3>1. f \in Photo /\ rows[f] # NoRow
      BY <2>1 DEF Ids
    <3>2. CASE f \in written
      BY <1>3, <1>4, <1>5, <1>8, <3>1, <3>2 DEF Ids
    <3>3. CASE f \notin written
      BY <1>5, <3>1, <3>3 DEF Ids
    <3> QED BY <3>2, <3>3
  <2>2. ASSUME NEW f \in Ids(image), image[f].product # p PROVE rows[f] = image[f]
    <3>1. f \in Photo /\ f \notin written
      BY <1>3, <1>8, <2>2 DEF Ids
    <3> QED BY <1>5, <3>1
  <2> QED BY <2>1, <2>2 DEF Keeps
<1>12. CASE \E f \in written : image[f] = NoRow
  BY <1>2, <1>12, AnswerStep, AnswerLeaves DEF Ended
<1>13. CASE ~\E f \in written : image[f] = NoRow
  <2>1. ASSUME p \notin raced', pc'[r] = "ok" PROVE Fits(rows, p, row) /\ RowsOf(rows, p) = session
    <3>1. p \notin raced /\ ~Overtaken(r)
      BY <1>2, <1>13, <2>1, NotedRace
    <3>2. /\ mine[r] = RowsOf(image, p) /\ Cardinality(Ids(mine[r])) \in 1..MaxImages
          /\ loaded[r].cover = product[p].cover
      BY <1>1, <3>1, PhotoHandler DEF PhotoOp
    <3>3. RowsOf(rows, p) = session
      <4>1. ASSUME NEW f \in Photo PROVE RowsOf(rows, p)[f] = session[f]
        <5>1. RowsOf(rows, p)[f] = IF rows[f] # NoRow /\ rows[f].product = p THEN rows[f] ELSE NoRow
          BY DEF RowsOf
        <5>2. mine[r][f] = IF image[f] # NoRow /\ image[f].product = p THEN image[f] ELSE NoRow
          BY <3>2 DEF RowsOf
        <5>3. CASE f \in written
          BY <1>3, <1>4, <1>5, <1>8, <1>13, <5>1, <5>3
        <5>4. CASE f \notin written
          BY <1>5, <1>8, <5>1, <5>2, <5>4
        <5> QED BY <5>3, <5>4
      <4> QED BY <1>6, <4>1 DEF RowsOf, Rows
    <3>4. row.cover = t
      BY <1>9, <3>2
    <3> QED BY <1>6, <1>7, <3>2, <3>3, <3>4 DEF Fits
  <2>2. Commit(r, row, rows, session) /\ NoteRace(r)
    BY <1>2, <1>13
  <2>3. Leaves(r)
    BY <1>6, <1>9, <1>11, <2>1, <2>2, CommitLeaves
  <2>4. IInv'
    BY <1>1, <1>6, <1>9, <1>10, <1>11, <2>1, <2>2, NotedRace, CommitStep
  <2> QED BY <2>3, <2>4
<1> QED BY <1>12, <1>13

LEMMA DeleteObjectStep == ASSUME IInv, NEW r \in Request, DeleteObject(r) PROVE IInv'
BY EndStep, RequestIs DEF DeleteObject, Ended

LEMMA FailStep == ASSUME IInv, NEW r \in Request, Fail(r) PROVE IInv'
BY AnswerStep DEF Fail, Ended

LEMMA HandleStep == ASSUME IInv, NEW r \in Request, Handle(r) PROVE IInv'
BY LookUpBarcodeStep, CreateProductStep, LoadsStep, ProductStep, AddImagesStep, RemoveImageStep,
   DeleteObjectStep, SetPrimaryImageStep DEF Handle

-----------------------------------------------------------------------------
(* The invariant.                                                          *)

LEMMA InitInv == Init => IInv
<1> SUFFICES ASSUME Init PROVE IInv
  OBVIOUS
<1>1. PICK p \in Product, upload \in Upload, c \in Code :
        /\ product = [q \in Product |-> IF q = p THEN [code |-> c, active |-> TRUE, cover |-> upload[1]]
                                        ELSE NoRow]
        /\ image = NewRows(p, upload, 0, TRUE)
        /\ objects = Ids(image) /\ drawn = objects
  BY DEF Init
<1>2. /\ pc = [r \in Request |-> "idle"] /\ req = [r \in Request |-> Nothing]
      /\ loaded = [r \in Request |-> NoRow] /\ mine = [r \in Request |-> NoRows] /\ raced = {}
  BY DEF Init
<1> DEFINE row == [code |-> c, active |-> TRUE, cover |-> upload[1]]
<1>3. row \in ProductRow /\ row.cover = upload[1]
  BY UploadIs DEF ProductRow
<1> HIDE DEF row
<1>4. product \in [Product -> ProductRow \cup {NoRow}] /\ product[p] = row /\ \A q \in Product \ {p} : product[q] = NoRow
  BY <1>1, <1>3 DEF row
<1>5. /\ image \in Rows /\ Ids(image) = Of(upload) /\ \A f \in Of(upload) : image[f].product = p
      /\ Primaries(image) = {upload[1]}
  <2> DEFINE rows == NewRows(p, upload, 0, TRUE)
  <2>1. /\ rows \in Rows /\ Ids(rows) = Of(upload) /\ \A f \in Of(upload) : rows[f].product = p
        /\ Primaries(rows) = {upload[1]}
    BY NewRowsIs
  <2>2. image = rows
    BY <1>1
  <2> HIDE DEF rows
  <2> QED BY <2>1, <2>2
<1>6. row # NoRow /\ Ids(image) \subseteq Photo
  BY <1>3, ProductRowIs DEF Ids
<1>7. TypeOK
  BY <1>1, <1>2, <1>4, <1>5, <1>6, NothingIs, NoRowsIs DEF TypeOK, Rows
<1>8. PhotosOK
  <2>1. \A r \in Request : New(r) = {}
    BY <1>2, NothingIs DEF New, Of
  <2> QED BY <1>1, <1>2, <1>4, <1>5, <1>6, <2>1 DEF PhotosOK
<1>9. PhotosInStep
  <2>1. ASSUME NEW q \in Product, product[q] # NoRow PROVE InStep(q)
    <3>1. q = p
      BY <1>4, <2>1
    <3>2. Ids(RowsOf(image, p)) = Of(upload)
      <4>1. Ids(RowsOf(image, p)) = {f \in Ids(image) : image[f].product = p}
        BY <1>5, RowsOfIs
      <4> QED BY <1>5, <4>1
    <3>3. Primaries(RowsOf(image, p)) = {upload[1]}
      <4>1. Primaries(RowsOf(image, p)) = {f \in Ids(image) : image[f].product = p /\ image[f].primary}
        BY <1>5, RowsOfIs
      <4>2. Primaries(image) = {f \in Ids(image) : image[f].primary}
        BY DEF Primaries
      <4> QED BY <1>5, <4>1, <4>2
    <3> QED BY <1>3, <1>4, <3>1, <3>2, <3>3, UploadIs DEF InStep
  <2> QED BY <2>1 DEF PhotosInStep
<1>10. \A r \in Request : RequestOK(r) /\ SessionOK(r)
  BY <1>2 DEF RequestOK, SessionOK, UnderWay
<1> QED BY <1>7, <1>8, <1>9, <1>10 DEF IInv

LEMMA StutterInv == ASSUME IInv, UNCHANGED serverVars PROVE IInv'
<1>1. UNCHANGED << product, image, objects, drawn, pc, req, loaded, mine, raced >>
  BY DEF serverVars, database, handlers
<1>2. TypeOK'
  BY <1>1, DatabaseIs, TypedAgain
<1>3. \A r \in Request : New(r)' = New(r) /\ Subject(r)' = Subject(r)
  BY <1>1 DEF New, Subject
<1>4. \A r \in Request : RequestOK(r)' /\ SessionOK(r)'
  BY <1>1, <1>3, OthersStay
<1>5. PhotosOK'
  <2>1. UNION {New(r)' : r \in Request} = UNION {New(r) : r \in Request} /\ Ids(image)' = Ids(image)
    BY <1>1, <1>3 DEF Ids
  <2> QED BY <1>1, <1>3, <2>1, DatabaseIs DEF PhotosOK
<1>6. PhotosInStep'
  BY <1>1, DatabaseIs, RowsStay
<1> QED BY <1>2, <1>4, <1>5, <1>6 DEF IInv

LEMMA NextInv == IInv /\ [Next]_serverVars => IInv'
BY ArriveStep, HandleStep, FailStep, StutterInv DEF Next

\* Every state of the product administration satisfies the inductive invariant.
THEOREM Invariance == Spec => []IInv
<1>1. Init => IInv
  BY InitInv
<1>2. IInv /\ [Next]_serverVars => IInv'
  BY NextInv
<1> QED BY <1>1, <1>2, PTL DEF Spec

\* In step, a cover is one of the photos of its product.
LEMMA FilesOfRows == IInv => PhotoFilesExist
<1> SUFFICES ASSUME IInv PROVE PhotoFilesExist
  OBVIOUS
<1>1. \A f \in Photo : image[f] # NoRow => f \in objects
  BY DEF IInv, PhotosOK, Ids
<1>2. ASSUME NEW p \in Product \ raced, product[p] # NoRow PROVE product[p].cover \in objects
  <2>1. product[p].cover \in Primaries(RowsOf(image, p))
    BY <1>2 DEF IInv, PhotosInStep, InStep
  <2>2. product[p].cover \in Ids(image)
    <3>1. image \in Rows /\ p \in Product
      BY <1>2, DatabaseIs DEF IInv
    <3>2. Primaries(RowsOf(image, p)) \subseteq Ids(image)
      BY <3>1, RowsOfIs
    <3> QED BY <2>1, <3>2
  <2> QED BY <2>2 DEF IInv, PhotosOK
<1> QED BY <1>1, <1>2 DEF PhotoFilesExist

\* Whatever fails between the steps of the handlers (routers/products_admin.py), no
\* photo row names a file that is not stored, and no cover does unless requests on the
\* photos of its product have overlapped.
THEOREM PhotosCanBeFetched == Spec => []PhotoFilesExist
BY FilesOfRows, Invariance, PTL

\* A product has at least one photo and at most the maximum, and its cover is its primary
\* one, unless two requests on its photos have overlapped.
THEOREM CoverIsPrimaryPhoto == Spec => []PhotosInStep
<1>1. IInv => PhotosInStep
  BY DEF IInv
<1> QED BY <1>1, Invariance, PTL

-----------------------------------------------------------------------------
(* Barcodes: what every commit does to them, the catalog does in one step. *)

LEMMA InitRefines == Init => Barcodes!Init
<1> SUFFICES ASSUME Init PROVE Barcodes!Init
  OBVIOUS
<1>1. TypeOK
  BY InitInv DEF IInv
<1>2. PICK p \in Product : \A q \in Product \ {p} : product[q] = NoRow
  BY DEF Init
<1>3. \A q \in Product : product[q] # NoRow => product[q].code \in Code
  BY <1>1, ProductRowIs DEF TypeOK
<1> QED BY <1>2, <1>3 DEF Barcodes!Init, Barcodes!Free, Code

Refines == [Barcodes!Next]_(Barcodes!catalog)

\* One product row is written, and the index accepts it.
LEMMA WriteRefines ==
    ASSUME IInv, NEW p \in Product, NEW row \in ProductRow, product' = [product EXCEPT ![p] = row],
           BarcodeIndex(product'),
           IF product[p] = NoRow THEN row.active
           ELSE row.active = product[p].active \/ row.code = product[p].code
    PROVE  Refines
<1> DEFINE code(x) == IF x = NoRow THEN NoBarcode ELSE x.code
           barcode == [q \in Product |-> code(product[q])]
<1>1. /\ product'[p] = row /\ row # NoRow /\ \A q \in Product \ {p} : product'[q] = product[q]
      /\ \A q \in Product : product[q] # NoRow => product[q] \in ProductRow
  BY ProductRowIs, DatabaseIs
<1>2. row.active => row.code = NoBarcode \/
        \A q \in {q \in Product : product[q] # NoRow /\ product[q].active} \ {p} : code(product[q]) # row.code
  <2> SUFFICES ASSUME row.active, row.code # NoBarcode, NEW q \in Product, product[q] # NoRow,
                      product[q].active, q # p
               PROVE  product[q].code # row.code
    OBVIOUS
  <2>1. product'[q] = product[q]
    BY <1>1
  <2> QED BY <1>1, <2>1 DEF BarcodeIndex
<1>3. [q \in Product |-> code(product'[q])] = [barcode EXCEPT ![p] = row.code]
  <2>1. \A q \in Product : code(product'[q]) = IF q = p THEN row.code ELSE code(product[q])
    BY <1>1
  <2> HIDE DEF code
  <2> QED BY <2>1
<1>4. {q \in Product : product'[q] # NoRow} = {q \in Product : product[q] # NoRow} \cup {p}
  BY <1>1
<1>5. {q \in Product : product'[q] # NoRow /\ product'[q].active}
        = IF row.active THEN {q \in Product : product[q] # NoRow /\ product[q].active} \cup {p}
          ELSE {q \in Product : product[q] # NoRow /\ product[q].active} \ {p}
  BY <1>1, ProductRowIs
<1>6. ASSUME product[p] # NoRow, row.code = product[p].code
      PROVE  [q \in Product |-> code(product'[q])] = barcode /\ barcode[p] = row.code
  BY <1>1, <1>6
<1>7. row.code \in Barcode \cup {NoBarcode} /\ row.active \in BOOLEAN
  BY ProductRowIs DEF Code
<1>8. ASSUME product[p] = NoRow, row.active PROVE Barcodes!Next
  BY <1>2, <1>3, <1>4, <1>5, <1>7, <1>8 DEF Barcodes!Next, Barcodes!Create, Barcodes!Free
<1>9. ASSUME product[p] # NoRow, row.active = product[p].active PROVE Barcodes!Next
  <2>1. {q \in Product : product'[q] # NoRow} = {q \in Product : product[q] # NoRow}
    BY <1>4, <1>9
  <2>2. {q \in Product : product'[q] # NoRow /\ product'[q].active}
          = {q \in Product : product[q] # NoRow /\ product[q].active}
    BY <1>5, <1>7, <1>9
  <2>3. p \in {q \in Product : product[q] # NoRow /\ product[q].active} => row.active
    BY <1>9
  <2> QED BY <1>2, <1>3, <1>7, <1>9, <2>1, <2>2, <2>3 DEF Barcodes!Next, Barcodes!Renumber, Barcodes!Free
<1>10. ASSUME product[p] # NoRow, row.code = product[p].code, ~row.active PROVE Barcodes!Next
  BY <1>1, <1>4, <1>5, <1>6, <1>10 DEF Barcodes!Next, Barcodes!Withdraw
<1>11. ASSUME product[p] # NoRow, row.code = product[p].code, row.active PROVE Barcodes!Next
  BY <1>1, <1>2, <1>4, <1>5, <1>6, <1>11 DEF Barcodes!Next, Barcodes!Restore, Barcodes!Free
<1> QED BY <1>7, <1>8, <1>9, <1>10, <1>11 DEF Refines

LEMMA SameProducts == UNCHANGED product => Refines
BY DEF Refines, Barcodes!catalog

LEMMA SameBarcode ==
    ASSUME IInv, NEW p \in Product, product[p] \in ProductRow, NEW row \in ProductRow,
           product' = [product EXCEPT ![p] = row], row.code = product[p].code, row.active = product[p].active
    PROVE  Refines
<1>1. /\ product'[p] = row /\ row # NoRow /\ product[p] # NoRow
      /\ \A q \in Product \ {p} : product'[q] = product[q]
  BY ProductRowIs, DatabaseIs
<1>2. \A q \in Product : /\ (product'[q] = NoRow) = (product[q] = NoRow)
                         /\ product'[q].code = product[q].code /\ product'[q].active = product[q].active
  BY <1>1
<1> QED BY <1>2 DEF Refines, Barcodes!catalog

LEMMA CommitRefines ==
    ASSUME IInv, NEW r \in Request, NEW row \in ProductRow, NEW rows, NEW session,
           Subject(r) \in Product, Commit(r, row, rows, session),
           IF product[Subject(r)] = NoRow THEN row.active
           ELSE row.active = product[Subject(r)].active \/ row.code = product[Subject(r)].code
    PROVE  Refines
<1> DEFINE p == Subject(r)
           products == [product EXCEPT ![p] = row]
<1>1. CASE ~(BarcodeIndex(products) /\ PrimaryIndex(rows))
  BY <1>1, SameProducts DEF Commit, database
<1>2. CASE BarcodeIndex(products) /\ PrimaryIndex(rows)
  <2>1. product' = products /\ BarcodeIndex(product')
    BY <1>2 DEF Commit
  <2>2. p \in Product /\ IF product[p] = NoRow THEN row.active
                         ELSE row.active = product[p].active \/ row.code = product[p].code
    OBVIOUS
  <2>3. product' = [product EXCEPT ![p] = row]
    BY <2>1
  <2> HIDE DEF p
  <2> QED BY <2>1, <2>2, <2>3, WriteRefines
<1> QED BY <1>1, <1>2

LEMMA ProductRefines ==
    ASSUME IInv, NEW r \in Request,
           CreateProduct(r) \/ UpdateProduct(r) \/ DeleteProduct(r) \/ RestoreProduct(r)
    PROVE  Refines
<1> DEFINE p == Subject(r)
           old == product[p]
<1>1. /\ UnderWay(r) /\ p \in Product /\ (old = NoRow) = CreateProduct(r) /\ req[r].code \in Code
      /\ ~CreateProduct(r) => old \in ProductRow
      /\ CreateProduct(r) => req[r].new \in Upload
  BY RequestIs DEF CreateProduct, UpdateProduct, DeleteProduct, RestoreProduct, Asks, UnderWay, RequestOK
<1>2. CASE CreateProduct(r)
  <2> DEFINE row == [code |-> req[r].code, active |-> TRUE, cover |-> req[r].new[1]]
  <2>1. row \in ProductRow /\ row.active
    BY <1>1, <1>2, UploadIs DEF ProductRow
  <2>2. PICK rows, session : Commit(r, row, rows, session)
    BY <1>2 DEF CreateProduct
  <2> HIDE DEF row
  <2> QED BY <1>1, <1>2, <2>1, <2>2, CommitRefines
<1>3. CASE ~CreateProduct(r)
  <2>1. /\ old # NoRow /\ old.active \in BOOLEAN
        /\ \A c \in Code : [old EXCEPT !.code = c] \in ProductRow /\ [old EXCEPT !.code = c].active = old.active
        /\ \A a \in BOOLEAN : [old EXCEPT !.active = a] \in ProductRow /\ [old EXCEPT !.active = a].code = old.code
    BY <1>1, <1>3, ProductRowIs
  <2>2. \E row \in ProductRow : /\ CommitProduct(r, row)
                                /\ row.active = old.active \/ row.code = old.code
    <3>1. CASE UpdateProduct(r)
      <4> DEFINE row == IF NewCode(r, loaded[r]) THEN [old EXCEPT !.code = req[r].code] ELSE old
      <4>1. row \in ProductRow /\ row.active = old.active
        BY <1>1, <1>3, <2>1
      <4>2. CommitProduct(r, row)
        BY <3>1 DEF UpdateProduct
      <4> HIDE DEF row
      <4> QED BY <4>1, <4>2
    <3>2. CASE DeleteProduct(r)
      <4> DEFINE a == IF loaded[r].active THEN FALSE ELSE old.active
      <4>1. CommitProduct(r, [old EXCEPT !.active = a])
        BY <3>2 DEF DeleteProduct
      <4>2. a \in BOOLEAN
        BY <2>1
      <4> HIDE DEF a, old
      <4> QED BY <2>1, <4>1, <4>2
    <3>3. CASE RestoreProduct(r)
      <4> DEFINE a == IF loaded[r].active THEN old.active ELSE TRUE
      <4>1. CommitProduct(r, [old EXCEPT !.active = a])
        BY <3>3 DEF RestoreProduct
      <4>2. a \in BOOLEAN
        BY <2>1
      <4> HIDE DEF a, old
      <4> QED BY <2>1, <4>1, <4>2
    <3> QED BY <1>3, <3>1, <3>2, <3>3
  <2> QED BY <1>1, <2>1, <2>2, CommitRefines DEF CommitProduct
<1> QED BY <1>2, <1>3

LEMMA PhotoRefines ==
    ASSUME IInv, NEW r \in Request, AddImages(r) \/ RemoveImage(r) \/ SetPrimaryImage(r)
    PROVE  Refines
<1> DEFINE p == Subject(r)
<1>1. pc[r] = "loaded" /\ req[r].op \in PhotoOp
  BY DEF AddImages, RemoveImage, SetPrimaryImage, Asks, PhotoOp
<1>2. p \in Product /\ product[p] \in ProductRow /\ mine[r] \in Rows /\ product[p] # NoRow
  BY <1>1, PhotoHandler, RequestIs, ProductRowIs
<1>3. ASSUME NEW session \in Rows
      PROVE  LET row == SyncCover(r, session) IN
             row \in ProductRow /\ row.code = product[p].code /\ row.active = product[p].active
  BY <1>2, SyncCoverIs
<1>4. CASE AddImages(r)
  <2> DEFINE new == NewRows(p, req[r].new, NextPosition(mine[r]), Primaries(mine[r]) = {})
  <2>1. new \in Rows
    <3>1. req[r].new \in Upload /\ NextPosition(mine[r]) \in Nat /\ (Primaries(mine[r]) = {}) \in BOOLEAN
      BY <1>2, <1>4, NextPositionIs, RequestIs DEF AddImages, Asks, UnderWay
    <3> QED BY <1>2, <3>1, NewRowsIs
  <2> HIDE DEF new
  <2>2. Insert(mine[r], new) \in Rows
    BY <1>2, <2>1, InsertIs
  <2>3. PICK rows : Commit(r, SyncCover(r, Insert(mine[r], new)), rows, Insert(mine[r], new))
    BY <1>4 DEF AddImages, CommitPhotos, new
  <2> QED BY <1>2, <1>3, <2>2, <2>3, CommitRefines
<1>5. CASE RemoveImage(r)
  <2> DEFINE rest == Without(mine[r], req[r].target)
  <2>1. PICK session \in IF mine[r][req[r].target].primary /\ Ids(rest) # {} THEN Promotions(rest) ELSE {rest} :
          \/ product' = [product EXCEPT ![p] = IF session = rest THEN product[p] ELSE SyncCover(r, session)]
          \/ Answer(r, "error")
    BY <1>5 DEF RemoveImage
  <2>2. session \in Rows
    <3>1. MayRemain(session, r)
      BY <2>1 DEF MayRemain
    <3>2. Remains(session, r)
      BY <1>5, <3>1, Removed DEF RemoveImage, Asks
    <3> QED BY <3>2 DEF Remains
  <2> DEFINE row == IF session = rest THEN product[p] ELSE SyncCover(r, session)
  <2>3. row \in ProductRow /\ row.code = product[p].code /\ row.active = product[p].active
    BY <1>2, <1>3, <2>2
  <2>4. product' = [product EXCEPT ![p] = row] \/ Answer(r, "error")
    BY <2>1
  <2> HIDE DEF row
  <2>5. Answer(r, "error") => UNCHANGED product
    BY DEF Answer, database
  <2> QED BY <1>2, <2>3, <2>4, <2>5, SameBarcode, SameProducts
<1>6. CASE SetPrimaryImage(r)
  <2> DEFINE session == [f \in Photo |-> IF mine[r][f] = NoRow THEN NoRow
                                         ELSE [mine[r][f] EXCEPT !.primary = (f = req[r].target)]]
  <2>1. session \in Rows
    <3>1. ASSUME NEW f \in Photo PROVE session[f] \in ImageRow \cup {NoRow}
      <4> DEFINE b == f = req[r].target
      <4>1. b \in BOOLEAN
        OBVIOUS
      <4> HIDE DEF b
      <4>2. mine[r][f] # NoRow => [mine[r][f] EXCEPT !.primary = b] \in ImageRow
        BY <1>2, <4>1, ImageRowIs DEF Rows
      <4> QED BY <4>2 DEF b
    <3> QED BY <3>1 DEF Rows
  <2>2. \/ \E rows : Commit(r, SyncCover(r, session), rows, session)
        \/ Answer(r, "error")
    BY <1>6 DEF SetPrimaryImage, CommitPhotos
  <2> HIDE DEF session
  <2>3. Answer(r, "error") => UNCHANGED product
    BY DEF Answer, database
  <2> QED BY <1>2, <1>3, <2>1, <2>2, <2>3, CommitRefines, SameProducts
<1> QED BY <1>4, <1>5, <1>6

LEMMA HandleRefines == ASSUME IInv, NEW r \in Request, Handle(r) PROVE Refines
<1>1. CASE CreateProduct(r) \/ UpdateProduct(r) \/ DeleteProduct(r) \/ RestoreProduct(r)
  BY <1>1, ProductRefines
<1>2. CASE AddImages(r) \/ RemoveImage(r) \/ SetPrimaryImage(r)
  BY <1>2, PhotoRefines
<1>3. CASE LookUpBarcode(r) \/ DeleteObject(r)
  BY <1>3, SameProducts DEF LookUpBarcode, DeleteObject, Answer, database
<1>4. CASE LoadForUpdate(r) \/ LoadForActive(r) \/ LoadForImages(r) \/ LoadForPhoto(r)
  BY <1>4, SameProducts
     DEF LoadForUpdate, LoadForActive, LoadForImages, LoadForPhoto, Load, Answer, database
<1> QED BY <1>1, <1>2, <1>3, <1>4 DEF Handle

LEMMA ArriveOrFailRefines == ASSUME NEW r \in Request, Arrive(r) \/ Fail(r) PROVE Refines
<1>1. CASE Arrive(r)
  BY <1>1, SameProducts DEF Arrive, PutProduct, PostCreate, PostActive, PostImages, PostPhoto, Send
<1>2. CASE Fail(r)
  BY <1>2, SameProducts DEF Fail, Answer, database
<1> QED BY <1>1, <1>2

LEMMA NextRefines == IInv /\ [Next]_serverVars => Refines
BY HandleRefines, ArriveOrFailRefines, SameProducts DEF Next, serverVars, database

\* However requests interleave between the look-up of a barcode and their commits, what is
\* committed is a run of the catalog that gives no two active products one barcode.
THEOREM ImplementsBarcodes == Spec => ImplementsBarcodeCatalog
<1>1. Init => Barcodes!Init
  BY InitRefines
<1>2. IInv /\ [Next]_serverVars => [Barcodes!Next]_(Barcodes!catalog)
  BY NextRefines DEF Refines
<1> QED BY <1>1, <1>2, Invariance, PTL DEF Spec, ImplementsBarcodeCatalog, Barcodes!Spec
=============================================================================
