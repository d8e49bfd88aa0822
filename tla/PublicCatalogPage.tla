-------------------------- MODULE PublicCatalogPage ---------------------------
(* The public catalog: one load, the circles of the categories, the search and *)
(* the order of the grid, and the dialog that finds a product by its photo.    *)
EXTENDS Page, FiniteSets

CONSTANTS
    LastProduct,    \* bound: products are numbered as they are created
    Limit,          \* the most products that the server lists
    Category,       \* of a product; a product of no category has None
    Price,
    LastPhoto       \* bound: photos are numbered as they are taken

ProductId == 1 .. LastProduct
ProductRow ==
    [category : Category \cup {None}, price : Price, inStock : BOOLEAN, matches : BOOLEAN]

\* Newest first, and no more than the limit.
Listed ==
    SubSeq(Reverse([p \in ProductId |-> p]), 1, IF Limit < LastProduct THEN Limit ELSE LastProduct)

\* Mutant: the circles count what is in stock.
SummariesInStock ==
    LET named == {p \in ToSet(ui.products) : db[p].category # None} IN
    [c \in {db[p].category : p \in named} |->
        Cardinality({p \in named : db[p].category = c /\ db[p].inStock})]

\* The names of the categories, and how many products each has.
categorySummaries ==
    LET named == {p \in ToSet(ui.products) : db[p].category # None} IN
    [c \in {db[p].category : p \in named} |-> Cardinality({p \in named : db[p].category = c})]

\* The first that is in stock, or the first.
featured ==
    LET inStock == {k \in DOMAIN ui.products : db[ui.products[k]].inStock} IN
    IF inStock # {} THEN ui.products[Min(inStock)] ELSE Head(ui.products)

\* matches: the name or the description has the term of the search.
Filtered(category, searching) ==
    {p \in ToSet(ui.products) : /\ category # None => db[p].category = category
                                /\ searching => db[p].matches}

\* Products of the same price stay newest first.
Before(p, q, sort) ==
    CASE sort = "price-asc" /\ db[p].price # db[q].price -> db[p].price < db[q].price
      [] sort = "price-desc" /\ db[p].price # db[q].price -> db[p].price > db[q].price
      [] OTHER -> p > q

\* At each place the product that has as many before it.
Sorted(kept, sort) ==
    [k \in 1 .. Cardinality(kept) |->
        CHOOSE p \in kept : Cardinality({q \in kept : Before(q, p, sort)}) = k - 1]

grid == Sorted(Filtered(ui.category, ui.searching), ui.sort)

ready == ui.status = "ready" /\ ui.products # << >>
showHero == ready /\ ~ui.searching /\ ui.category = None

TypeOK ==
    /\ db \in [ProductId -> ProductRow]
    /\ ui.status \in {"loading", "ready", "error"} /\ (ui.status = "loading" => Doing("load") # {})
    /\ ui.category \in Category \cup {None} /\ ui.searching \in BOOLEAN
    /\ ui.sort \in {"recent", "price-asc", "price-desc"}
    /\ ui.scan.status \in {"closed", "idle", "scanning", "done", "error"}
    /\ ui.scan.status = "scanning" => Doing("scan") # {}

Init ==
    /\ db \in [ProductId -> ProductRow]
    /\ ui = [status |-> "loading", products |-> << >>,
             category |-> None, searching |-> FALSE, sort |-> "recent", photos |-> 0,
             scan |-> [status |-> "closed", preview |-> None, result |-> None, late |-> FALSE]]
    /\ calls = << Call("load", None, None) >>
    /\ behind = FALSE

-----------------------------------------------------------------------------
\* The dialog is over the page.
Inert == ui.scan.status # "closed"

LoadReturned(i) ==
    /\ Returned(i, "load")
    /\ ui' = [ui EXCEPT !.status = "ready", !.products = calls[i].data]
    /\ calls' = RemoveAt(calls, i) /\ UNCHANGED << db, behind >>

LoadThrew(i) ==
    /\ Threw(i, "load")
    /\ ui' = [ui EXCEPT !.status = "error"]
    /\ calls' = RemoveAt(calls, i) /\ UNCHANGED << db, behind >>

Search ==
    /\ ~Inert
    /\ ui' = [ui EXCEPT !.searching = ~@] /\ UNCHANGED << db, calls, behind >>

\* From the circles, of which one is all, or from the foot of the page.
PickCategory(category) ==
    /\ ~Inert /\ ready /\ category \in DOMAIN categorySummaries \cup {None}
    /\ ui' = [ui EXCEPT !.category = category] /\ UNCHANGED << db, calls, behind >>

SetSort(sort) ==
    /\ ~Inert /\ ready
    /\ ui' = [ui EXCEPT !.sort = sort] /\ UNCHANGED << db, calls, behind >>

\* It starts from a clean slate.  late (history): since then it has shown the answer for a
\* photo of an earlier opening.
OpenScan ==
    /\ ~Inert
    /\ ui' = [ui EXCEPT !.scan = [status |-> "idle", preview |-> None, result |-> None, late |-> FALSE]]
    /\ UNCHANGED << db, calls, behind >>

\* What it shows is cleared when it opens again: nothing is kept of it here.
CloseScan ==
    /\ Inert
    /\ ui' = [ui EXCEPT !.scan = [status |-> "closed", preview |-> None, result |-> None, late |-> FALSE]]
    /\ calls' = Outdated(calls, Doing("scan"))
    /\ UNCHANGED << db, behind >>

\* Mutant: another photo may be taken before the answer.
CaptureAnyTime ==
    LET photo == ui.photos + 1 IN
    /\ Inert /\ photo <= LastPhoto
    /\ Start(<< Call("scan", photo, None) >>)
    /\ ui' = [ui EXCEPT !.photos = photo,
                        !.scan = [@ EXCEPT !.status = "scanning", !.preview = photo, !.result = None]]
    /\ UNCHANGED << db, behind >>

HandleCapture ==
    LET photo == ui.photos + 1 IN
    /\ ui.scan.status \in {"idle", "done", "error"} /\ photo <= LastPhoto
    /\ Start(<< Call("scan", photo, None) >>)
    /\ ui' = [ui EXCEPT !.photos = photo,
                        !.scan = [@ EXCEPT !.status = "scanning", !.preview = photo, !.result = None]]
    /\ UNCHANGED << db, behind >>

\* Whether the dialog is open, closed, or opened again.
Shows(i, status) ==
    IF ui.scan.status = "closed" THEN ui
    ELSE [ui EXCEPT !.scan.status = status, !.scan.result = calls[i].arg, !.scan.late = @ \/ calls[i].old]

ScanReturned(i) ==
    /\ Returned(i, "scan")
    /\ ui' = Shows(i, "done")
    /\ calls' = RemoveAt(calls, i) /\ UNCHANGED << db, behind >>

ScanThrew(i) ==
    /\ Threw(i, "scan")
    /\ ui' = Shows(i, "error")
    /\ calls' = RemoveAt(calls, i) /\ UNCHANGED << db, behind >>

-----------------------------------------------------------------------------
ServeList(i) ==
    /\ Asked(i, "load")
    /\ calls' = Reply(i, Listed) /\ UNCHANGED << ui, db, behind >>

\* Whatever it finds in the photo.
ServeScan(i) ==
    /\ Asked(i, "scan")
    /\ calls' = Reply(i, None) /\ UNCHANGED << ui, db, behind >>

Next ==
    \/ Search \/ OpenScan \/ CloseScan \/ HandleCapture
    \/ \E category \in Category \cup {None} : PickCategory(category)
    \/ \E sort \in {"recent", "price-asc", "price-desc"} : SetSort(sort)
    \/ \E i \in DOMAIN calls :
         \/ LoadReturned(i) \/ LoadThrew(i) \/ ScanReturned(i) \/ ScanThrew(i)
         \/ ServeList(i) \/ ServeScan(i)

\* A circle counts what its click leaves in the grid, sorting loses nothing of it, and the
\* product that is featured is in the grid below.
GridIsOfCircle ==
    ready =>
        /\ ToSet(grid) = Filtered(ui.category, ui.searching) /\ IsInjective(grid)
        /\ ~ui.searching /\ ui.category # None => Len(grid) = categorySummaries[ui.category]
        /\ showHero => featured \in ToSet(grid)

\* A result is of the photo above it, until the dialog shows one that it was asked for
\* before it was last closed.
ScanIsOfPhoto == ui.scan.status \in {"done", "error"} => ui.scan.result = ui.scan.preview \/ ui.scan.late

\* The inductive invariant: until the dialog shows what it was asked for before it was last
\* closed, it has at most one scan that was not overtaken, and it is of the photo it shows.
LoadCall ==
    [op : {"load"}, arg : {None}, then : {None}, state : {"sent", "ok"},
     data : {None} \cup Seq(ProductId), old : BOOLEAN]
ScanCall ==
    [op : {"scan"}, arg : 1 .. LastPhoto, then : {None}, state : {"sent", "ok"}, data : {None},
     old : BOOLEAN]
Photo == (1 .. LastPhoto) \cup {None}
Scan == [status : {"closed", "idle", "scanning", "done", "error"}, preview : Photo, result : Photo,
         late : BOOLEAN]

\* The scans of the dialog as it was last opened.
Own(c) == c.op = "scan" /\ ~c.old
OwnOK(c) ==
    Own(c) => /\ ui.scan.status # "closed"
              /\ ~ui.scan.late => ui.scan.status = "scanning" /\ c.arg = ui.scan.preview

IInv ==
    /\ TypeOK /\ ScanIsOfPhoto
    /\ DOMAIN ui = {"status", "products", "category", "searching", "sort", "photos", "scan"}
    /\ ui.photos \in 0 .. LastPhoto /\ ui.scan \in Scan
    /\ calls \in Seq(LoadCall \cup ScanCall) /\ \A i \in DOMAIN calls : OwnOK(calls[i])
    /\ ~ui.scan.late => \A i, j \in DOMAIN calls : Own(calls[i]) /\ Own(calls[j]) => i = j

\* The inductive invariant of the grid: what is shown is what the server listed, and the
\* category that was picked is of a product of it.
ListIInv ==
    /\ ui.products \in {<< >>, Listed}
    /\ \A i \in Doing("load") : calls[i].state = "ok" => calls[i].data = Listed
    /\ ui.category # None => \E p \in ToSet(Listed) : db[p].category = ui.category
===============================================================================
