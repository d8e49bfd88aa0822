----------------------- MODULE AdminSalesDashboardPage ------------------------
(* The sales of a range of dates, page by page, with their summary; the ticket *)
(* of a sale, and voiding one.                                                 *)
EXTENDS Page, Integers, FiniteSets

CONSTANTS
    Month, Today,   \* the numbers of the sales of the last 30 days, and of today
    LastSale,       \* bound: sales are numbered as they are made, up to LastSale
    PageSize

Sale == 1 .. LastSale

\* "abierto": one of the two dates was emptied.
Ranges == {"hoy", "mes", "abierto"}
Estado == {"ninguna", "completada", "anulada"}

\* Neither half of the page knows of the other: without a date the summary is of 30 days,
\* and the list is of all sales.
Summarized(r) == IF r = "hoy" THEN Today ELSE Month
InRange(r) == CASE r = "hoy" -> Today [] r = "mes" -> Month [] OTHER -> Sale

With(S, estado) == {s \in S : db[s] = estado}
Made(S) == S \ With(S, "ninguna")

GetSummary(r) ==
    [ventas |-> Cardinality(With(Summarized(r), "completada")),
     anuladas |-> Cardinality(With(Summarized(r), "anulada"))]

\* The k-th of the newest has k - 1 that are newer.
Newest(S, k) == CHOOSE s \in S : Cardinality({newer \in S : newer > s}) = k - 1

\* Newest first; estado as the page is told it.
GetPage(r, page) ==
    LET all == Made(InRange(r))
        total == Cardinality(all)
        offset == (page - 1) * PageSize
        size == IF total - offset < PageSize THEN total - offset ELSE PageSize
        row(s) == [id |-> s, estado |-> db[s]]
    IN  [items |-> [k \in 1 .. size |-> row(Newest(all, offset + k))], total |-> total]

Pages(total) == IF total = 0 THEN 1 ELSE (total + PageSize - 1) \div PageSize
TotalPages == Pages(ui.shown.page.total)

View == [range |-> ui.range, page |-> ui.page]
Unanswered == [summary |-> None, page |-> None]

Rows == IF ui.status = "ready" /\ ui.target = None /\ ui.detail = None 
        THEN ToSet(ui.shown.page.items) ELSE {}

TypeOK ==
    /\ db \in [Sale -> Estado]
    /\ ui.status \in {"loading", "ready", "error"} /\ (ui.status = "loading" => Doing("load") # {})
    /\ ui.range \in Ranges /\ ui.page \in 1 .. LastSale
    /\ (ui.shown = None) = (ui.status # "ready")
    /\ ui.status = "ready" => /\ ui.shown.summary.ventas + ui.shown.summary.anuladas <= LastSale
                              /\ Len(ui.shown.page.items) <= PageSize
    /\ ui.target \in Sale \cup {None} /\ ui.detail \in Sale \cup {None}
    /\ ui.submitting = (Doing("void") # {}) /\ \A i, j \in Doing("void") : i = j

Init ==
    /\ db \in [Sale -> Estado]
    /\ \A s \in Sale : db[s] = "ninguna" => \A later \in s .. LastSale : db[later] = "ninguna"
    /\ ui = [status |-> "loading", range |-> "mes", page |-> 1,
             shown |-> None,
             target |-> None, submitting |-> FALSE, notice |-> None,
             detail |-> None, strayed |-> FALSE]
    /\ calls = << Call("load", View, None) >>
    /\ behind = FALSE

-----------------------------------------------------------------------------
\* The effect on desde, hasta and page loads once, whatever of them has changed.
\* strayed (history): the page was counted in a list of another range.
Show(range, page, strayed) ==
    LET shown == [range |-> range, page |-> page] IN
    /\ shown # View
    /\ Start(<< Call("load", shown, None) >>)
    /\ ui' = [ui EXCEPT !.range = range, !.page = page, !.strayed = strayed,
                        !.status = "loading", !.shown = None]
    /\ UNCHANGED << db, behind >>

HandleRangeChange(range) == ui.target = None /\ ui.detail = None /\ Show(range, 1, FALSE)

Paging == ui.status = "ready" /\ ui.target = None /\ ui.detail = None /\ TotalPages > 1
Anterior == Paging /\ ui.page > 1 /\ Show(ui.range, ui.page - 1, ui.strayed)
Siguiente == Paging /\ ui.page < TotalPages /\ Show(ui.range, ui.page + 1, behind)

LoadReturned(i) ==
    /\ Returned(i, "load")
    /\ ui' = [ui EXCEPT !.status = "ready", !.shown = calls[i].data]
    /\ calls' = Ended(i, << >>)
    /\ behind' = (calls[i].old \/ calls[i].arg # View)
    /\ UNCHANGED db

LoadThrew(i) ==
    /\ Threw(i, "load")
    /\ ui' = [ui EXCEPT !.status = "error", !.shown = None]
    /\ calls' = Ended(i, << >>)
    /\ UNCHANGED << db, behind >>

-----------------------------------------------------------------------------
Anular(row) ==
    /\ row \in Rows /\ row.estado # "anulada"
    /\ ui' = Opened(row.id) /\ UNCHANGED << db, calls, behind >>

\* A ticket that arrives is shown above the dialog.
HandleSubmit == ui.detail = None /\ ~ui.submitting /\ Submit("void", ui.target, View)
Volver == ui.detail = None /\ CloseDialog("void")

VoidReturned(i) ==
    /\ Returned(i, "void")
    /\ ui' = [ui EXCEPT !.target = None, !.submitting = FALSE, !.notice = None,
                        !.status = "loading", !.shown = None]
    /\ calls' = Ended(i, << Call("load", calls[i].then, None) >>)
    /\ UNCHANGED << db, behind >>

VoidThrew(i) ==
    /\ Threw(i, "void")
    /\ ui' = Noticed(i, "error")
    /\ ThrowUnheard(i) /\ UNCHANGED db

HandleViewDetail(row) ==
    /\ row \in Rows
    /\ Start(<< Call("detail", row.id, None) >>)
    /\ UNCHANGED << ui, db, behind >>

\* The answer, or if it fails the row that was clicked.
DetailEnded(i) ==
    /\ Threw(i, "detail")
    /\ ui' = [ui EXCEPT !.detail = calls[i].arg]
    /\ calls' = Ended(i, << >>)
    /\ UNCHANGED << db, behind >>

CloseDetail ==
    /\ ui.detail # None
    /\ ui' = [ui EXCEPT !.detail = None] /\ UNCHANGED << db, calls, behind >>

-----------------------------------------------------------------------------
ServePart(i, part, answer) ==
    LET had == IF calls[i].data = None THEN Unanswered ELSE calls[i].data
        has == [had EXCEPT ![part] = answer]
    IN  /\ Asked(i, "load") /\ had[part] = None
        /\ calls' = IF None \in {has.summary, has.page} THEN [calls EXCEPT ![i].data = has]
                                                         ELSE Reply(i, has)
        /\ UNCHANGED << ui, db, behind >>

ServeSummary(i) == ServePart(i, "summary", GetSummary(calls[i].arg.range))
ServePage(i) == ServePart(i, "page", GetPage(calls[i].arg.range, calls[i].arg.page))

ServeVoid(i) ==
    /\ Asked(i, "void")
    /\ IF db[calls[i].arg] = "anulada"
       THEN calls' = Refusal(i) /\ UNCHANGED db
       ELSE db' = [db EXCEPT ![calls[i].arg] = "anulada"] /\ calls' = Reply(i, None)
    /\ UNCHANGED << ui, behind >>

\* Sellers sell, and another administrator voids.
ElsewhereChanged ==
    /\ \E s \in Sale :
         \/ s \in Today \ Made(Sale) /\ 1 .. (s - 1) \subseteq Made(Sale)
            /\ db' = [db EXCEPT ![s] = "completada"]
         \/ db[s] = "completada" /\ db' = [db EXCEPT ![s] = "anulada"]
    /\ RowsChangeBehind /\ UNCHANGED ui

Next ==
    \/ Anterior \/ Siguiente \/ HandleSubmit \/ Volver \/ CloseDetail \/ ElsewhereChanged
    \/ \E r \in Ranges : HandleRangeChange(r)
    \/ \E row \in Rows : Anular(row) \/ HandleViewDetail(row)
    \/ \E i \in DOMAIN calls :
         \/ LoadReturned(i) \/ LoadThrew(i) \/ VoidReturned(i) \/ VoidThrew(i) \/ DetailEnded(i)
         \/ (calls[i].op = "load" /\ (ServeSummary(i) \/ ServePage(i))) \/ ServeVoid(i)

\* The list is the page it says, and while both dates are given it and the summary are of
\* the same sales; it is a page there is, unless it was reached from the list of another
\* range, shown by an answer that came late.
ShowsStored ==
    Quiet /\ ~behind =>
        /\ ui.shown.page = GetPage(ui.range, ui.page)
        /\ ui.strayed \/ ui.page <= TotalPages
        /\ ui.range # "abierto" =>
             ui.shown.summary.ventas + ui.shown.summary.anuladas = ui.shown.page.total

\* What the dialog keeps to: a call to void that was not overtaken is of its sale.
SalesCall(c) ==
    /\ DOMAIN c = {"op", "arg", "then", "state", "data", "old"} /\ c.old \in BOOLEAN
    /\ c.op = "void" /\ ~c.old => ui.target # None /\ c.arg = ui.target

DialogOK ==
    /\ NoticeIsOfTarget
    /\ DOMAIN ui = {"status", "range", "page", "shown", "target", "submitting", "notice", "detail", "strayed"}
    /\ ui.submitting = (Doing("void") # {}) /\ \A i, j \in Doing("void") : i = j
    /\ calls \in Seq({calls[i] : i \in DOMAIN calls}) /\ \A i \in DOMAIN calls : SalesCall(calls[i])

\* The inductive invariant of the list: as that of the products, but that a load is answered
\* in two parts; and the page that is shown exists, since sales are made and never unmade.
Total(r) == Cardinality(Made(InRange(r)))

Summary == {s \in [ventas : 0 .. LastSale, anuladas : 0 .. LastSale] : s.ventas + s.anuladas <= LastSale}
ListPage == [items : Seq([id : Sale, estado : Estado]), total : 0 .. LastSale]
Answer == [summary : {None} \cup Summary, page : {None} \cup ListPage]
Shown == [range : Ranges, page : 1 .. LastSale]

LoadCall ==
    [op : {"load"}, arg : Shown, then : {None}, state : {"sent", "ok"}, data : {None} \cup Answer,
     old : BOOLEAN]
VoidCall ==
    [op : {"void"}, arg : Sale, then : Shown, state : {"sent", "ok", "error"}, data : {None},
     old : BOOLEAN]
DetailCall ==
    [op : {"detail"}, arg : Sale, then : {None}, state : {"sent"}, data : {None}, old : BOOLEAN]

\* As many rows as a page has room for, of sales that are in the range.
PageFits(page, r) == Len(page.items) <= PageSize /\ page.total <= Total(r)

LoadOK(c) ==
    /\ c.state = "ok" => c.data \in Answer /\ None \notin {c.data.summary, c.data.page}
    /\ c.data # None /\ c.data.page # None => PageFits(c.data.page, c.arg.range)
IsStored(c) ==
    c.data # None => /\ c.data.summary \in {None, GetSummary(c.arg.range)}
                     /\ c.data.page \in {None, GetPage(c.arg.range, c.arg.page)}

ListIInv ==
    /\ TypeOK
    /\ ui.shown \in {None} \cup Answer /\ behind \in BOOLEAN /\ ui.strayed \in BOOLEAN
    /\ calls \in Seq(LoadCall \cup VoidCall \cup DetailCall)
    /\ \A j \in Doing("load") : LoadOK(calls[j])
    /\ ui.status = "ready" => /\ None \notin {ui.shown.summary, ui.shown.page}
                              /\ ~behind => PageFits(ui.shown.page, ui.range)
    /\ ui.strayed \/ ui.page <= Pages(Total(ui.range))
    /\ Unheard({"void"}) = {} =>
         /\ \A j \in Latest(Doing("load")) : calls[j].old \/ IsStored(calls[j])
         /\ Doing("load") = {} /\ ui.status = "ready" /\ ~behind =>
              ui.shown = [summary |-> GetSummary(ui.range), page |-> GetPage(ui.range, ui.page)]
===============================================================================
