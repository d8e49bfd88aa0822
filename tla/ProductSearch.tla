---------------------------- MODULE ProductSearch -----------------------------
(* The search of the sale screen: a term is looked up when the seller stops  *)
(* typing for a while, no search is cancelled, and whatever ends last is     *)
(* shown.                                                                    *)
EXTENDS Page

CONSTANTS Product, Term

\* The products that each term finds; without one, the recent ones.
Query == Term \cup {None}
Found == [Query -> SUBSET Product]

TypeOK ==
    /\ db \in Found
    /\ ui.query \in Query /\ ui.debounce \in BOOLEAN
    /\ ui.status \in {"ready", "loading"} /\ ui.results \subseteq Product
    /\ ui.status = "loading" => Doing("search") # {}

Init ==
    /\ db \in Found
    /\ ui = [query |-> None, debounce |-> TRUE, status |-> "ready", results |-> {}]
    /\ calls = << >> /\ behind = FALSE

\* Mutant: the time does not start again.
SetQueryUntimed(query) ==
    /\ query # ui.query
    /\ ui' = [ui EXCEPT !.query = query]
    /\ UNCHANGED << db, calls, behind >>

\* The time starts again.
SetQuery(query) ==
    /\ query # ui.query
    /\ ui' = [ui EXCEPT !.query = query, !.debounce = TRUE]
    /\ UNCHANGED << db, calls, behind >>

DebounceEnded ==
    /\ ui.debounce /\ Start(<< Call("search", ui.query, None) >>)
    /\ ui' = [ui EXCEPT !.debounce = FALSE, !.status = "loading"]
    /\ UNCHANGED << db, behind >>

\* The first to end says that nothing is loading.
SearchReturned(i) ==
    /\ Returned(i, "search")
    /\ ui' = [ui EXCEPT !.results = calls[i].data, !.status = "ready"]
    /\ calls' = RemoveAt(Outdated(calls, {j \in DOMAIN calls : j < i}), i)
    /\ behind' = calls[i].old
    /\ UNCHANGED db

\* A search that failed shows as one that found nothing: the page is behind.
SearchThrew(i) ==
    /\ Threw(i, "search")
    /\ ui' = [ui EXCEPT !.results = {}, !.status = "ready"]
    /\ calls' = RemoveAt(Outdated(calls, {j \in DOMAIN calls : j < i}), i)
    /\ behind' = TRUE
    /\ UNCHANGED db

ServeSearch(i) ==
    /\ Asked(i, "search")
    /\ calls' = Reply(i, db[calls[i].arg]) /\ UNCHANGED << ui, db, behind >>

Next ==
    \/ DebounceEnded \/ \E query \in Query : SetQuery(query)
    \/ \E i \in DOMAIN calls : SearchReturned(i) \/ SearchThrew(i) \/ ServeSearch(i)

\* What is found is what is typed, once everything has ended, unless something ended out of
\* order or the last search to end has failed.
ShowsStored == Quiet /\ ~ui.debounce /\ ~behind => ui.results = db[ui.query]

\* The inductive invariant: every answer is of the products that there are.
SearchCall ==
    [op : {"search"}, arg : Query, then : {None}, state : {"sent", "ok"},
     data : {None} \cup SUBSET Product, old : BOOLEAN]

IInv ==
    /\ TypeOK
    /\ ui \in [query : Query, debounce : BOOLEAN, status : {"ready", "loading"}, results : SUBSET Product]
    /\ calls \in Seq(SearchCall)
    /\ \A i \in DOMAIN calls : calls[i].state = "ok" => calls[i].data \subseteq Product

\* The inductive invariant of what is found: the last search, if it was not overtaken, is
\* for what is typed; and if there is none, what it found is shown.
ListIInv ==
    /\ \A i \in DOMAIN calls : calls[i].state = "ok" => calls[i].data = db[calls[i].arg]
    /\ ~ui.debounce =>
         /\ \A j \in Latest(DOMAIN calls) : calls[j].old \/ calls[j].arg = ui.query
         /\ calls = << >> /\ ~behind => ui.results = db[ui.query]
===============================================================================
