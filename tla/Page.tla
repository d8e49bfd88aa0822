--------------------------------- MODULE Page ---------------------------------
(***************************************************************************)
(* What the pages of the browser have in common: the state of the mounted  *)
(* page, the rows it shows as the server holds them, and the calls it has  *)
(* under way.  No page cancels a call, and no call waits for another: they *)
(* are served and they answer in any order, or throw whether or not they   *)
(* were served.  App.tsx mounts one page at a time, and a page that is     *)
(* left takes its state and its calls with it, so each is checked alone,   *)
(* from every state in which it may find the server.                       *)
(***************************************************************************)
EXTENDS Naturals, Sequences, SequencesExt

CONSTANTS
    None,
    MaxCalls    \* bound: the calls of a page that are under way at a time

VARIABLES
    ui,         \* the state of the page
    db,         \* the rows of the server that the page is about
    calls,      \* the calls under way, oldest first
    behind      \* history: the page does not show the newest answer, or the rows were
                \* changed behind it

\* A handler goes on with what its closure captured: then is what it will load.
\* old (history): the call was overtaken, or what it was about is gone.
Call(op, arg, then) ==
    [op |-> op, arg |-> arg, then |-> then, state |-> "sent", data |-> None, old |-> FALSE]

Start(more) == Len(calls) + Len(more) <= MaxCalls /\ calls' = calls \o more

Outdated(cs, J) == [j \in DOMAIN cs |-> IF j \in J THEN [cs[j] EXCEPT !.old = TRUE] ELSE cs[j]]

Doing(op) == {j \in DOMAIN calls : calls[j].op = op}
Asked(i, op) == i \in Doing(op) /\ calls[i].state = "sent"
Returned(i, op) == i \in Doing(op) /\ calls[i].state = "ok"
\* An error, or a failure of the network before or after the call was served.
Threw(i, op) == i \in Doing(op) /\ calls[i].state \in {"sent", "ok", "error"}
WasServed(i) == calls[i].state = "ok"

\* Calls that are answered, if only in part: what changes next is not in their answer.
Answered == {j \in DOMAIN calls : calls[j].state # "sent" \/ calls[j].data # None}

\* Of some calls, the one that was made last.
Latest(J) == {j \in J : \A k \in J : k <= j}

\* Changes that are served, and whose handlers have not gone on.
Unheard(Ops) == {j \in DOMAIN calls : calls[j].op \in Ops /\ calls[j].state = "ok"}

Reply(i, data) == [calls EXCEPT ![i].state = "ok", ![i].data = data]
Refusal(i) == [calls EXCEPT ![i].state = "error"]

\* The calls when i ends and its handler makes more; the older ones of its kind that are
\* answered have been overtaken.
Ended(i, more) ==
    RemoveAt(Outdated(calls, {j \in Doing(calls[i].op) \cap Answered : j < i}), i) \o more

\* The rows change and the page is not told.
\* Bound: one change at a time, until the page has caught up.
RowsChangeBehind ==
    /\ ~behind /\ behind' = TRUE
    /\ calls' = Outdated(calls, Answered)

\* A call that changed the rows throws: its handler does not load them again.
ThrowUnheard(i) ==
    /\ calls' = RemoveAt(IF WasServed(i) THEN Outdated(calls, Answered) ELSE calls, i)
    /\ behind' = (behind \/ WasServed(i))

-----------------------------------------------------------------------------
(* Dialogs that ask before a row is changed: target is the row, and the    *)
(* page is inert behind them.  A dialog can be closed while its call is    *)
(* under way, and opened for another row.                                  *)

\* Only an open dialog shows its notice, so none is kept of a closed one.
Opened(t) == [ui EXCEPT !.target = t, !.notice = None]

CloseDialog(op) ==
    /\ ui.target # None
    /\ ui' = [ui EXCEPT !.target = None, !.notice = None]
    /\ calls' = Outdated(calls, Doing(op))
    /\ UNCHANGED << db, behind >>

Submit(op, arg, then) ==
    /\ ui.target # None
    /\ Start(<< Call(op, arg, then) >>)
    /\ ui' = [ui EXCEPT !.submitting = TRUE, !.notice = None]
    /\ UNCHANGED << db, behind >>

\* late: the dialog the notice is for was closed meanwhile.
Noticed(i, what) ==
    LET notice == [what |-> what, of |-> calls[i].arg, late |-> calls[i].old] IN
    [ui EXCEPT !.submitting = FALSE, !.notice = IF ui.target = None THEN None ELSE notice]

Quiet == calls = << >> /\ ui.status = "ready"

\* A dialog speaks of the row it was opened for, unless what it says is the answer to
\* one that was closed before it.
NoticeIsOfTarget ==
    ui.target # None /\ ui.notice # None => ui.notice.of = ui.target \/ ui.notice.late
===============================================================================
