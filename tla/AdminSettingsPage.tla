-------------------------- MODULE AdminSettingsPage ---------------------------
(***************************************************************************)
(* The settings: the name of the company and its logo, which is a row of   *)
(* the database and an object of the storage.  Whatever changes them here  *)
(* notifies the listeners, the header and the icon of the tab, which load  *)
(* them on their own.  The requests of another administrator change them   *)
(* too, and the server takes its steps in between.                         *)
(***************************************************************************)
EXTENDS Page, FiniteSets

CONSTANTS
    Name,       \* the names that are typed; none is None
    LastKey,    \* bound: objects are numbered as they are stored, up to LastKey
    Listener    \* what subscribes to the settings

Key == 1 .. LastKey

Setting == {"logo", "name"}
SettingsRow == [logo : Key \cup {None}, name : Name \cup {None}]
NotLoaded == [logo |-> None, name |-> None]

\* What a call would set; Here and Elsewhere are the two administrators.
Owner == {"here", "elsewhere"}
Changing == UNION {Doing(op) : op \in {"uploadLogo", "deleteLogo", "updateCompanyName"}}
LogoCalls(by) == {i \in Doing("uploadLogo") \cup Doing("deleteLogo") : calls[i].then = by}
NameCalls(by) == {i \in Doing("updateCompanyName") : calls[i].then = by}
Column(i) == IF calls[i].op = "updateCompanyName" THEN "name" ELSE "logo"
busy == LogoCalls("here") # {}
nameBusy == NameCalls("here") # {}

Loads == [k \in 1 .. Cardinality(Listener) |->
             Call("fetchAppSettings", SetToSeq(Listener)[k], None)]

TypeOK ==
    /\ db \in [row : SettingsRow, objects : SUBSET Key, used : 0 .. LastKey]
    /\ db.objects \subseteq 1 .. db.used
    /\ ui \in [status : {"loading", "ready", "error"}, page : SettingsRow, brand : [Listener -> SettingsRow]]
    /\ behind \subseteq Setting \cup Listener
    /\ \A i, j \in LogoCalls("here") : i = j
    /\ \A i, j \in NameCalls("here") : i = j
    /\ ui.status = "loading" => \E i \in Doing("fetchAppSettings") : calls[i].arg = "page"

Init ==
    /\ \E name \in Name \cup {None} :
         db = [row |-> [logo |-> 1, name |-> name], objects |-> {1}, used |-> 1]
    /\ ui = [status |-> "loading", page |-> NotLoaded,
             brand |-> [l \in Listener |-> NotLoaded]]
    /\ calls = << Call("fetchAppSettings", "page", None) >> \o Loads
    /\ behind = {}

-----------------------------------------------------------------------------
(* The page and the listeners.                                             *)

\* The older loads of the same listener, when i ends.
Overtaken(i) == {j \in Doing("fetchAppSettings") \cap Answered : j < i /\ calls[j].arg = calls[i].arg}

Late(i, place) == IF calls[i].old THEN behind \cup {place} ELSE behind \ {place}

\* load
LoadReturned(i) ==
    /\ Returned(i, "fetchAppSettings") /\ calls[i].arg = "page"
    /\ ui' = [ui EXCEPT !.status = "ready", !.page = calls[i].data]
    /\ calls' = RemoveAt(calls, i)
    /\ behind' = IF calls[i].old THEN behind \cup Setting ELSE behind
    /\ UNCHANGED db

LoadThrew(i) ==
    /\ Threw(i, "fetchAppSettings") /\ calls[i].arg = "page"
    /\ ui' = [ui EXCEPT !.status = "error"]
    /\ calls' = RemoveAt(calls, i)
    /\ UNCHANGED << db, behind >>

\* BrandLogo and FaviconSync: an answer is shown whenever it comes.
BrandLoaded(i) ==
    /\ Returned(i, "fetchAppSettings") /\ calls[i].arg \in Listener
    /\ ui' = [ui EXCEPT !.brand[calls[i].arg] = calls[i].data]
    /\ behind' = Late(i, calls[i].arg)
    /\ calls' = RemoveAt(Outdated(calls, Overtaken(i)), i)
    /\ UNCHANGED db

\* What was shown stays.
BrandThrew(i) ==
    /\ Threw(i, "fetchAppSettings") /\ calls[i].arg \in Listener
    /\ behind' = behind \cup {calls[i].arg}
    /\ calls' = RemoveAt(Outdated(calls, Overtaken(i)), i)
    /\ UNCHANGED << ui, db >>

\* The draft has a change: another name, or none.
HandleSaveName(draft) ==
    /\ ui.status = "ready" /\ ~nameBusy /\ draft # ui.page.name
    /\ Start(<< Call("updateCompanyName", draft, "here") >>)
    /\ UNCHANGED << ui, db, behind >>

HandleFileChange ==
    /\ ui.status = "ready" /\ ~busy
    /\ Start(<< Call("uploadLogo", None, "here") >>)
    /\ UNCHANGED << ui, db, behind >>

HandleDelete ==
    /\ ui.status = "ready" /\ ~busy /\ ui.page.logo # None
    /\ Start(<< Call("deleteLogo", None, "here") >>)
    /\ UNCHANGED << ui, db, behind >>

notifyAppSettingsChanged == Loads

\* What was saved takes the place of the draft too.
NameSaved(i) ==
    /\ i \in NameCalls("here") /\ calls[i].state = "ok"
    /\ ui' = [ui EXCEPT !.page.name = calls[i].data]
    /\ behind' = Late(i, "name")
    /\ calls' = RemoveAt(calls, i) \o notifyAppSettingsChanged
    /\ UNCHANGED db

LogoChanged(i) ==
    /\ i \in LogoCalls("here") /\ calls[i].state = "ok"
    /\ ui' = [ui EXCEPT !.page.logo = calls[i].data]
    /\ behind' = Late(i, "logo")
    /\ calls' = RemoveAt(calls, i) \o notifyAppSettingsChanged
    /\ UNCHANGED db

\* The server fails before the commit or after it, or the network does: nobody is notified
\* of what may have changed.
ChangeThrew(i) ==
    /\ i \in Changing /\ calls[i].then = "here"
    /\ IF calls[i].state \in {"committed", "ok"}
       THEN /\ behind' = behind \cup {Column(i)} \cup Listener
            /\ calls' = RemoveAt(Outdated(calls, Answered), i)
       ELSE calls' = RemoveAt(calls, i) /\ UNCHANGED behind
    /\ UNCHANGED << ui, db >>

-----------------------------------------------------------------------------
(* The server.                                                             *)

ServeSettings(i) ==
    /\ Asked(i, "fetchAppSettings")
    /\ calls' = Reply(i, db.row) /\ UNCHANGED << ui, db, behind >>

\* Bound: one request of another administrator at a time, while nothing is behind.
RequestElsewhere(op, name) ==
    /\ behind = {} /\ \A i \in DOMAIN calls : calls[i].then # "elsewhere"
    /\ op # "updateCompanyName" => name = None
    /\ Start(<< Call(op, name, "elsewhere") >>)
    /\ UNCHANGED << ui, db, behind >>

\* It is answered, or the server fails on the way.
EndedElsewhere(i) ==
    /\ i \in Changing /\ calls[i].then = "elsewhere" /\ calls[i].state # "sent"
    /\ calls' = RemoveAt(calls, i)
    /\ UNCHANGED << ui, db, behind >>

\* Mutant: the old logo is deleted before the new one is committed.
GetRowDeletingOld(i) ==
    /\ i \in Changing /\ calls[i].state = "sent"
    /\ db' = IF Column(i) = "name" THEN db ELSE [db EXCEPT !.objects = @ \ {db.row.logo}]
    /\ calls' = [calls EXCEPT ![i].state = "loaded", ![i].data = db.row[Column(i)]]
    /\ UNCHANGED << ui, behind >>

\* _get_settings_row, and for an upload the object that is stored before the commit: both
\* in one step, as nothing is awaited in between.
GetSettingsRow(i) ==
    /\ i \in Changing /\ calls[i].state = "sent"
    /\ IF calls[i].op # "uploadLogo"
       THEN /\ calls' = [calls EXCEPT ![i].state = "loaded", ![i].data = db.row[Column(i)]]
            /\ UNCHANGED db
       ELSE LET key == db.used + 1 IN
            /\ key \in Key
            /\ db' = [db EXCEPT !.objects = @ \cup {key}, !.used = key]
            /\ calls' = [calls EXCEPT ![i].state = "loaded", ![i].data = db.row.logo, ![i].arg = key]
    /\ UNCHANGED << ui, behind >>

\* The column is written if it is not what the row had when it was read.
Commit(i) ==
    LET row == IF calls[i].arg = calls[i].data THEN db.row
               ELSE [db.row EXCEPT ![Column(i)] = calls[i].arg]
        told == [calls EXCEPT ![i].state = "committed"]
    IN  /\ i \in Changing /\ calls[i].state = "loaded"
        /\ db' = [db EXCEPT !.row = row]
        /\ IF calls[i].then = "elsewhere" /\ row # db.row
           THEN behind' = behind \cup {Column(i)} \cup Listener /\ calls' = Outdated(told, Answered)
           ELSE calls' = told /\ UNCHANGED behind
        /\ UNCHANGED ui

\* The row is read again, and the object of the old logo deleted.
RefreshAndDelete(i) ==
    /\ i \in Changing /\ calls[i].state = "committed"
    /\ db' = [db EXCEPT !.objects = IF Column(i) = "logo" THEN @ \ {calls[i].data} ELSE @]
    /\ calls' = Reply(i, db.row[Column(i)]) /\ UNCHANGED << ui, behind >>

Next ==
    \/ HandleFileChange \/ HandleDelete
    \/ \E name \in Name \cup {None} :
         \/ HandleSaveName(name)
         \/ \E op \in {"uploadLogo", "deleteLogo", "updateCompanyName"} : RequestElsewhere(op, name)
    \/ \E i \in DOMAIN calls :
         \/ LoadReturned(i) \/ LoadThrew(i) \/ BrandLoaded(i) \/ BrandThrew(i)
         \/ NameSaved(i) \/ LogoChanged(i) \/ ChangeThrew(i)
         \/ ServeSettings(i) \/ EndedElsewhere(i)
         \/ GetSettingsRow(i) \/ Commit(i) \/ RefreshAndDelete(i)

\* The page and the listeners show what is stored, but for what was changed behind them.
ShowsStored ==
    Quiet =>
        /\ \A f \in Setting \ behind : ui.page[f] = db.row[f]
        /\ \A l \in Listener \ behind : ui.brand[l] = db.row

\* The object of the logo that is stored is in the storage.
LogoFileExists == db.row.logo # None => db.row.logo \in db.objects

\* The inductive invariant: an object that was stored for an upload is the logo of no row
\* until it is committed, and nobody has read it there, to delete it.
FetchCall ==
    [op : {"fetchAppSettings"}, arg : {"page"} \cup Listener, then : {None}, state : {"sent", "ok"},
     data : {None} \cup SettingsRow, old : BOOLEAN]
LogoCall ==
    [op : {"uploadLogo", "deleteLogo"}, arg : Key \cup {None}, then : Owner,
     state : {"sent", "loaded", "committed", "ok"}, data : Key \cup {None}, old : BOOLEAN]
NameCall ==
    [op : {"updateCompanyName"}, arg : Name \cup {None}, then : Owner,
     state : {"sent", "loaded", "committed", "ok"}, data : Name \cup {None}, old : BOOLEAN]

Stored(c) == c.op = "uploadLogo" /\ c.state = "loaded"
HasRead(c) == c.op \in {"uploadLogo", "deleteLogo"} /\ c.state \in {"loaded", "committed"}

CallOK(c) ==
    /\ c.op = "fetchAppSettings" /\ c.state = "ok" => c.data \in SettingsRow
    /\ c.op = "deleteLogo" => c.arg = None
    /\ Stored(c) => c.arg \in db.objects \ {db.row.logo}
    /\ HasRead(c) => c.data \in (1 .. db.used) \cup {None}
    /\ HasRead(c) /\ c.state = "committed" => c.data # db.row.logo \/ c.data = None
Apart(c, d) == Stored(c) /\ HasRead(d) => c.arg # d.data
Distinct(c, d) == Stored(c) /\ Stored(d) => c.arg # d.arg

IInv ==
    /\ TypeOK /\ LogoFileExists
    /\ db.row.logo \in (1 .. db.used) \cup {None}
    /\ calls \in Seq(FetchCall \cup LogoCall \cup NameCall)
    /\ \A i \in DOMAIN calls : CallOK(calls[i])
    /\ \A i, j \in DOMAIN calls : Apart(calls[i], calls[j]) /\ (i # j => Distinct(calls[i], calls[j]))

\* Changes of the page that are committed, and that it has not heard of.
Pending == {i \in Changing : calls[i].then = "here" /\ calls[i].state \in {"committed", "ok"}}
LoadsOf(place) == {i \in Doing("fetchAppSettings") : calls[i].arg = place}

\* The page loads once, and changes the settings after that.
PageLoad ==
    /\ \A i, j \in LoadsOf("page") : i = j
    /\ \A i \in LoadsOf("page") :
         ui.status = "loading" /\ (calls[i].state = "ok" /\ ~calls[i].old => calls[i].data = db.row)
    /\ \A i \in Changing : calls[i].then = "here" => ui.status = "ready"

\* The inductive invariant of what is shown: what a change has read again is stored, unless it
\* was overtaken; a column that the page does not show as it is stored is about to be heard
\* of; and a listener will hear of a change or has a load to come, of which the last answer is
\* what is stored.
ListIInv ==
    /\ PageLoad
    /\ \A i \in Pending : calls[i].state = "ok" /\ ~calls[i].old => calls[i].data = db.row[Column(i)]
    /\ ui.status = "ready" =>
         \A f \in Setting \ behind : ui.page[f] = db.row[f] \/ \E i \in Pending : Column(i) = f
    /\ Pending = {} =>
         \A l \in Listener :
             /\ \A j \in Latest(LoadsOf(l)) :
                  calls[j].state = "ok" /\ ~calls[j].old => calls[j].data = db.row
             /\ LoadsOf(l) = {} /\ l \notin behind => ui.brand[l] = db.row
===============================================================================
