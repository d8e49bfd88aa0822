-------------------------------- MODULE Session --------------------------------
(***************************************************************************)
(* The session of one browser tab: the access token in memory, the refresh *)
(* cookie that it shares with other tabs, and who the screens say is in.   *)
(* Jobs run at once (the session is restored, someone logs in or out, the  *)
(* pages make requests), each an exchange after another with the server,   *)
(* and each that is denied refreshes the token on its own.                 *)
(***************************************************************************)
EXTENDS Naturals

CONSTANTS
    User, Admins, None,
    Request,                \* bound: the requests of the pages under way at a time
    MAX_RESTORE_ATTEMPTS

\* What a job is told, or knows to ask next, besides who someone is.
Word == {"denied", "done", "error", "me", "refresh"}

ASSUME SessionAssumption ==
    /\ Admins \subseteq User
    /\ None \notin User \cup Word /\ User \cap Word = {}
    /\ Request \cap {"restore", "login", "logout"} = {}
    /\ MAX_RESTORE_ATTEMPTS \in Nat \ {0}

VARIABLES
    token,      \* whose the access token is
    cookie,     \* whose the refresh cookie is
    status, user,
    path, from, \* where the tab is, and where it was sent to the login from
    jobs,
    active,     \* the accounts that are, on the server
    crossed,    \* history: a session was started or ended across another's exchange
    lapsed      \* history: this session could not have been refreshed, at some time

shown == << status, user, path, from >>
vars == << token, cookie, shown, jobs, active, crossed, lapsed >>

Job == {"restore", "login", "logout"} \cup Request
Guarded == {"/vender", "/admin"}
Login == "/admin/login"

\* An exchange: what is asked with whose credentials, and the answer when it has come, a
\* user, "denied", "done" or "error".  again: it follows a denial.  back: where from.
Idle == [at |-> "idle", cred |-> None, answer |-> None, tries |-> 0, again |-> FALSE, back |-> None]
Ask(at, cred) == [Idle EXCEPT !.at = at, !.cred = cred]
AskAgain(at, cred, job) == [job EXCEPT !.at = at, !.cred = cred, !.answer = None, !.again = TRUE]

Running(js, j) == js[j].at # "idle"

\* A refresh, or the restore, while the session is started or ended.
Crossing(js) ==
    /\ Running(js, "login") \/ Running(js, "logout")
    /\ Running(js, "restore") \/ \E j \in Job : js[j].at = "refresh"

-----------------------------------------------------------------------------
(* Where the routes send a tab.                                            *)

Home(u) == IF u \in Admins THEN "/admin" ELSE "/vender"

\* Mutant: the login stays where it is for someone who is in.
SentToLogin(st, u, at) ==
    CASE st = "anonymous" /\ at.path # Login -> [path |-> Login, from |-> at.path]
      [] st = "authenticated" /\ at.path = "/admin" /\ u \notin Admins -> [path |-> "/vender", from |-> None]
      [] OTHER -> at

\* Mutant: the role is not asked for again on the page that the login goes back to.
SentBack(st, u, at) ==
    CASE st = "anonymous" /\ at.path # Login -> [path |-> Login, from |-> at.path]
      [] st = "authenticated" /\ at.path = Login ->
           [path |-> IF at.from = None THEN Home(u) ELSE at.from, from |-> None]
      [] OTHER -> at

\* ProtectedRoute, AdminOnlyRoute and the redirection of LoginPage.
Sent(st, u, at) ==
    CASE st = "anonymous" /\ at.path # Login -> [path |-> Login, from |-> at.path]
      [] st = "authenticated" /\ at.path = "/admin" /\ u \notin Admins -> [path |-> "/vender", from |-> None]
      [] st = "authenticated" /\ at.path = Login ->
           [path |-> IF at.from = None THEN Home(u) ELSE at.from, from |-> None]
      [] OTHER -> at

Here == [path |-> path, from |-> from]

\* Who is in, and where a tab that was somewhere comes to rest.
Show(st, u, at) ==
    LET there == Sent(st, u, Sent(st, u, at))
    IN  status' = st /\ user' = u /\ path' = there.path /\ from' = there.from

\* No tab rests where its user is not allowed or at the login when someone is in, and none
\* is loading without a restore.
TypeOK ==
    /\ {token, cookie, user} \subseteq User \cup {None} /\ active \subseteq User
    /\ status \in {"loading", "anonymous", "authenticated"}
    /\ (user # None) = (status = "authenticated")
    /\ path \in Guarded \cup {Login} /\ from \in Guarded \cup {None}
    /\ status = "anonymous" => path = Login
    /\ status = "authenticated" => path # Login /\ (path = "/admin" => user \in Admins)
    /\ status = "loading" => Running(jobs, "restore")

-----------------------------------------------------------------------------
Init ==
    /\ cookie \in User \cup {None} /\ token = None /\ active = User
    /\ status = "loading" /\ user = None
    /\ path \in Guarded \cup {Login} /\ from = None
    /\ jobs = [[j \in Job |-> Idle] EXCEPT !["restore"] = Ask("refresh", cookie)]
    /\ crossed = FALSE /\ lapsed = FALSE

\* What a step leaves to tell of it.
Noting ==
    /\ crossed' = (crossed \/ Crossing(jobs'))
    /\ lapsed' = ((status = "authenticated" /\ lapsed) \/ cookie' = None \/ user' \notin active')

Goes(j, job) == jobs' = [jobs EXCEPT ![j] = job]
Done(j) == Goes(j, Idle)
\* Bound: once exchanges have crossed, those under way come to their end and that is all.
Start(j, job) ==
    /\ ~crossed /\ jobs[j] = Idle
    /\ Goes(j, job) /\ UNCHANGED << token, cookie, active, shown >> /\ Noting

\* The form is there while the session is being restored too.
\* Bound: a login under way when the form is left keeps it from another.
HandleSubmit(u) == path = Login /\ Start("login", [Ask("login", u) EXCEPT !.back = from])

Logout == status = "authenticated" /\ Start("logout", Ask("logout", None))

\* The request of a page.
Fetch(r) == status = "authenticated" /\ Start(r, Ask("request", token))

\* A link, or the history of the browser.
Navigate(to) ==
    /\ ~crossed /\ Show(status, user, [path |-> to, from |-> None]) /\ Here' # Here
    /\ UNCHANGED << token, cookie, jobs, active >> /\ Noting

-----------------------------------------------------------------------------
(* The server: whose the credentials are, and whether the account is still *)
(* active.                                                                 *)

Waiting(j) == Running(jobs, j) /\ jobs[j].at # "sleep" /\ jobs[j].answer = None

Reply(j, answer) ==
    /\ Goes(j, [jobs[j] EXCEPT !.answer = answer])
    /\ UNCHANGED << token, cookie, active, shown >> /\ Noting

Allowed(j) == IF jobs[j].cred \in active THEN jobs[j].cred ELSE "denied"

\* An access token expires, but not one that was just refreshed.
get_current_user(j) ==
    /\ Waiting(j) /\ jobs[j].at \in {"me", "request"}
    /\ Reply(j, Allowed(j)) \/ (~jobs[j].again /\ Reply(j, "denied"))

refresh(j) == Waiting(j) /\ jobs[j].at = "refresh" /\ Reply(j, Allowed(j))

\* The password may be wrong.
login == /\ Waiting("login") /\ jobs["login"].at = "login"
         /\ Reply("login", Allowed("login")) \/ Reply("login", "denied")

logout == Waiting("logout") /\ Reply("logout", "done")

\* The server is at its rate limit, or the network fails: serving changes nothing there, so
\* the answer that is lost is the same as the one that is not given.
Fail(j) == Waiting(j) /\ Reply(j, "error")

\* Bound: one account.
Deactivate(u) ==
    /\ ~crossed /\ active = User /\ active' = active \ {u}
    /\ UNCHANGED << token, cookie, jobs, shown >> /\ Noting

\* Another tab logs in as someone else or out, or the cookie expires.
OtherTab(u) ==
    /\ ~crossed /\ u \in active \cup {None} /\ u # cookie /\ cookie' = u
    /\ crossed' = (crossed \/ u # None) /\ lapsed' = (lapsed \/ u = None)
    /\ UNCHANGED << token, jobs, active, shown >>

-----------------------------------------------------------------------------
(* What the browser does with an answer.                                   *)

Answered(j, at, A) == jobs[j].at = at /\ jobs[j].answer \in A

\* The restore is over: it shows whom it found, even if a login was quicker.
Restored(u) == Done("restore") /\ Show(IF u = None THEN "anonymous" ELSE "authenticated", u, Here)

\* Mutant: the tries are not counted.
TryAnyTimes(at) ==
    Goes("restore", [jobs["restore"] EXCEPT !.at = "sleep", !.answer = at, !.again = FALSE]) /\ UNCHANGED shown

\* After a transient error the same is asked a while later, or given up.
TryLater(at) ==
    IF jobs["restore"].tries + 1 >= MAX_RESTORE_ATTEMPTS THEN Restored(None)
    ELSE /\ Goes("restore", [jobs["restore"] EXCEPT !.at = "sleep", !.answer = at,
                                                    !.tries = @ + 1, !.again = FALSE])
         /\ UNCHANGED shown

Awake ==
    LET job == jobs["restore"] IN
    /\ job.at = "sleep"
    /\ Goes("restore", [Ask(job.answer, IF job.answer = "me" THEN token ELSE cookie) EXCEPT !.tries = job.tries])
    /\ UNCHANGED << token, cookie, active, shown >> /\ Noting

\* The call that asked ends with a 401.
Ends401(j) == IF j = "restore" THEN Restored(None) ELSE Done(j) /\ UNCHANGED shown

\* A new token, with which what was denied is asked again, or the restore asks who it is.
Refreshed(j) ==
    /\ Answered(j, "refresh", User)
    /\ token' = jobs[j].answer /\ cookie' = jobs[j].answer
    /\ Goes(j, IF jobs[j].again
               THEN AskAgain(IF j \in Request THEN "request" ELSE "me", jobs[j].answer, jobs[j])
               ELSE Ask("me", jobs[j].answer))
    /\ UNCHANGED << active, shown >> /\ Noting

\* onUnauthorized: the token stays where it is.
RefreshRefused(j) ==
    /\ Answered(j, "refresh", {"denied"})
    /\ IF j = "restore" THEN Restored(None) ELSE Done(j) /\ Show("anonymous", None, Here)
    /\ UNCHANGED << token, cookie, active >> /\ Noting

\* Mutant: a refresh that fails is taken for one that is refused.
RefreshFailedIsRefused(j) ==
    /\ Answered(j, "refresh", {"error"})
    /\ IF j = "restore" THEN TryLater("refresh") ELSE Done(j) /\ Show("anonymous", None, Here)
    /\ UNCHANGED << token, cookie, active >> /\ Noting

\* It says nothing of the session: what was denied stays denied, and nobody is out for it.
RefreshFailed(j) ==
    /\ Answered(j, "refresh", {"error"})
    /\ IF j = "restore" /\ ~jobs[j].again THEN TryLater("refresh") ELSE Ends401(j)
    /\ UNCHANGED << token, cookie, active >> /\ Noting

\* A 401 is refreshed once.
Denied(j) ==
    /\ Answered(j, "me", {"denied"}) \/ Answered(j, "request", {"denied"})
    /\ IF jobs[j].again THEN Ends401(j)
       ELSE Goes(j, AskAgain("refresh", cookie, jobs[j])) /\ UNCHANGED shown
    /\ UNCHANGED << token, cookie, active >> /\ Noting

RequestEnds(r) ==
    /\ Answered(r, "request", User \cup {"error"}) /\ Done(r)
    /\ UNCHANGED << token, cookie, active, shown >> /\ Noting

RestoreAnswered ==
    /\ \/ \E u \in User : Answered("restore", "me", {u}) /\ Restored(u)
       \/ Answered("restore", "me", {"error"}) /\ TryLater("me")
    /\ UNCHANGED << token, cookie, active >> /\ Noting

LoginAccepted ==
    LET job == jobs["login"] IN
    /\ Answered("login", "login", User)
    /\ token' = job.answer /\ cookie' = job.answer
    /\ Goes("login", [job EXCEPT !.at = "me", !.cred = job.answer, !.answer = None])
    /\ UNCHANGED << active, shown >> /\ Noting

\* The handler takes the tab where it was sent to the login from, wherever it is by now.
LoggedIn ==
    LET u == jobs["login"].answer
        back == jobs["login"].back
    IN  /\ Answered("login", "me", User)
        /\ Done("login")
        /\ Show("authenticated", u, [path |-> IF back = None THEN Home(u) ELSE back, from |-> None])
        /\ UNCHANGED << token, cookie, active >> /\ Noting

\* The form says the password is wrong: the token may be in place all the same.
LoginFailed ==
    /\ Answered("login", "login", {"denied", "error"}) \/ Answered("login", "me", {"error"})
    /\ Done("login") /\ UNCHANGED << token, cookie, active, shown >> /\ Noting

\* The token goes in any case, and the user only if the server has answered.
LogoutEnds ==
    /\ Answered("logout", "logout", {"done", "error"}) /\ Done("logout") /\ token' = None
    /\ IF jobs["logout"].answer = "done" THEN cookie' = None /\ Show("anonymous", None, Here)
       ELSE UNCHANGED << cookie, shown >>
    /\ UNCHANGED active /\ Noting

-----------------------------------------------------------------------------
Exchange(j) ==
    \/ get_current_user(j) \/ refresh(j) \/ Fail(j)
    \/ Refreshed(j) \/ RefreshRefused(j) \/ RefreshFailed(j) \/ Denied(j)

Restoring == Exchange("restore") \/ RestoreAnswered \/ Awake

Next ==
    \/ \E j \in Job : Exchange(j)
    \/ RestoreAnswered \/ Awake
    \/ login \/ LoginAccepted \/ LoggedIn \/ LoginFailed
    \/ logout \/ LogoutEnds
    \/ \E u \in User : HandleSubmit(u) \/ Deactivate(u)
    \/ \E u \in User \cup {None} : OtherTab(u)
    \/ Logout
    \/ \E r \in Request : Fetch(r) \/ RequestEnds(r)
    \/ \E to \in Guarded \cup {Login} : Navigate(to)

\* A fetch is answered or fails, and a timer goes off.
Spec == Init /\ [][Next]_vars /\ WF_vars(Restoring)

-----------------------------------------------------------------------------
(* The inductive invariant.                                                *)

\* What each job may be at, and what it has been told: while it sleeps, what it will ask.
Stages(j) ==
    CASE j = "restore" -> {"refresh", "me", "sleep"}
      [] j = "login" -> {"login", "me", "refresh"}
      [] j = "logout" -> {"logout"}
      [] OTHER -> {"request", "refresh"}

Stage == {"idle", "refresh", "me", "sleep", "login", "logout", "request"}
AJob == [at : Stage, cred : User \cup {None},
         answer : User \cup Word \cup {None},
         tries : Nat, again : BOOLEAN, back : Guarded \cup {None}]

JobOK(j, job) ==
    /\ job.at \in Stages(j) \cup {"idle"} /\ job.tries < MAX_RESTORE_ATTEMPTS
    /\ job.at = "refresh" /\ j # "restore" => job.again
    /\ job.answer \in User => job.answer = job.cred
    /\ (job.at = "sleep") = (job.answer \in {"me", "refresh"})

JobsOK == jobs \in [Job -> AJob] /\ \A j \in Job : JobOK(j, jobs[j])

\* Until exchanges cross, the session belongs to one job at a time: to the restore while
\* it runs, then to a login, and when someone is in to them alone, who is the user of
\* every token and cookie there is, and of every refresh.
OneUser ==
    ~crossed =>
        /\ ~Crossing(jobs)
        /\ Running(jobs, "restore") =>
             /\ status = "loading" /\ \A r \in Request : ~Running(jobs, r)
             /\ jobs["restore"].at = "me" => jobs["restore"].cred = token
             /\ "me" \in {jobs["restore"].at, jobs["restore"].answer} => cookie \in {token, None}
        /\ Running(jobs, "login") =>
             /\ status = "anonymous"
             /\ jobs["login"].at = "me" => {token, cookie} \subseteq {jobs["login"].cred, None}
        /\ status = "authenticated" =>
             /\ {token, cookie} \subseteq {user, None}
             /\ \A r \in Request : jobs[r].at = "refresh" => jobs[r].cred \in {user, None}

\* A session that cannot be refreshed is noted, and so is every refusal.
LapseNoted ==
    /\ \A j \in Job : jobs[j].at = "refresh" /\ jobs[j].answer = "denied" => jobs[j].cred \notin active
    /\ ~crossed /\ status = "authenticated" =>
         /\ cookie = None \/ user \notin active => lapsed
         /\ \A r \in Request : jobs[r].at = "refresh" /\ jobs[r].cred = None => lapsed

\* What every step of the tab, of the server and of other tabs keeps.
IInv == TypeOK /\ JobsOK /\ OneUser /\ LapseNoted

-----------------------------------------------------------------------------
\* Requests are made as who the screens say is in, or as nobody, whatever was refreshed or
\* failed, until the session is started or ended across a refresh or in another tab: the
\* code lets a token of a former session, or of someone else, take its place then.
ActsAsShown == status = "authenticated" /\ token # None /\ ~crossed => token = user

RestoreOver == Running(jobs, "restore") /\ ~Running(jobs', "restore")

\* Who is in is sent to the login only because they logged out; because a refresh was
\* refused, of this session unless another was started or ended across it; or, when they
\* logged in across the restore, because the restore is over and has found nobody.  That
\* restore may have ended for calls that failed (AuthContext.tsx:73-77): but for it, a call
\* that fails ends no session.
SessionEndsForAReason ==
    [][status = "authenticated" /\ status' = "anonymous" =>
         \/ jobs["logout"].answer = "done"
         \/ /\ \E j \in Job : jobs[j].at = "refresh" /\ jobs[j].answer = "denied"
            /\ lapsed \/ crossed
         \/ crossed /\ RestoreOver]_vars

\* "Verificando sesion" is not shown for ever: the restore ends, however calls fail.
RestoreEnds == status = "loading" ~> status # "loading"
===============================================================================
