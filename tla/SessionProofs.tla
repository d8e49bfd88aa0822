--------------------------- MODULE SessionProofs ----------------------------
(***************************************************************************)
(* Proofs about Session, for any users, requests and number of attempts.   *)
(***************************************************************************)
EXTENDS Session, TLAPS

(* Jobs, field by field.                                                   *)

Cred == User \cup {None}

LEMMA IdleIs ==
    /\ Idle \in AJob /\ Idle.at = "idle" /\ Idle.cred = None /\ Idle.answer = None
    /\ Idle.tries = 0 /\ ~Idle.again /\ Idle.back = None
BY DEF Idle, AJob, Stage

LEMMA AskIs ==
    ASSUME NEW at \in Stage, NEW c \in Cred
    PROVE  /\ Ask(at, c) \in AJob /\ Ask(at, c).at = at /\ Ask(at, c).cred = c
           /\ Ask(at, c).answer = None /\ Ask(at, c).tries = 0 /\ ~Ask(at, c).again
           /\ Ask(at, c).back = None
<1> DEFINE x == Idle
           y == [x EXCEPT !.at = at]
           z == [y EXCEPT !.cred = c]
<1>1. x \in AJob /\ x.answer = None /\ x.tries = 0 /\ ~x.again /\ x.back = None
  BY IdleIs
<1> HIDE DEF x
<1>2. y \in AJob /\ y.at = at /\ y.answer = None /\ y.tries = 0 /\ ~y.again /\ y.back = None
  BY <1>1 DEF AJob
<1> HIDE DEF y
<1>3. z \in AJob /\ z.at = at /\ z.cred = c /\ z.answer = None /\ z.tries = 0 /\ ~z.again /\ z.back = None
  BY <1>2 DEF AJob, Cred
<1>4. z = Ask(at, c)
  BY DEF Ask, x, y
<1> QED BY <1>3, <1>4

LEMMA AskAgainIs ==
    ASSUME NEW at \in Stage, NEW c \in Cred, NEW job \in AJob
    PROVE  LET k == AskAgain(at, c, job) IN
           /\ k \in AJob /\ k.at = at /\ k.cred = c /\ k.answer = None /\ k.again
           /\ k.tries = job.tries /\ k.back = job.back
<1> DEFINE x == [job EXCEPT !.at = at]
           y == [x EXCEPT !.cred = c]
           z == [y EXCEPT !.answer = None]
           k == [z EXCEPT !.again = TRUE]
<1>1. x \in AJob /\ x.at = at /\ x.tries = job.tries /\ x.back = job.back
  BY DEF AJob
<1> HIDE DEF x
<1>2. y \in AJob /\ y.at = at /\ y.cred = c /\ y.tries = job.tries /\ y.back = job.back
  BY <1>1 DEF AJob, Cred
<1> HIDE DEF y
<1>3. z \in AJob /\ z.at = at /\ z.cred = c /\ z.answer = None /\ z.tries = job.tries /\ z.back = job.back
  BY <1>2 DEF AJob
<1> HIDE DEF z
<1>4. /\ k \in AJob /\ k.at = at /\ k.cred = c /\ k.answer = None /\ k.again
      /\ k.tries = job.tries /\ k.back = job.back
  BY <1>3 DEF AJob
<1>5. k = AskAgain(at, c, job)
  BY DEF AskAgain, x, y, z
<1> HIDE DEF k
<1> QED BY <1>4, <1>5

LEMMA AskFrom ==
    ASSUME NEW at \in Stage, NEW c \in Cred, NEW b \in Guarded \cup {None}
    PROVE  LET k == [Ask(at, c) EXCEPT !.back = b] IN
           /\ k \in AJob /\ k.at = at /\ k.cred = c /\ k.answer = None /\ k.tries = 0 /\ k.back = b
<1> DEFINE x == Ask(at, c)
<1>1. x \in AJob /\ x.at = at /\ x.cred = c /\ x.answer = None /\ x.tries = 0
  BY AskIs
<1> HIDE DEF x
<1>2. LET k == [x EXCEPT !.back = b] IN
      /\ k \in AJob /\ k.at = at /\ k.cred = c /\ k.answer = None /\ k.tries = 0 /\ k.back = b
  BY <1>1 DEF AJob
<1> QED BY <1>2 DEF x

LEMMA AskLater ==
    ASSUME NEW at \in Stage, NEW c \in Cred, NEW n \in Nat
    PROVE  LET k == [Ask(at, c) EXCEPT !.tries = n] IN
           /\ k \in AJob /\ k.at = at /\ k.cred = c /\ k.answer = None /\ k.tries = n
<1> DEFINE x == Ask(at, c)
<1>1. x \in AJob /\ x.at = at /\ x.cred = c /\ x.answer = None
  BY AskIs
<1> HIDE DEF x
<1>2. LET k == [x EXCEPT !.tries = n] IN
      /\ k \in AJob /\ k.at = at /\ k.cred = c /\ k.answer = None /\ k.tries = n
  BY <1>1 DEF AJob
<1> QED BY <1>2 DEF x

LEMMA Sleeps ==
    ASSUME NEW at \in {"me", "refresh"}, NEW job \in AJob
    PROVE  LET k == [job EXCEPT !.at = "sleep", !.answer = at, !.tries = @ + 1, !.again = FALSE] IN
           /\ k \in AJob /\ k.at = "sleep" /\ k.answer = at /\ k.tries = job.tries + 1
<1> DEFINE x == [job EXCEPT !.at = "sleep"]
           y == [x EXCEPT !.answer = at]
           z == [y EXCEPT !.tries = job.tries + 1]
           k == [z EXCEPT !.again = FALSE]
<1>1. x \in AJob /\ x.at = "sleep" /\ x.tries = job.tries
  BY DEF AJob, Stage
<1> HIDE DEF x
<1>2. y \in AJob /\ y.at = "sleep" /\ y.answer = at /\ y.tries = job.tries
  BY <1>1 DEF AJob, Word
<1> HIDE DEF y
<1>3. z \in AJob /\ z.at = "sleep" /\ z.answer = at /\ z.tries = job.tries + 1
  BY <1>2 DEF AJob
<1> HIDE DEF z
<1>4. k \in AJob /\ k.at = "sleep" /\ k.answer = at /\ k.tries = job.tries + 1
  BY <1>3 DEF AJob
<1>5. k = [job EXCEPT !.at = "sleep", !.answer = at, !.tries = @ + 1, !.again = FALSE]
  BY DEF x, y, z
<1> HIDE DEF k
<1> QED BY <1>4, <1>5

LEMMA AskMe ==
    ASSUME NEW c \in Cred, NEW job \in AJob
    PROVE  LET k == [job EXCEPT !.at = "me", !.cred = c, !.answer = None] IN
           /\ k \in AJob /\ k.at = "me" /\ k.cred = c /\ k.answer = None
           /\ k.tries = job.tries /\ k.back = job.back
<1> DEFINE x == [job EXCEPT !.at = "me"]
           y == [x EXCEPT !.cred = c]
           k == [y EXCEPT !.answer = None]
<1>1. x \in AJob /\ x.at = "me" /\ x.tries = job.tries /\ x.back = job.back
  BY DEF AJob, Stage
<1> HIDE DEF x
<1>2. y \in AJob /\ y.at = "me" /\ y.cred = c /\ y.tries = job.tries /\ y.back = job.back
  BY <1>1 DEF AJob, Cred
<1> HIDE DEF y
<1>3. /\ k \in AJob /\ k.at = "me" /\ k.cred = c /\ k.answer = None
      /\ k.tries = job.tries /\ k.back = job.back
  BY <1>2 DEF AJob
<1>4. k = [job EXCEPT !.at = "me", !.cred = c, !.answer = None]
  BY DEF x, y
<1> HIDE DEF k
<1> QED BY <1>3, <1>4

LEMMA Told ==
    ASSUME NEW job \in AJob, NEW answer \in User \cup {"denied", "done", "error"}
    PROVE  LET k == [job EXCEPT !.answer = answer] IN
           /\ k \in AJob /\ k.at = job.at /\ k.cred = job.cred /\ k.answer = answer
           /\ k.tries = job.tries /\ k.again = job.again /\ k.back = job.back
BY DEF AJob, Word

-----------------------------------------------------------------------------
(* Where a tab comes to rest.                                              *)

Places == Guarded \cup {Login}

LEMMA Rests ==
    ASSUME NEW st \in {"loading", "anonymous", "authenticated"}, NEW u \in Cred,
           (u # None) = (st = "authenticated"),
           NEW at \in [path : Places, from : Guarded \cup {None}], Show(st, u, at)
    PROVE  /\ status' = st /\ user' = u /\ path' \in Places /\ from' \in Guarded \cup {None}
           /\ st = "anonymous" => path' = Login
           /\ st = "authenticated" => path' # Login /\ (path' = "/admin" => user' \in Admins)
<1> DEFINE one == Sent(st, u, at)
           two == Sent(st, u, one)
<1> USE SessionAssumption DEF Places, Guarded, Login
<1>1. one \in [path : Places, from : Guarded \cup {None}]
  BY DEF Sent, Home
<1>2. two \in [path : Places, from : Guarded \cup {None}]
  <2> HIDE DEF one
  <2> QED BY <1>1 DEF Sent, Home
<1>3. st = "anonymous" => two.path = Login
  BY <1>1, <1>2 DEF Sent
<1>4. st = "authenticated" => two.path # Login /\ (two.path = "/admin" => u \in Admins)
  BY <1>1, <1>2 DEF Sent, Home
<1>5. status' = st /\ user' = u /\ path' = two.path /\ from' = two.from
  BY DEF Show
<1> HIDE DEF two
<1> QED BY <1>2, <1>3, <1>4, <1>5

LEMMA RestsHere == TypeOK => Here \in [path : Places, from : Guarded \cup {None}]
BY DEF TypeOK, Here, Places

-----------------------------------------------------------------------------
(* Types.                                                                  *)

LEMMA JobChanged ==
    ASSUME JobsOK, NEW j \in Job, NEW k \in AJob, JobOK(j, k), Goes(j, k)
    PROVE  JobsOK' /\ jobs'[j] = k /\ \A i \in Job : i # j => jobs'[i] = jobs[i]
<1>1. jobs' \in [Job -> AJob] /\ jobs'[j] = k /\ \A i \in Job : i # j => jobs'[i] = jobs[i]
  BY DEF JobsOK, Goes
<1>2. \A i \in Job : JobOK(i, jobs'[i])
  BY <1>1 DEF JobsOK
<1> QED BY <1>1, <1>2 DEF JobsOK, JobOK, Stages

LEMMA JobsTyped ==
    ASSUME JobsOK, NEW j \in Job
    PROVE  /\ jobs[j] \in AJob /\ JobOK(j, jobs[j])
           /\ jobs[j].cred \in Cred /\ jobs[j].back \in Guarded \cup {None} /\ jobs[j].tries \in Nat
           /\ jobs[j].answer \in User => jobs[j].answer \in Cred
BY DEF JobsOK, AJob, Cred

LEMMA IdleOK == \A j \in Job : JobOK(j, Idle)
BY IdleIs, SessionAssumption DEF JobOK, Word

\* A step that shows nothing else.
LEMMA StaysTyped ==
    ASSUME IInv, NEW j \in Job, NEW k \in AJob, JobOK(j, k), Goes(j, k), UNCHANGED shown,
           token' \in Cred, cookie' \in Cred, active' \subseteq User,
           j = "restore" /\ k.at = "idle" => status # "loading"
    PROVE  TypeOK' /\ JobsOK'
<1>1. JobsOK' /\ jobs'[j] = k /\ \A i \in Job : i # j => jobs'[i] = jobs[i]
  BY JobChanged DEF IInv
<1> QED BY <1>1 DEF IInv, TypeOK, shown, Running, Cred, Job

\* A step after which the tab rests where it may.
LEMMA MovesTyped ==
    ASSUME IInv, NEW j \in Job, NEW k \in AJob, JobOK(j, k), Goes(j, k),
           NEW st \in {"anonymous", "authenticated"}, NEW u \in Cred,
           (u # None) = (st = "authenticated"),
           NEW at \in [path : Places, from : Guarded \cup {None}], Show(st, u, at),
           token' \in Cred, cookie' \in Cred, active' \subseteq User
    PROVE  TypeOK' /\ JobsOK' /\ status' = st /\ user' = u
<1>1. JobsOK'
  BY JobChanged DEF IInv
<1>2. /\ status' = st /\ user' = u /\ path' \in Places /\ from' \in Guarded \cup {None}
      /\ st = "anonymous" => path' = Login
      /\ st = "authenticated" => path' # Login /\ (path' = "/admin" => user' \in Admins)
  BY Rests
<1> QED BY <1>1, <1>2 DEF TypeOK, Cred, Places

LEMMA InitInv == Init => IInv
<1> SUFFICES ASSUME Init PROVE IInv
  OBVIOUS
<1> USE SessionAssumption DEF Word
<1> DEFINE k == Ask("refresh", cookie)
<1>1. /\ k \in AJob /\ k.at = "refresh" /\ k.cred = cookie /\ k.answer = None /\ k.tries = 0
  BY AskIs DEF Init, Cred, Stage
<1> HIDE DEF k
<1>2. jobs = [[j \in Job |-> Idle] EXCEPT !["restore"] = k]
  BY DEF Init, k
<1>3. jobs["restore"] = k /\ \A j \in Job : j # "restore" => jobs[j] = Idle
  BY <1>2 DEF Job
<1>4. JobOK("restore", k)
  BY <1>1 DEF JobOK, Stages
<1>5. JobsOK
  <2>1. jobs \in [Job -> AJob]
    BY <1>1, <1>2, IdleIs
  <2> QED BY <2>1, <1>3, <1>4, IdleOK DEF JobsOK
<1>6. TypeOK
  BY <1>1, <1>3 DEF Init, TypeOK, Running, Guarded, Login
<1>7. OneUser
  BY <1>1, <1>3, IdleIs DEF Init, OneUser, Crossing, Running, Job
<1>8. LapseNoted
  BY <1>1, <1>3, IdleIs DEF Init, LapseNoted
<1> QED BY <1>5, <1>6, <1>7, <1>8 DEF IInv

-----------------------------------------------------------------------------
(* What someone starts.                                                    *)

LEMMA Uncrossed ==
    ASSUME Noting, ~crossed'
    PROVE  ~crossed /\ ~Crossing(jobs')
BY DEF Noting

\* What every job is told is unchanged but for the one that has started.
LEMMA StartStep ==
    ASSUME IInv, NEW j \in Job \ {"restore"}, NEW k \in AJob, JobOK(j, k), Start(j, k),
           k.answer = None, k.at \notin {"idle", "refresh", "me"},
           j = "login" => path = Login,
           j \in Request => status = "authenticated"
    PROVE  IInv'
<1> USE SessionAssumption
<1>1. Goes(j, k) /\ UNCHANGED << token, cookie, active, shown >> /\ Noting
  BY DEF Start
<1>2. TypeOK' /\ JobsOK'
  BY <1>1, StaysTyped DEF IInv, TypeOK, Cred
<1>3. jobs'[j] = k /\ \A i \in Job : i # j => jobs'[i] = jobs[i]
  BY <1>1, JobChanged DEF IInv
<1>4. OneUser'
  <2> SUFFICES ASSUME ~crossed' PROVE OneUser'
    BY DEF OneUser
  <2>1. ~crossed /\ ~Crossing(jobs')
    BY <1>1, Uncrossed
  <2>2. Running(jobs', "login") => status = "anonymous"
    <3>1. CASE j = "login"
      <4>1. ~Running(jobs, "restore")
        BY <1>3, <2>1, <3>1 DEF Crossing, Running, Job
      <4> QED BY <3>1, <4>1 DEF IInv, TypeOK
    <3>2. CASE j # "login"
      BY <1>3, <2>1, <3>2 DEF IInv, OneUser, Running, Job
    <3> QED BY <3>1, <3>2
  <2>3. ~crossed /\ UNCHANGED << status, user, token, cookie >>
    BY <1>1, <2>1 DEF shown
  <2>4. Running(jobs, "restore") => j \notin Request
    BY <1>3, <2>1, <2>3, SessionAssumption DEF IInv, OneUser, TypeOK, Start, Running, Job
  <2> QED BY <1>3, <2>1, <2>2, <2>3, <2>4 DEF IInv, OneUser, Running, Job
<1>5. LapseNoted'
  BY <1>1, <1>3 DEF IInv, LapseNoted, Noting, shown, Job
<1> QED BY <1>2, <1>4, <1>5 DEF IInv

LEMMA HandleSubmitStep == ASSUME IInv, NEW u \in User, HandleSubmit(u) PROVE IInv'
<1> DEFINE k == [Ask("login", u) EXCEPT !.back = from]
<1>1. /\ k \in AJob /\ k.at = "login" /\ k.cred = u /\ k.answer = None /\ k.tries = 0
  BY AskFrom DEF IInv, TypeOK, Cred, Stage
<1>2. Start("login", k) /\ path = Login
  BY DEF HandleSubmit
<1> HIDE DEF k
<1>3. JobOK("login", k)
  BY <1>1, SessionAssumption DEF JobOK, Stages, Word
<1> QED BY <1>1, <1>2, <1>3, StartStep, SessionAssumption DEF Job

LEMMA LogoutStep == ASSUME IInv, Logout PROVE IInv'
<1> DEFINE k == Ask("logout", None)
<1>1. /\ k \in AJob /\ k.at = "logout" /\ k.answer = None /\ k.tries = 0
  BY AskIs DEF Cred, Stage
<1>2. Start("logout", k)
  BY DEF Logout
<1> HIDE DEF k
<1>3. JobOK("logout", k)
  BY <1>1, SessionAssumption DEF JobOK, Stages, Word
<1> QED BY <1>1, <1>2, <1>3, StartStep, SessionAssumption DEF Job

LEMMA FetchStep == ASSUME IInv, NEW r \in Request, Fetch(r) PROVE IInv'
<1> DEFINE k == Ask("request", token)
<1>1. /\ k \in AJob /\ k.at = "request" /\ k.answer = None /\ k.tries = 0
  BY AskIs DEF IInv, TypeOK, Cred, Stage
<1>2. Start(r, k) /\ status = "authenticated"
  BY DEF Fetch
<1> HIDE DEF k
<1>3. JobOK(r, k)
  BY <1>1, SessionAssumption DEF JobOK, Stages, Word
<1> QED BY <1>1, <1>2, <1>3, StartStep, SessionAssumption DEF Job

LEMMA NavigateStep ==
    ASSUME IInv, NEW to \in Guarded \cup {Login}, Navigate(to) PROVE IInv'
<1> DEFINE at == [path |-> to, from |-> None]
<1>1. at \in [path : Places, from : Guarded \cup {None}]
  BY DEF Places
<1>2. Show(status, user, at) /\ UNCHANGED << token, cookie, jobs, active >> /\ Noting /\ ~crossed
  BY DEF Navigate
<1> HIDE DEF at
<1>3. /\ status' = status /\ user' = user /\ path' \in Places /\ from' \in Guarded \cup {None}
      /\ status = "anonymous" => path' = Login
      /\ status = "authenticated" => path' # Login /\ (path' = "/admin" => user' \in Admins)
  BY <1>1, <1>2, Rests DEF IInv, TypeOK, Cred
<1>4. TypeOK' /\ JobsOK'
  BY <1>2, <1>3 DEF IInv, TypeOK, JobsOK, Places, Running, JobOK, Stages
<1>5. OneUser'
  BY <1>2, <1>3 DEF IInv, OneUser, Crossing, Running
<1>6. LapseNoted'
  BY <1>2, <1>3 DEF IInv, LapseNoted, Noting
<1> QED BY <1>4, <1>5, <1>6 DEF IInv

-----------------------------------------------------------------------------
(* What the server answers, and what other tabs do.                        *)

LEMMA ReplyStep ==
    ASSUME IInv, NEW j \in Job, NEW answer \in User \cup {"denied", "done", "error"},
           Waiting(j), Reply(j, answer),
           answer \in User => answer = jobs[j].cred,
           jobs[j].at = "refresh" /\ answer = "denied" => jobs[j].cred \notin active
    PROVE  IInv'
<1> USE SessionAssumption
<1> DEFINE k == [jobs[j] EXCEPT !.answer = answer]
<1>1. Goes(j, k) /\ UNCHANGED << token, cookie, active, shown >> /\ Noting
  BY DEF Reply
<1>2. /\ k \in AJob /\ k.at = jobs[j].at /\ k.cred = jobs[j].cred /\ k.answer = answer
      /\ k.tries = jobs[j].tries /\ k.again = jobs[j].again
  BY Told, JobsTyped DEF IInv
<1> HIDE DEF k
<1>3. k.at # "idle" /\ k.at # "sleep" /\ answer \notin {"me", "refresh"}
  BY <1>2 DEF Waiting, Running, Word
<1>4. JobOK(j, k)
  BY <1>2, <1>3, JobsTyped DEF IInv, JobOK
<1>5. TypeOK' /\ JobsOK'
  BY <1>1, <1>3, <1>4, <1>2, StaysTyped DEF IInv, TypeOK, Cred
<1>6. jobs'[j] = k /\ \A i \in Job : i # j => jobs'[i] = jobs[i]
  BY <1>1, <1>2, <1>4, JobChanged DEF IInv
<1>7. OneUser'
  <2> SUFFICES ASSUME ~crossed' PROVE OneUser'
    BY DEF OneUser
  <2>1. ~crossed /\ ~Crossing(jobs')
    BY <1>1, Uncrossed
  <2>2. UNCHANGED << status, user, token, cookie >>
    BY <1>1 DEF shown
  <2> QED BY <1>2, <1>3, <1>6, <2>1, <2>2 DEF IInv, OneUser, Running, Job
<1>8. LapseNoted'
  BY <1>1, <1>2, <1>6 DEF IInv, LapseNoted, Noting, shown, Job
<1> QED BY <1>5, <1>7, <1>8 DEF IInv

LEMMA AllowedIs ==
    ASSUME IInv, NEW j \in Job
    PROVE  /\ Allowed(j) \in User \cup {"denied"}
           /\ Allowed(j) \in User => Allowed(j) = jobs[j].cred
           /\ Allowed(j) = "denied" => jobs[j].cred \notin active
<1>1. active \subseteq User /\ "denied" \notin User
  BY SessionAssumption DEF IInv, TypeOK, Word
<1> QED BY <1>1 DEF Allowed

LEMMA ServerStep ==
    ASSUME IInv, NEW j \in Job,
           \/ get_current_user(j) \/ refresh(j) \/ Fail(j)
           \/ j = "login" /\ login
           \/ j = "logout" /\ logout
    PROVE  IInv'
<1> USE SessionAssumption DEF Word
<1>1. CASE get_current_user(j)
  <2>1. Waiting(j) /\ jobs[j].at # "refresh" /\ (Reply(j, Allowed(j)) \/ Reply(j, "denied"))
    BY <1>1 DEF get_current_user
  <2> QED BY <2>1, AllowedIs, ReplyStep
<1>2. CASE refresh(j)
  BY <1>2, AllowedIs, ReplyStep DEF refresh
<1>3. CASE Fail(j)
  BY <1>3, ReplyStep DEF Fail
<1>4. CASE j = "login" /\ login
  <2>1. Waiting(j) /\ jobs[j].at # "refresh" /\ (Reply(j, Allowed(j)) \/ Reply(j, "denied"))
    BY <1>4 DEF login
  <2> QED BY <2>1, AllowedIs, ReplyStep
<1>5. CASE j = "logout" /\ logout
  <2>1. jobs[j].at # "refresh"
    BY <1>5, JobsTyped DEF IInv, JobOK, Stages
  <2> QED BY <1>5, <2>1, ReplyStep DEF logout
<1> QED BY <1>1, <1>2, <1>3, <1>4, <1>5

LEMMA DeactivateStep == ASSUME IInv, NEW u \in User, Deactivate(u) PROVE IInv'
<1>1. /\ ~crossed /\ active' = active \ {u}
      /\ UNCHANGED << token, cookie, jobs, status, user, path, from >> /\ Noting
  BY DEF Deactivate, shown
<1>2. TypeOK' /\ JobsOK'
  BY <1>1 DEF IInv, TypeOK, JobsOK, Running, JobOK, Stages
<1>3. OneUser'
  BY <1>1 DEF IInv, OneUser, Crossing, Running
<1>4. LapseNoted'
  BY <1>1 DEF IInv, LapseNoted, Noting
<1> QED BY <1>2, <1>3, <1>4 DEF IInv

LEMMA OtherTabStep == ASSUME IInv, NEW u \in Cred, OtherTab(u) PROVE IInv'
<1>1. /\ ~crossed /\ u \in active \cup {None} /\ cookie' = u
      /\ crossed' = (crossed \/ u # None) /\ lapsed' = (lapsed \/ u = None)
      /\ UNCHANGED << token, jobs, active, status, user, path, from >>
  BY DEF OtherTab, shown
<1>2. TypeOK' /\ JobsOK'
  BY <1>1 DEF IInv, TypeOK, JobsOK, Running, JobOK, Stages, Cred
<1>3. OneUser'
  BY <1>1 DEF IInv, OneUser, Crossing, Running
<1>4. LapseNoted'
  BY <1>1 DEF IInv, LapseNoted
<1> QED BY <1>2, <1>3, <1>4 DEF IInv

-----------------------------------------------------------------------------
(* What the browser does with an answer.                                   *)

\* A job ends that shows nothing; a logout may take the token with it.
LEMMA DoneStep ==
    ASSUME IInv, NEW j \in Job \ {"restore"}, Done(j), UNCHANGED << cookie, active, shown >>, Noting,
           token' = token \/ (token' = None /\ j = "logout" /\ Running(jobs, "logout"))
    PROVE  IInv'
<1> USE SessionAssumption
<1>1. Idle \in AJob /\ JobOK(j, Idle) /\ Goes(j, Idle)
  BY IdleIs, IdleOK DEF Done
<1>2. TypeOK' /\ JobsOK'
  BY <1>1, StaysTyped DEF IInv, TypeOK, Cred
<1>3. jobs'[j] = Idle /\ \A i \in Job : i # j => jobs'[i] = jobs[i]
  BY <1>1, JobChanged DEF IInv
<1>4. OneUser'
  <2> SUFFICES ASSUME ~crossed' PROVE OneUser'
    BY DEF OneUser
  <2>1. ~crossed /\ ~Crossing(jobs') /\ ~Crossing(jobs)
    BY Uncrossed DEF IInv, OneUser
  <2>2. UNCHANGED << status, user, cookie >>
    BY DEF shown
  <2>3. Running(jobs, "restore") => token' = token
    BY <2>1 DEF Crossing
  <2> QED BY <1>3, IdleIs, <2>1, <2>2, <2>3 DEF IInv, OneUser, Running, Job
<1>5. LapseNoted'
  BY <1>3, IdleIs DEF IInv, LapseNoted, Noting, shown, Job
<1> QED BY <1>2, <1>4, <1>5 DEF IInv

LEMMA RestoredStep ==
    ASSUME IInv, Running(jobs, "restore"), NEW u \in Cred, Restored(u),
           UNCHANGED << token, cookie, active >>, Noting,
           ~crossed /\ u # None => {token, cookie} \subseteq {u, None}
    PROVE  IInv' /\ status' = IF u = None THEN "anonymous" ELSE "authenticated"
<1> USE SessionAssumption
<1> DEFINE st == IF u = None THEN "anonymous" ELSE "authenticated"
<1>1. Idle \in AJob /\ JobOK("restore", Idle) /\ Goes("restore", Idle) /\ Show(st, u, Here)
  BY IdleIs, IdleOK DEF Done, Restored, Job
<1>2. st \in {"anonymous", "authenticated"} /\ (u # None) = (st = "authenticated")
  OBVIOUS
<1> HIDE DEF st
<1>3. TypeOK' /\ JobsOK' /\ status' = st /\ user' = u
  BY <1>1, <1>2, MovesTyped, RestsHere DEF IInv, TypeOK, Cred, Job
<1>4. jobs'["restore"] = Idle /\ \A i \in Job : i # "restore" => jobs'[i] = jobs[i]
  BY <1>1, JobChanged DEF IInv, Job
<1>5. OneUser'
  <2> SUFFICES ASSUME ~crossed' PROVE OneUser'
    BY DEF OneUser
  <2>1. ~crossed /\ ~Crossing(jobs') /\ ~Crossing(jobs)
    BY Uncrossed DEF IInv, OneUser
  <2>2. \A i \in Request \cup {"restore", "login"} : ~Running(jobs', i)
    BY <1>4, <2>1, IdleIs DEF IInv, OneUser, Running, Job, Crossing
  <2> QED BY <1>2, <1>3, <2>1, <2>2 DEF OneUser, Running
<1>6. LapseNoted'
  <2>1. ASSUME ~crossed', NEW r \in Request PROVE jobs'[r].at = "idle"
    BY <2>1, <1>4, Uncrossed DEF IInv, OneUser, Running, Job
  <2> QED BY <1>3, <1>4, <2>1, IdleIs DEF IInv, LapseNoted, Noting, Job
<1> QED BY <1>3, <1>5, <1>6 DEF IInv, st

LEMMA TryLaterStep ==
    ASSUME IInv, NEW at \in {"me", "refresh"}, jobs["restore"].at = at, TryLater(at),
           UNCHANGED << token, cookie, active >>, Noting
    PROVE  IInv'
<1> USE SessionAssumption DEF Word
<1> DEFINE job == jobs["restore"]
           k == [job EXCEPT !.at = "sleep", !.answer = at, !.tries = @ + 1, !.again = FALSE]
<1>1. job \in AJob /\ "restore" \in Job
  BY JobsTyped DEF IInv, Job
<1>2. CASE job.tries + 1 >= MAX_RESTORE_ATTEMPTS
  BY <1>2, RestoredStep DEF TryLater, Running, Cred
<1>3. CASE ~(job.tries + 1 >= MAX_RESTORE_ATTEMPTS)
  <2>1. Goes("restore", k) /\ UNCHANGED shown
    BY <1>3 DEF TryLater
  <2>2. k \in AJob /\ k.at = "sleep" /\ k.answer = at /\ k.tries = job.tries + 1
    BY <1>1, Sleeps
  <2> HIDE DEF k
  <2>3. JobOK("restore", k)
    BY <1>1, <1>3, <2>2, JobsTyped DEF IInv, JobOK, Stages, AJob
  <2>4. TypeOK' /\ JobsOK'
    BY <1>1, <2>1, <2>2, <2>3, StaysTyped DEF IInv, TypeOK, Cred
  <2>5. jobs'["restore"] = k /\ \A i \in Job : i # "restore" => jobs'[i] = jobs[i]
    BY <1>1, <2>1, <2>2, <2>3, JobChanged DEF IInv
  <2>6. OneUser'
    <3> SUFFICES ASSUME ~crossed' PROVE OneUser'
      BY DEF OneUser
    <3>1. ~crossed /\ ~Crossing(jobs') /\ UNCHANGED << status, user, token, cookie >>
      BY <2>1, Uncrossed DEF shown
    <3> QED BY <2>2, <2>5, <3>1 DEF IInv, OneUser, Running, Job
  <2>7. LapseNoted'
    BY <2>1, <2>2, <2>5 DEF IInv, LapseNoted, Noting, shown, Job
  <2> QED BY <2>4, <2>6, <2>7 DEF IInv
<1> QED BY <1>2, <1>3

LEMMA AwakeStep == ASSUME IInv, Awake PROVE IInv'
<1> USE SessionAssumption DEF Word
<1> DEFINE job == jobs["restore"]
           cred == IF job.answer = "me" THEN token ELSE cookie
           k == [Ask(job.answer, cred) EXCEPT !.tries = job.tries]
<1>1. /\ job \in AJob /\ JobOK("restore", job) /\ job.at = "sleep" /\ "restore" \in Job
      /\ job.answer \in {"me", "refresh"} /\ job.tries \in Nat /\ cred \in Cred
  BY JobsTyped DEF IInv, Job, JobOK, Awake, TypeOK, Cred
<1>2. Goes("restore", k) /\ UNCHANGED << token, cookie, active, shown >> /\ Noting
  BY DEF Awake
<1>3. /\ k \in AJob /\ k.at = job.answer /\ k.cred = cred /\ k.answer = None
      /\ k.tries = job.tries
  BY <1>1, AskLater DEF Stage
<1> HIDE DEF k
<1>4. JobOK("restore", k)
  BY <1>1, <1>3 DEF JobOK, Stages
<1>5. TypeOK' /\ JobsOK'
  BY <1>1, <1>2, <1>3, <1>4, StaysTyped DEF IInv, TypeOK, Cred
<1>6. jobs'["restore"] = k /\ \A i \in Job : i # "restore" => jobs'[i] = jobs[i]
  BY <1>1, <1>2, <1>3, <1>4, JobChanged DEF IInv
<1>7. OneUser'
  <2> SUFFICES ASSUME ~crossed' PROVE OneUser'
    BY DEF OneUser
  <2>1. ~crossed /\ ~Crossing(jobs') /\ UNCHANGED << status, user, token, cookie >>
    BY <1>2, Uncrossed DEF shown
  <2> QED BY <1>1, <1>3, <1>6, <2>1 DEF IInv, OneUser, Running, Job
<1>8. LapseNoted'
  BY <1>2, <1>3, <1>6 DEF IInv, LapseNoted, Noting, shown, Job
<1> QED BY <1>5, <1>7, <1>8 DEF IInv

\* A job other than a logout is at a refresh or after it.
LEMMA RefreshedStep == ASSUME IInv, NEW j \in Job, Refreshed(j) PROVE IInv'
<1> USE SessionAssumption DEF Word
<1> DEFINE u == jobs[j].answer
           next == IF j \in Request THEN "request" ELSE "me"
           k == IF jobs[j].again THEN AskAgain(next, u, jobs[j]) ELSE Ask("me", u)
<1>1. /\ jobs[j] \in AJob /\ JobOK(j, jobs[j]) /\ jobs[j].at = "refresh"
      /\ u \in User /\ u = jobs[j].cred /\ u \in Cred /\ next \in Stage
  BY JobsTyped DEF IInv, Refreshed, Answered, JobOK, Stage
<1>2. /\ Goes(j, k) /\ token' = u /\ cookie' = u /\ UNCHANGED << active, shown >> /\ Noting
  BY DEF Refreshed
<1>3. j # "logout" /\ (j # "restore" => jobs[j].again)
  BY <1>1 DEF JobOK, Stages
<1>4. /\ k \in AJob /\ k.at = next /\ k.cred = u /\ k.answer = None
      /\ k.tries < MAX_RESTORE_ATTEMPTS
  <2>1. "me" \in Stage /\ jobs[j].tries < MAX_RESTORE_ATTEMPTS /\ "restore" \notin Request
    BY <1>1 DEF Stage, JobOK
  <2>2. CASE jobs[j].again
    BY <1>1, <2>1, <2>2, AskAgainIs
  <2>3. CASE ~jobs[j].again
    BY <1>1, <1>3, <2>1, <2>3, AskIs
  <2> QED BY <2>2, <2>3
<1> HIDE DEF k
<1>5. JobOK(j, k)
  BY <1>3, <1>4 DEF JobOK, Stages, Job
<1>6. TypeOK' /\ JobsOK'
  BY <1>1, <1>2, <1>4, <1>5, StaysTyped DEF IInv, TypeOK, Cred
<1>7. jobs'[j] = k /\ \A i \in Job : i # j => jobs'[i] = jobs[i]
  BY <1>2, <1>4, <1>5, JobChanged DEF IInv
<1>8. OneUser'
  <2> SUFFICES ASSUME ~crossed' PROVE OneUser'
    BY DEF OneUser
  <2>1. ~crossed /\ ~Crossing(jobs') /\ ~Crossing(jobs) /\ UNCHANGED << status, user >>
    BY <1>2, Uncrossed DEF IInv, OneUser, shown
  <2>2. ~Running(jobs, "login") /\ j # "login"
    BY <1>1, <2>1 DEF Crossing, Running
  <2>3. ~Running(jobs', "login")
    BY <1>7, <2>2 DEF Running, Job
  <2>4. j \in Request => ~Running(jobs, "restore") /\ ~Running(jobs', "restore")
    BY <1>1, <1>7, <2>1 DEF IInv, OneUser, Running, Job
  <2>5. j = "restore" \/ j \in Request
    BY <1>3, <2>2 DEF Job
  <2>6. CASE j = "restore"
    BY <2>6, <1>1, <1>2, <1>4, <1>7, <2>1, <2>3 DEF IInv, OneUser, Running, Job
  <2>7. CASE j \in Request
    BY <2>7, <1>1, <1>2, <1>4, <1>7, <2>1, <2>3, <2>4 DEF IInv, OneUser, Running, Job
  <2> QED BY <2>5, <2>6, <2>7
<1>9. LapseNoted'
  BY <1>1, <1>2, <1>4, <1>7 DEF IInv, LapseNoted, Noting, shown, Job
<1> QED BY <1>6, <1>8, <1>9 DEF IInv

\* Only a request that was alone with the session ends it with a refusal.
LEMMA RefusedRequest ==
    ASSUME IInv, NEW j \in Job \ {"restore"}, jobs[j].at = "refresh", ~crossed
    PROVE  j \in Request /\ ~Running(jobs, "restore") /\ ~Running(jobs, "login")
<1>1. ~Crossing(jobs)
  BY DEF IInv, OneUser
<1>2. ~Running(jobs, "login") /\ ~Running(jobs, "logout")
  BY <1>1 DEF Crossing
<1>3. j \in Request
  BY <1>2 DEF Job, Running
<1> QED BY <1>2, <1>3 DEF IInv, OneUser, Running

LEMMA RefreshRefusedStep == ASSUME IInv, NEW j \in Job, RefreshRefused(j) PROVE IInv'
<1> USE SessionAssumption
<1>1. /\ jobs[j].at = "refresh" /\ UNCHANGED << token, cookie, active >> /\ Noting
      /\ None \in Cred
  BY DEF RefreshRefused, Answered, Cred
<1>2. CASE j = "restore"
  BY <1>1, <1>2, RestoredStep DEF RefreshRefused, Running
<1>3. CASE j # "restore"
  <2>1. /\ Goes(j, Idle) /\ Show("anonymous", None, Here) /\ Idle \in AJob /\ JobOK(j, Idle)
    BY <1>3, IdleIs, IdleOK DEF RefreshRefused, Done
  <2>2. TypeOK' /\ JobsOK' /\ status' = "anonymous" /\ user' = None
    BY <1>1, <2>1, MovesTyped, RestsHere DEF IInv, TypeOK, Cred
  <2>3. jobs'[j] = Idle /\ \A i \in Job : i # j => jobs'[i] = jobs[i]
    BY <2>1, JobChanged DEF IInv
  <2>4. OneUser'
    <3> SUFFICES ASSUME ~crossed' PROVE OneUser'
      BY DEF OneUser
    <3>1. ~crossed /\ ~Crossing(jobs')
      BY <1>1, Uncrossed
    <3>2. ~Running(jobs', "restore") /\ ~Running(jobs', "login")
      BY <1>1, <1>3, <2>3, <3>1, RefusedRequest DEF Running, Job
    <3> QED BY <2>2, <3>1, <3>2 DEF OneUser
  <2>5. LapseNoted'
    BY <1>1, <2>2, <2>3, IdleIs DEF IInv, LapseNoted, Job
  <2> QED BY <2>2, <2>4, <2>5 DEF IInv
<1> QED BY <1>2, <1>3

LEMMA Ends401Step ==
    ASSUME IInv, NEW j \in Job, Ends401(j), Running(jobs, j),
           UNCHANGED << token, cookie, active >>, Noting
    PROVE  IInv'
<1>1. CASE j = "restore"
  BY <1>1, RestoredStep DEF Ends401, Cred
<1>2. CASE j # "restore"
  BY <1>2, DoneStep DEF Ends401
<1> QED BY <1>1, <1>2

LEMMA RefreshFailedStep == ASSUME IInv, NEW j \in Job, RefreshFailed(j) PROVE IInv'
<1>1. /\ jobs[j].at = "refresh" /\ Running(jobs, j) /\ UNCHANGED << token, cookie, active >> /\ Noting
  BY DEF RefreshFailed, Answered, Running
<1>2. CASE j = "restore" /\ ~jobs[j].again
  BY <1>1, <1>2, TryLaterStep DEF RefreshFailed
<1>3. CASE ~(j = "restore" /\ ~jobs[j].again)
  BY <1>1, <1>3, Ends401Step DEF RefreshFailed
<1> QED BY <1>2, <1>3

LEMMA DeniedStep == ASSUME IInv, NEW j \in Job, Denied(j) PROVE IInv'
<1> USE SessionAssumption DEF Word
<1> DEFINE k == AskAgain("refresh", cookie, jobs[j])
<1>1. /\ jobs[j].at \in {"me", "request"} /\ Running(jobs, j) /\ jobs[j] \in AJob
      /\ UNCHANGED << token, cookie, active >> /\ Noting
  BY JobsTyped DEF IInv, Denied, Answered, Running
<1>2. CASE jobs[j].again
  BY <1>1, <1>2, Ends401Step DEF Denied
<1>3. CASE ~jobs[j].again
  <2>1. Goes(j, k) /\ UNCHANGED shown
    BY <1>3 DEF Denied
  <2>2. /\ k \in AJob /\ k.at = "refresh" /\ k.cred = cookie /\ k.answer = None /\ k.again
        /\ k.tries = jobs[j].tries
    BY <1>1, AskAgainIs DEF IInv, TypeOK, Cred, Stage
  <2> HIDE DEF k
  <2>3. JobOK(j, k)
    BY <1>1, <2>2, JobsTyped DEF IInv, JobOK, Stages
  <2>4. TypeOK' /\ JobsOK'
    BY <1>1, <2>1, <2>2, <2>3, StaysTyped DEF IInv, TypeOK, Cred
  <2>5. jobs'[j] = k /\ \A i \in Job : i # j => jobs'[i] = jobs[i]
    BY <2>1, <2>2, <2>3, JobChanged DEF IInv
  <2>6. UNCHANGED << status, user, token, cookie >>
    BY <1>1, <2>1 DEF shown
  <2>7. OneUser'
    <3> SUFFICES ASSUME ~crossed' PROVE OneUser'
      BY DEF OneUser
    <3>1. ~crossed /\ ~Crossing(jobs')
      BY <1>1, Uncrossed
    <3>2. ~Running(jobs', "login") /\ ~Running(jobs', "logout")
      BY <2>2, <2>5, <3>1 DEF Crossing
    <3>3. j # "login"
      BY <3>2, <2>2, <2>5 DEF Running
    <3>4. Running(jobs', "restore") = Running(jobs, "restore")
      BY <1>1, <2>2, <2>5 DEF Running, Job
    <3>5. \A r \in Request : Running(jobs', r) = Running(jobs, r)
      BY <1>1, <2>2, <2>5 DEF Running, Job
    <3> QED BY <2>2, <2>5, <2>6, <3>1, <3>2, <3>4, <3>5 DEF IInv, OneUser, Job
  <2>8. LapseNoted'
    BY <1>1, <2>2, <2>5, <2>6 DEF IInv, LapseNoted, Noting, Job
  <2> QED BY <2>4, <2>7, <2>8 DEF IInv
<1> QED BY <1>2, <1>3

LEMMA RequestEndsStep == ASSUME IInv, NEW r \in Request, RequestEnds(r) PROVE IInv'
BY DoneStep, SessionAssumption DEF RequestEnds, Job

LEMMA RestoreAnsweredStep == ASSUME IInv, RestoreAnswered PROVE IInv'
<1>1. jobs["restore"].at = "me" /\ Running(jobs, "restore") /\ UNCHANGED << token, cookie, active >> /\ Noting
  BY DEF RestoreAnswered, Answered, Running
<1>2. CASE \E u \in User : Answered("restore", "me", {u}) /\ Restored(u)
  <2>1. PICK u \in User : jobs["restore"].answer = u /\ Restored(u)
    BY <1>2 DEF Answered
  <2>2. ~crossed => {token, cookie} \subseteq {u, None}
    BY <1>1, <2>1, JobsTyped DEF IInv, OneUser, JobOK, Job
  <2> QED BY <1>1, <2>1, <2>2, RestoredStep DEF Cred
<1>3. CASE Answered("restore", "me", {"error"}) /\ TryLater("me")
  BY <1>1, <1>3, TryLaterStep
<1> QED BY <1>2, <1>3 DEF RestoreAnswered

LEMMA LoginAcceptedStep == ASSUME IInv, LoginAccepted PROVE IInv'
<1> USE SessionAssumption DEF Word
<1> DEFINE job == jobs["login"]
           u == job.answer
           k == [job EXCEPT !.at = "me", !.cred = u, !.answer = None]
<1>1. /\ job \in AJob /\ JobOK("login", job) /\ job.at = "login" /\ "login" \in Job
      /\ u \in User /\ u \in Cred
  BY JobsTyped DEF IInv, LoginAccepted, Answered, Job
<1>2. Goes("login", k) /\ token' = u /\ cookie' = u /\ UNCHANGED << active, shown >> /\ Noting
  BY DEF LoginAccepted
<1>3. k \in AJob /\ k.at = "me" /\ k.cred = u /\ k.answer = None /\ k.tries = job.tries
  <2> HIDE DEF job, u
  <2> QED BY <1>1, AskMe
<1> HIDE DEF k
<1>4. JobOK("login", k)
  BY <1>1, <1>3 DEF JobOK, Stages
<1>5. TypeOK' /\ JobsOK'
  BY <1>1, <1>2, <1>3, <1>4, StaysTyped DEF IInv, TypeOK, Cred
<1>6. jobs'["login"] = k /\ \A i \in Job : i # "login" => jobs'[i] = jobs[i]
  BY <1>1, <1>2, <1>3, <1>4, JobChanged DEF IInv
<1>7. OneUser'
  <2> SUFFICES ASSUME ~crossed' PROVE OneUser'
    BY DEF OneUser
  <2>1. ~crossed /\ ~Crossing(jobs') /\ UNCHANGED << status, user >>
    BY <1>2, Uncrossed DEF shown
  <2>2. ~Running(jobs', "restore")
    BY <1>3, <1>6, <2>1 DEF Crossing, Running
  <2>3. status = "anonymous"
    BY <1>1, <2>1 DEF IInv, OneUser, Running
  <2> QED BY <1>2, <1>3, <1>6, <2>1, <2>2, <2>3 DEF OneUser
<1>8. LapseNoted'
  BY <1>1, <1>2, <1>3, <1>6 DEF IInv, LapseNoted, Noting, shown, Job
<1> QED BY <1>5, <1>7, <1>8 DEF IInv

LEMMA LoggedInStep == ASSUME IInv, LoggedIn PROVE IInv' /\ status' = "authenticated"
<1> USE SessionAssumption DEF Word
<1> DEFINE job == jobs["login"]
           u == job.answer
           at == [path |-> IF job.back = None THEN Home(u) ELSE job.back, from |-> None]
<1>1. /\ job \in AJob /\ JobOK("login", job) /\ job.at = "me" /\ "login" \in Job
      /\ u \in User /\ u = job.cred /\ u \in Cred /\ u # None
  BY JobsTyped DEF IInv, LoggedIn, Answered, JobOK, Job
<1>2. job.back \in Guarded \cup {None}
  BY JobsTyped, <1>1 DEF IInv
<1>3. at \in [path : Places, from : Guarded \cup {None}]
  BY <1>2 DEF Places, Home, Guarded
<1>4. /\ Goes("login", Idle) /\ Show("authenticated", u, at) /\ Idle \in AJob /\ JobOK("login", Idle)
      /\ UNCHANGED << token, cookie, active >> /\ Noting
  BY <1>1, IdleIs, IdleOK DEF LoggedIn, Done
<1> HIDE DEF at
<1>5. TypeOK' /\ JobsOK' /\ status' = "authenticated" /\ user' = u
  BY <1>1, <1>3, <1>4, MovesTyped DEF IInv, TypeOK, Cred
<1>6. jobs'["login"] = Idle /\ \A i \in Job : i # "login" => jobs'[i] = jobs[i]
  BY <1>1, <1>4, JobChanged DEF IInv
<1>7. ASSUME ~crossed'
      PROVE  /\ ~crossed /\ ~Crossing(jobs') /\ ~Running(jobs', "restore")
             /\ ~Running(jobs', "login") /\ \A r \in Request : jobs'[r].at # "refresh"
  <2>1. ~crossed /\ ~Crossing(jobs') /\ ~Crossing(jobs)
    BY <1>4, <1>7, Uncrossed DEF IInv, OneUser
  <2> QED BY <1>1, <1>6, <2>1, IdleIs DEF Crossing, Running, Job
<1>8. OneUser'
  <2> SUFFICES ASSUME ~crossed' PROVE OneUser'
    BY DEF OneUser
  <2>1. {token, cookie} \subseteq {u, None}
    BY <1>1, <1>7 DEF IInv, OneUser, Running
  <2> QED BY <1>4, <1>5, <1>7, <2>1 DEF OneUser
<1>9. LapseNoted'
  BY <1>4, <1>5, <1>6, <1>7, IdleIs DEF IInv, LapseNoted, Noting, Job
<1> QED BY <1>5, <1>8, <1>9 DEF IInv

LEMMA LoginFailedStep == ASSUME IInv, LoginFailed PROVE IInv'
BY DoneStep DEF LoginFailed, Job

LEMMA LogoutEndsStep == ASSUME IInv, LogoutEnds PROVE IInv'
<1> USE SessionAssumption
<1>1. /\ "logout" \in Job /\ Running(jobs, "logout") /\ Done("logout") /\ token' = None
      /\ active' = active /\ Noting
  BY DEF LogoutEnds, Answered, Running, Job
<1>2. CASE jobs["logout"].answer = "done"
  <2>1. /\ Goes("logout", Idle) /\ Show("anonymous", None, Here) /\ cookie' = None
        /\ Idle \in AJob /\ JobOK("logout", Idle)
    BY <1>1, <1>2, IdleIs, IdleOK DEF LogoutEnds, Done
  <2>2. TypeOK' /\ JobsOK' /\ status' = "anonymous" /\ user' = None
    BY <1>1, <2>1, MovesTyped, RestsHere DEF IInv, TypeOK, Cred
  <2>3. jobs'["logout"] = Idle /\ \A i \in Job : i # "logout" => jobs'[i] = jobs[i]
    BY <1>1, <2>1, JobChanged DEF IInv
  <2>4. OneUser'
    <3> SUFFICES ASSUME ~crossed' PROVE OneUser'
      BY DEF OneUser
    <3>1. ~crossed /\ ~Crossing(jobs') /\ ~Crossing(jobs)
      BY <1>1, Uncrossed DEF IInv, OneUser
    <3>2. ~Running(jobs', "restore")
      BY <1>1, <2>3, <3>1 DEF Crossing, Running, Job
    <3> QED BY <1>1, <2>1, <2>2, <3>1, <3>2 DEF OneUser
  <2>5. LapseNoted'
    BY <1>1, <2>2, <2>3, IdleIs DEF IInv, LapseNoted, Job
  <2> QED BY <2>2, <2>4, <2>5 DEF IInv
<1>3. CASE jobs["logout"].answer # "done"
  BY <1>1, <1>3, DoneStep DEF LogoutEnds
<1> QED BY <1>2, <1>3

-----------------------------------------------------------------------------
(* The theorems.                                                           *)

LEMMA StutterInv == IInv /\ UNCHANGED vars => IInv'
BY DEF IInv, TypeOK, JobsOK, JobOK, Stages, OneUser, Crossing, LapseNoted, Running, vars, shown

LEMMA NextInv == IInv /\ [Next]_vars => IInv'
<1> SUFFICES ASSUME IInv, [Next]_vars PROVE IInv'
  OBVIOUS
<1>1. ASSUME NEW j \in Job, Exchange(j) PROVE IInv'
  BY <1>1, ServerStep, RefreshedStep, RefreshRefusedStep, RefreshFailedStep, DeniedStep DEF Exchange
<1>2. CASE RestoreAnswered \/ Awake
  BY <1>2, RestoreAnsweredStep, AwakeStep
<1>3. CASE login \/ LoginAccepted \/ LoggedIn \/ LoginFailed
  BY <1>3, ServerStep, LoginAcceptedStep, LoggedInStep, LoginFailedStep DEF Job
<1>4. CASE logout \/ LogoutEnds
  BY <1>4, ServerStep, LogoutEndsStep DEF Job
<1>5. ASSUME NEW u \in User, HandleSubmit(u) \/ Deactivate(u) PROVE IInv'
  BY <1>5, HandleSubmitStep, DeactivateStep
<1>6. ASSUME NEW u \in User \cup {None}, OtherTab(u) PROVE IInv'
  BY <1>6, OtherTabStep DEF Cred
<1>7. CASE Logout
  BY <1>7, LogoutStep
<1>8. ASSUME NEW r \in Request, Fetch(r) \/ RequestEnds(r) PROVE IInv'
  BY <1>8, FetchStep, RequestEndsStep
<1>9. ASSUME NEW to \in Guarded \cup {Login}, Navigate(to) PROVE IInv'
  BY <1>9, NavigateStep
<1>10. CASE UNCHANGED vars
  BY <1>10, StutterInv
<1> QED BY <1>1, <1>2, <1>3, <1>4, <1>5, <1>6, <1>7, <1>8, <1>9, <1>10 DEF Next

\* Every state of the tab satisfies the inductive invariant: no tab rests where its user is
\* not allowed, and until exchanges cross one job at a time owns the session.
THEOREM Invariance == Spec => []IInv
<1>1. Init => IInv
  BY InitInv
<1>2. IInv /\ [Next]_vars => IInv'
  BY NextInv
<1> QED BY <1>1, <1>2, PTL DEF Spec

\* However many requests are denied and refresh the token on their own, and whatever fails,
\* the token in memory is that of who the screens say is in (lib/api.ts, AuthContext.tsx),
\* as long as no session was started or ended across a refresh or in another tab.  After
\* that it need not be: nothing in the code prevents it.
THEOREM ActsAsWhoIsIn == Spec => []ActsAsShown
<1>1. IInv => ActsAsShown
  BY DEF IInv, OneUser, ActsAsShown
<1> QED BY <1>1, Invariance, PTL

Refused == \E j \in Job : jobs[j].at = "refresh" /\ jobs[j].answer = "denied"
Reason ==
    \/ jobs["logout"].answer = "done"
    \/ Refused /\ (lapsed \/ crossed)
    \/ crossed /\ RestoreOver
Reasoned == status = "authenticated" /\ status' = "anonymous" => Reason

\* A job alone with the session: who is in is not being restored.
LEMMA Alone ==
    ASSUME IInv, status = "authenticated", ~crossed
    PROVE  ~Running(jobs, "restore") /\ ~Running(jobs, "login")
BY DEF IInv, OneUser

\* A restore that ends while someone is in was overtaken by a login.
LEMMA Overtaken ==
    ASSUME IInv, status = "authenticated", Running(jobs, "restore"), Done("restore")
    PROVE  Reason
<1>1. crossed
  BY Alone
<1>2. jobs'["restore"] = Idle
  BY DEF IInv, JobsOK, Job, Done, Goes
<1> QED BY <1>1, <1>2, IdleIs DEF Reason, RestoreOver, Running

\* A restore that tries later, or gives up.
LEMMA GivenUp ==
    ASSUME IInv, status = "authenticated", status' = "anonymous", Running(jobs, "restore"),
           NEW at, TryLater(at) \/ Restored(None)
    PROVE  Reason
<1>1. Done("restore")
  BY DEF TryLater, Restored, shown
<1> QED BY <1>1, Overtaken

LEMMA ReasonedStep == IInv /\ [Next]_vars => Reasoned
<1> SUFFICES ASSUME IInv, [Next]_vars, status = "authenticated", status' = "anonymous"
             PROVE  Reason
  BY DEF Reasoned
<1> USE SessionAssumption
<1>2. ASSUME NEW j \in Job, get_current_user(j) \/ refresh(j) \/ Fail(j) PROVE FALSE
  BY <1>2 DEF get_current_user, refresh, Fail, Reply, shown
<1>3. ASSUME NEW j \in Job, Refreshed(j) PROVE FALSE
  BY <1>3 DEF Refreshed, shown
<1>4. ASSUME NEW j \in Job, RefreshRefused(j) PROVE Reason
  <2>1. jobs[j].at = "refresh" /\ jobs[j].answer = "denied" /\ Running(jobs, j)
    BY <1>4 DEF RefreshRefused, Answered, Running
  <2>2. CASE j = "restore"
    BY <1>4, <2>1, <2>2, GivenUp DEF RefreshRefused
  <2>3. CASE ~crossed /\ j # "restore"
    <3>1. j \in Request
      BY <2>1, <2>3, Alone, RefusedRequest
    <3>2. jobs[j].cred \notin active /\ jobs[j].cred \in {user, None}
      BY <2>1, <2>3, <3>1 DEF IInv, LapseNoted, OneUser
    <3>3. lapsed
      BY <2>1, <2>3, <3>1, <3>2 DEF IInv, LapseNoted
    <3> QED BY <2>1, <3>3 DEF Reason, Refused
  <2>4. CASE crossed /\ j # "restore"
    BY <2>1, <2>4 DEF Reason, Refused
  <2> QED BY <2>2, <2>3, <2>4
<1>5. ASSUME NEW j \in Job, RefreshFailed(j) \/ Denied(j) PROVE Reason
  <2>1. j = "restore"
    BY <1>5 DEF RefreshFailed, Denied, Ends401, shown
  <2>2. Running(jobs, "restore")
    BY <1>5, <2>1 DEF RefreshFailed, Denied, Answered, Running
  <2>3. TryLater("refresh") \/ Restored(None)
    BY <1>5, <2>1 DEF RefreshFailed, Denied, Ends401, shown
  <2> QED BY <2>2, <2>3, GivenUp
<1>6. CASE RestoreAnswered \/ Awake
  <2>1. RestoreAnswered
    BY <1>6 DEF Awake, shown
  <2>2. ASSUME NEW u \in User, Restored(u) PROVE FALSE
    BY <2>2 DEF Restored, Show
  <2>3. Answered("restore", "me", {"error"}) /\ TryLater("me")
    BY <2>1, <2>2 DEF RestoreAnswered
  <2>4. Running(jobs, "restore")
    BY <2>3 DEF Answered, Running
  <2> QED BY <2>3, <2>4, GivenUp
<1>7. CASE login \/ LoginAccepted \/ LoggedIn \/ LoginFailed
  BY <1>7 DEF login, Reply, LoginAccepted, LoggedIn, LoginFailed, Show, shown
<1>8. CASE logout
  BY <1>8 DEF logout, Reply, shown
<1>9. CASE LogoutEnds
  BY <1>9 DEF LogoutEnds, shown, Reason
<1>10. CASE \E u \in User : HandleSubmit(u) \/ Deactivate(u)
  BY <1>10 DEF HandleSubmit, Deactivate, Start, shown
<1>11. CASE \E u \in User \cup {None} : OtherTab(u)
  BY <1>11 DEF OtherTab, shown
<1>12. CASE Logout
  BY <1>12 DEF Logout, Start, shown
<1>13. CASE \E r \in Request : Fetch(r) \/ RequestEnds(r)
  BY <1>13 DEF Fetch, RequestEnds, Start, shown
<1>14. CASE \E to \in Guarded \cup {Login} : Navigate(to)
  BY <1>14 DEF Navigate, Show
<1>15. CASE UNCHANGED vars
  BY <1>15 DEF vars, shown
<1> QED BY <1>2, <1>3, <1>4, <1>5, <1>6, <1>7, <1>8, <1>9, <1>10, <1>11, <1>12, <1>13, <1>14, <1>15
        DEF Next, Exchange

\* Who is in is sent to the login only because they logged out, because a refresh was
\* refused, or because a restore that a login overtook is over, which calls that failed may
\* have ended (AuthContext.tsx:73-77); no other call that fails ends a session.
THEOREM SessionsEndForAReason == Spec => SessionEndsForAReason
<1>1. IInv /\ [Next]_vars => [Reasoned]_vars
  BY ReasonedStep
<1>2. Spec => [][Reasoned]_vars
  BY <1>1, Invariance, PTL DEF Spec
<1>3. [][Reasoned]_vars => SessionEndsForAReason
  BY PTL DEF SessionEndsForAReason, Reasoned, Reason, Refused
<1> QED BY <1>2, <1>3
=============================================================================
