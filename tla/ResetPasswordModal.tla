-------------------------- MODULE ResetPasswordModal ---------------------------
(* Resetting the password of a user, in a dialog that can be closed while its  *)
(* call is under way and opened for another user.                              *)
EXTENDS Page, FiniteSets

CONSTANT User

\* db: the users whose password was reset.
TypeOK ==
    /\ db \subseteq User
    /\ ui.target \in User \cup {None} /\ ui.submitting \in BOOLEAN
    /\ ui.submitting => Doing("reset") # {}

Init ==
    /\ db = {} /\ calls = << >> /\ behind = FALSE
    /\ ui = [target |-> None, submitting |-> FALSE, notice |-> None]

HandleResetPassword(u) ==
    /\ ui.target = None
    /\ ui' = Opened(u) /\ UNCHANGED << db, calls, behind >>

\* A dialog that says that it is done is left with nothing but to be closed.
Done == ui.notice # None /\ ui.notice.what = "done"

\* The button waits for the answer; the Enter key does not.
HandleSubmit == ~Done /\ Submit("reset", ui.target, None)

ResetReturned(i) ==
    /\ Returned(i, "reset")
    /\ ui' = Noticed(i, "done")
    /\ calls' = RemoveAt(calls, i)
    /\ UNCHANGED << db, behind >>

\* What is done hides the error of another submit.
ResetThrew(i) ==
    /\ Threw(i, "reset")
    /\ ui' = IF Done THEN [ui EXCEPT !.submitting = FALSE] ELSE Noticed(i, "error")
    /\ calls' = RemoveAt(calls, i)
    /\ UNCHANGED << db, behind >>

ServeReset(i) ==
    /\ Asked(i, "reset")
    /\ db' = db \cup {calls[i].arg}
    /\ calls' = Reply(i, None) /\ UNCHANGED << ui, behind >>

Next ==
    \/ CloseDialog("reset") \/ HandleSubmit \/ \E u \in User : HandleResetPassword(u)
    \/ \E i \in DOMAIN calls : ResetReturned(i) \/ ResetThrew(i) \/ ServeReset(i)

\* A dialog that says that a password was changed says so of a user whose password was.
DoneIsDone ==
    ui.target # None /\ Done => ui.target \in db \/ ui.notice.late

\* The inductive invariant: a call that was not overtaken is of the user of the dialog, and
\* one that was answered is of a user whose password was reset.
ResetCall ==
    [op : {"reset"}, arg : User, then : {None}, state : {"sent", "ok"}, data : {None}, old : BOOLEAN]
Notice == [what : {"done", "error"}, of : User, late : BOOLEAN]

CallOK(c) ==
    /\ ~c.old => ui.target # None /\ c.arg = ui.target
    /\ c.state = "ok" => c.arg \in db

IInv ==
    /\ TypeOK /\ NoticeIsOfTarget /\ DoneIsDone
    /\ ui \in [target : User \cup {None}, submitting : BOOLEAN, notice : {None} \cup Notice]
    /\ Done => ui.notice.of \in db
    /\ calls \in Seq(ResetCall) /\ \A i \in DOMAIN calls : CallOK(calls[i])
===============================================================================
