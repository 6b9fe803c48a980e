------------------------------- MODULE AuthPages -------------------------------
(***************************************************************************)
(* AuthProvider, the login form, the session cookie and the retries of     *)
(* lib/api.ts.                                                             *)
(***************************************************************************)
EXTENDS AuthState

FreeSlots == {s \in Slots : calls[s] = NoCall}
\* The cookie matters to guarded routes only.
NewCall(t, op, n) ==
  [NoCall EXCEPT !.op = op, !.pc = "start", !.tab = t, !.visit = n, !.attempt = 1,
                 !.cookie = IF op \in {"session", "logout"} THEN cookie ELSE None]
\* Loads are numbered across the tabs.
IsNext(n) == (\A t \in Tabs : tab[t].visit < n) /\ (\E t \in Tabs : tab[t].visit = n - 1)
Fresh(n) == [status |-> "loading", user |-> None, form |-> FALSE, visit |-> n]
Show(s, row) == tab' = IF OnPage(s) THEN [tab EXCEPT ![Caller(s)] = row] ELSE tab
Done(s) == calls' = [calls EXCEPT ![s] = NoCall]

-----------------------------------------------------------------------------
(* What the user does *)

\* Loading or reloading the application: AuthProvider asks who is logged in.
\* The calls of the page before are abandoned.
Load(t) ==
  /\ \E n \in 1..MaxLoads, s \in FreeSlots :
       /\ IsNext(n)
       /\ tab' = [tab EXCEPT ![t] = Fresh(n)]
       /\ calls' = [calls EXCEPT ![s] = NewCall(t, "session", n)]
  /\ UNCHANGED <<tables, cookie>>

\* handleSubmit; /login shows the form whatever the status.
SubmitForm(t, op, e) ==
  /\ tab[t].status # "closed" /\ ~tab[t].form
  /\ tab' = [tab EXCEPT ![t].form = TRUE]
  /\ \E s \in FreeSlots : calls' = [calls EXCEPT ![s] =
       [NewCall(t, op, tab[t].visit) EXCEPT !.form = TRUE, !.email = e]]
  /\ UNCHANGED <<tables, cookie>>

\* /auth/google leaves the application; the callback comes from Google.
VisitGoogle(t, g) ==
  /\ \E n \in 1..MaxLoads, s \in FreeSlots :
       /\ IsNext(n)
       /\ tab' = [tab EXCEPT ![t] = [Fresh(n) EXCEPT !.status = "closed"]]
       /\ calls' = [calls EXCEPT ![s] =
            [NewCall(t, "google", n) EXCEPT !.google = g, !.email = EmailOf[g]]]
  /\ UNCHANGED <<tables, cookie>>

Logout(t) ==
  /\ tab[t].status = "authenticated"
  /\ \E s \in FreeSlots : calls' = [calls EXCEPT ![s] = NewCall(t, "logout", tab[t].visit)]
  /\ UNCHANGED <<tables, cookie, tab>>

-----------------------------------------------------------------------------
(* Answers.  The response of an abandoned call is not seen. *)

\* Logged in: the cookie is set and the form refreshes the session.
FormAnswered(s) ==
  /\ calls[s].op \in {"register", "login"} /\ At(s, "done")
  /\ \/ /\ OnPage(s) /\ cookie' = calls[s].session
        /\ calls' = [calls EXCEPT ![s] =
             [NewCall(Caller(s), "session", calls[s].visit)
                EXCEPT !.form = TRUE, !.cookie = calls[s].session]]
     \/ ~OnPage(s) /\ Done(s) /\ UNCHANGED cookie
  /\ UNCHANGED <<tables, tab>>

\* The redirect loads the application.
GoogleAnswered(s) ==
  LET t == Caller(s)  n == calls[s].visit IN
  /\ Is(s, "google") /\ At(s, "done")
  /\ \/ /\ OnPage(s) /\ cookie' = calls[s].session
        /\ tab' = [tab EXCEPT ![t] = Fresh(n)]
        /\ calls' = [calls EXCEPT ![s] =
             [NewCall(t, "session", n) EXCEPT !.cookie = calls[s].session]]
     \/ ~OnPage(s) /\ Done(s) /\ UNCHANGED <<cookie, tab>>
  /\ UNCHANGED tables

\* refresh, and the form that waited for it.
Refreshed(s, status, u) ==
  Show(s, [tab[Caller(s)] EXCEPT !.status = status, !.user = u,
                                 !.form = @ /\ ~calls[s].form])

SessionAnswered(s) ==
  /\ Is(s, "session") /\ At(s, "done")
  /\ Refreshed(s, "authenticated", calls[s].user)
  /\ Done(s) /\ UNCHANGED <<tables, cookie>>

\* 401.
SessionRefused(s) ==
  /\ Is(s, "session") /\ At(s, "refused")
  /\ Refreshed(s, "unauthenticated", None)
  /\ Done(s) /\ UNCHANGED <<tables, cookie>>

\* The error is shown and the form works again.
FormRefused(s) ==
  /\ calls[s].op \in {"register", "login"} /\ At(s, "refused")
  /\ Show(s, [tab[Caller(s)] EXCEPT !.form = FALSE])
  /\ Done(s) /\ UNCHANGED <<tables, cookie>>

GoogleRefused(s) ==
  /\ Is(s, "google") /\ At(s, "refused")
  /\ Done(s) /\ UNCHANGED <<tables, cookie, tab>>

\* The finally of logout, whatever the answer; only a 200 clears the cookie.
LogoutSettles(s) ==
  /\ Is(s, "logout") /\ calls[s].pc \in {"done", "refused"}
  /\ cookie' = IF At(s, "done") /\ OnPage(s) THEN None ELSE cookie
  /\ Show(s, [tab[Caller(s)] EXCEPT !.status = "unauthenticated", !.user = None])
  /\ Done(s) /\ UNCHANGED tables

-----------------------------------------------------------------------------
(* Failures: the request or its response is lost, the process dies, or a    *)
(* gateway answers 502, 503 or 504.                                         *)

\* Nobody is left to try again, or it has been tried often enough.
Failed(s) == Is(s, "google") \/ ~OnPage(s) \/ calls[s].attempt >= MaxAttempts
Again(s) ==
  IF Failed(s) THEN NoCall
  ELSE [NewCall(Caller(s), calls[s].op, calls[s].visit)
          EXCEPT !.form = calls[s].form, !.email = calls[s].email,
                 !.attempt = calls[s].attempt + 1]

\* "Not logged out" taken too far: the spinner stays.
Blip(status) == status
\* Any failure taken for a 401.
BlipLogsOut(status) == "unauthenticated"

\* A failed refresh leaves the status, unless none is known yet.
AfterBlip(status) == IF status = "loading" THEN "unauthenticated" ELSE status

GivenUp(s) ==
  LET row == tab[Caller(s)] IN
  CASE Is(s, "session") ->
         [row EXCEPT !.status = AfterBlip(@), !.form = @ /\ ~calls[s].form]
    [] Is(s, "logout") -> [row EXCEPT !.status = "unauthenticated", !.user = None]
    [] calls[s].op \in {"register", "login"} -> [row EXCEPT !.form = FALSE]
    [] OTHER -> row

Missed(s) == IF Failed(s) THEN Show(s, GivenUp(s)) ELSE UNCHANGED tab

\* The server does not go on with the call.
Lose(s) ==
  /\ calls[s] # NoCall
  /\ calls' = [calls EXCEPT ![s] = Again(s)]
  /\ Missed(s) /\ UNCHANGED <<tables, cookie>>

\* The server does go on with it, in slot o.
LoseRunning(s, o) ==
  /\ calls[s].pc \notin {"free", "start", "done", "refused"} /\ calls[s].visit # 0
  /\ o \in FreeSlots
  /\ calls' = [calls EXCEPT ![o] = [calls[s] EXCEPT !.visit = 0, !.attempt = MaxAttempts],
                            ![s] = Again(s)]
  /\ Missed(s) /\ UNCHANGED <<tables, cookie>>

Settle(s) ==
  \/ FormAnswered(s) \/ FormRefused(s) \/ GoogleAnswered(s) \/ GoogleRefused(s)
  \/ SessionAnswered(s) \/ SessionRefused(s) \/ LogoutSettles(s)
=============================================================================
