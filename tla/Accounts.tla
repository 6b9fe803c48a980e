------------------------------- MODULE Accounts -------------------------------
(***************************************************************************)
(* AuthService, SessionsService and SessionAuthGuard: one action per       *)
(* database statement.  Nothing here is a transaction.                     *)
(***************************************************************************)
EXTENDS AuthState

Client == <<cookie, tab>>

-----------------------------------------------------------------------------
(* register *)

\* 409 when the e-mail is taken.
RegisterFind(s) ==
  /\ Is(s, "register") /\ At(s, "start")
  /\ Goto(s, IF ByEmail(calls[s].email) = {} THEN "create" ELSE "refused")
  /\ UNCHANGED <<tables, Client>>

\* A violated unique index is not caught: 500.
Taken(s, e, g) ==
  /\ ByEmail(e) # {} \/ (g # None /\ ByGoogle(g) # {})
  /\ Goto(s, "refused") /\ UNCHANGED tables

\* Which free id a new row gets tells nothing apart: the same one every time.
InsertUser(s, e, g, next) ==
  /\ FreeUsers # {}
  /\ LET u == CHOOSE u \in FreeUsers : TRUE IN
       /\ users' = [users EXCEPT ![u] = [email |-> e, google |-> g, password |-> (g = None)]]
       /\ GotoAs(s, next, u)
  /\ UNCHANGED <<profiles, verified, sessions>>

\* Without the unique indexes of the users table.
CreateUnindexed(s, e, g, next) == InsertUser(s, e, g, next)

CreateUser(s, e, g, next) ==
  \/ Taken(s, e, g)
  \/ ByEmail(e) = {} /\ (g # None => ByGoogle(g) = {}) /\ InsertUser(s, e, g, next)

RegisterCreate(s) ==
  /\ At(s, "create") /\ CreateUser(s, calls[s].email, None, "profile")
  /\ UNCHANGED Client

RegisterProfile(s) ==
  /\ At(s, "profile")
  /\ profiles' = profiles \cup {calls[s].user}
  /\ Goto(s, "issue") /\ UNCHANGED <<users, verified, sessions, Client>>

-----------------------------------------------------------------------------
(* login *)

\* Without "!user ||".
LoginUnchecked(s) ==
  Is(s, "login") /\ At(s, "start") /\ Goto(s, "issue") /\ UNCHANGED <<tables, Client>>

\* 401 for an unknown e-mail, an account without password, a wrong password.
LoginFind(s) ==
  /\ Is(s, "login") /\ At(s, "start")
  /\ \/ \E u \in ByEmail(calls[s].email) : users[u].password /\ GotoAs(s, "issue", u)
     \/ Goto(s, "refused")
  /\ UNCHANGED <<tables, Client>>

-----------------------------------------------------------------------------
(* loginWithGoogle *)

GoogleFind(s) ==
  /\ Is(s, "google") /\ At(s, "start")
  /\ \/ \E u \in ByGoogle(calls[s].google) : GotoAs(s, "verify", u)
     \/ ByGoogle(calls[s].google) = {} /\ Goto(s, "email")
  /\ UNCHANGED <<tables, Client>>

GoogleEmail(s) ==
  /\ At(s, "email")
  /\ \/ \E u \in ByEmail(calls[s].email) : GotoAs(s, "link", u)
     \/ ByEmail(calls[s].email) = {} /\ Goto(s, "createGoogle")
  /\ UNCHANGED <<tables, Client>>

\* Logging in by e-mail alone.
LinkForgotten(s) == At(s, "link") /\ Goto(s, "verify") /\ UNCHANGED <<tables, Client>>

\* linkGoogleId; the unique index refuses an id that another account has.
GoogleLink(s) ==
  LET g == calls[s].google  u == calls[s].user IN
  /\ At(s, "link")
  /\ \/ ByGoogle(g) \subseteq {u}
        /\ users' = [users EXCEPT ![u].google = g] /\ Goto(s, "verify")
     \/ ~(ByGoogle(g) \subseteq {u}) /\ Goto(s, "refused") /\ UNCHANGED users
  /\ UNCHANGED <<profiles, verified, sessions, Client>>

GoogleCreate(s) ==
  /\ At(s, "createGoogle") /\ CreateUser(s, calls[s].email, calls[s].google, "verify")
  /\ UNCHANGED Client

\* recordGoogleVerification: VERIFIED or FAILED, as Google says of the e-mail.
GoogleVerify(s) ==
  /\ At(s, "verify")
  /\ \/ verified' = verified \cup {calls[s].user}
     \/ UNCHANGED verified
  /\ Goto(s, "issue") /\ UNCHANGED <<users, profiles, sessions, Client>>

-----------------------------------------------------------------------------
(* Sessions *)

\* SessionsService.create; the response sets the cookie.  Bound: as many
\* sessions as ids; a call that finds none can still be lost.
Issue(s) ==
  /\ At(s, "issue")
  /\ FreeSessions # {}
  /\ LET k == CHOOSE k \in FreeSessions : TRUE IN
       /\ sessions' = [sessions EXCEPT ![k] = [user |-> calls[s].user, state |-> "valid"]]
       /\ calls' = [calls EXCEPT ![s].pc = "done", ![s].session = k]
  /\ UNCHANGED <<users, profiles, verified, Client>>

\* SessionAuthGuard, and for GET /auth/session the answer.
Guard(s) ==
  LET k == calls[s].cookie IN
  /\ calls[s].op \in {"session", "logout"} /\ At(s, "start")
  /\ \/ Valid(k) /\ Is(s, "session") /\ GotoAs(s, "done", sessions[k].user)
     \/ Valid(k) /\ Is(s, "logout") /\ Goto(s, "revoke")
     \/ ~Valid(k) /\ Goto(s, "refused")
  /\ UNCHANGED <<tables, Client>>

\* Clearing the cookie and keeping the row.
RevokeNothing(s) == At(s, "revoke") /\ Goto(s, "done") /\ UNCHANGED <<tables, Client>>

Revoke(s) ==
  /\ At(s, "revoke")
  /\ sessions' = [sessions EXCEPT ![calls[s].cookie].state = "ended"]
  /\ Goto(s, "done") /\ UNCHANGED <<users, profiles, verified, Client>>

\* expiresAt has passed.
Expire(k) ==
  /\ Valid(k) /\ sessions' = [sessions EXCEPT ![k].state = "ended"]
  /\ UNCHANGED <<users, profiles, verified, Client, calls>>

ServeCall(s) ==
  \/ RegisterFind(s) \/ RegisterCreate(s) \/ RegisterProfile(s)
  \/ LoginFind(s)
  \/ GoogleFind(s) \/ GoogleEmail(s) \/ GoogleLink(s) \/ GoogleCreate(s) \/ GoogleVerify(s)
  \/ Issue(s) \/ Guard(s) \/ Revoke(s)
=============================================================================
