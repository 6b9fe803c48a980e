------------------------------- MODULE AuthState -------------------------------
(***************************************************************************)
(* The tables of accounts and sessions, one browser with its session       *)
(* cookie and its tabs, and the calls in flight.  Other browsers meet this *)
(* one in the tables only, as its own tabs do.                             *)
(***************************************************************************)
EXTENDS Naturals, FiniteSets

CONSTANTS
  UserIds,      \* at least as many as e-mails
  SessionIds,   \* bounds how many sessions are issued
  Emails,
  GoogleIds,
  EmailOf,      \* the e-mail of a Google account
  Tabs,
  Slots,        \* calls that can be in flight at once
  MaxAttempts,  \* attempts of fetchWithRetry
  MaxLoads,     \* bound on how often the tabs load the application
  None

ASSUME GoogleEmailsDiffer ==
  /\ EmailOf \in [GoogleIds -> Emails]
  /\ \A g, h \in GoogleIds : EmailOf[g] = EmailOf[h] => g = h
ASSUME NoneIsNoRow == None \notin UserIds \cup SessionIds \cup Emails \cup GoogleIds \cup Tabs
ASSUME Bounds == MaxAttempts \in Nat \ {0} /\ MaxLoads \in Nat

VARIABLES
  users,     \* user id -> row
  profiles,  \* users with a profile
  verified,  \* users with a VERIFIED verification
  sessions,  \* session id -> row
  cookie,    \* the browser's session cookie
  tab,       \* tab -> its AuthProvider and login form
  calls      \* slot -> the call it carries

tables == <<users, profiles, verified, sessions>>
vars == <<users, profiles, verified, sessions, cookie, tab, calls>>

-----------------------------------------------------------------------------
User == [email : Emails \cup {None}, google : GoogleIds \cup {None}, password : BOOLEAN]
NoUser == [email |-> None, google |-> None, password |-> FALSE]
FreeUsers == {u \in UserIds : users[u] = NoUser}
ByEmail(e) == {u \in UserIds : users[u].email = e}
ByGoogle(g) == {u \in UserIds : users[u].google = g}

\* A session ends by revocation or by the clock; the guard tells no difference.
NoSession == [user |-> None, state |-> "free"]
FreeSessions == {k \in SessionIds : sessions[k] = NoSession}
Session == [user : UserIds, state : {"valid", "ended"}] \cup {NoSession}
Valid(k) == k # None /\ sessions[k].state = "valid"

\* visit tells one load of the application from the next; form: the login
\* form is waiting.
Tab == [status : {"closed", "loading", "authenticated", "unauthenticated"},
        user : UserIds \cup {None}, form : BOOLEAN, visit : 0..MaxLoads]

\* pc "start": on the way to the server, or sleeping before the next attempt;
\* "done", "refused": the response is on its way back.
Op == {"none", "session", "logout", "register", "login", "google"}
Pc == {"free", "start", "create", "profile", "email", "link", "createGoogle",
       "verify", "issue", "revoke", "done", "refused"}
Call == [op : Op, pc : Pc, tab : Tabs \cup {None}, visit : 0..MaxLoads,
         form : BOOLEAN,                  \* the login form waits for it
         attempt : 0..MaxAttempts,
         cookie : SessionIds \cup {None}, \* the cookie it was sent with
         email : Emails \cup {None}, google : GoogleIds \cup {None},
         user : UserIds \cup {None},      \* the account it has found or made
         session : SessionIds \cup {None}]
NoCall == [op |-> "none", pc |-> "free", tab |-> None, visit |-> 0, form |-> FALSE,
           attempt |-> 0, cookie |-> None, email |-> None, google |-> None,
           user |-> None, session |-> None]

At(s, pc) == calls[s].pc = pc
Is(s, op) == calls[s].op = op
Goto(s, pc) == calls' = [calls EXCEPT ![s].pc = pc]
GotoAs(s, pc, u) == calls' = [calls EXCEPT ![s].pc = pc, ![s].user = u]
Caller(s) == calls[s].tab
\* The page that sent s is still there.
OnPage(s) == tab[Caller(s)].visit = calls[s].visit

Init ==
  /\ users = [u \in UserIds |-> NoUser] /\ profiles = {} /\ verified = {}
  /\ sessions = [k \in SessionIds |-> NoSession]
  /\ cookie = None
  /\ tab = [t \in Tabs |-> [status |-> "closed", user |-> None, form |-> FALSE, visit |-> 0]]
  /\ calls = [s \in Slots |-> NoCall]

\* Tables, tabs and calls have their types.
TypeOK ==
  /\ users \in [UserIds -> User] /\ profiles \subseteq UserIds /\ verified \subseteq UserIds
  /\ sessions \in [SessionIds -> Session]
  /\ cookie \in SessionIds \cup {None}
  /\ tab \in [Tabs -> Tab]
  /\ calls \in [Slots -> Call]
=============================================================================
