--------------------------------- MODULE Auth ---------------------------------
(***************************************************************************)
(* Registration, login, Google login, logout and the session that each tab *)
(* believes in: browser and API together.                                  *)
(***************************************************************************)
EXTENDS Accounts, AuthPages

Serve(s) == ServeCall(s) \/ Settle(s)

Next ==
  \/ \E s \in Slots : Serve(s) \/ Lose(s) \/ \E o \in Slots : LoseRunning(s, o)
  \/ \E t \in Tabs :
       \/ Load(t) \/ Logout(t)
       \/ \E op \in {"register", "login"}, e \in Emails : SubmitForm(t, op, e)
       \/ \E g \in GoogleIds : VisitGoogle(t, g)
  \/ \E k \in SessionIds : Expire(k)

Spec == Init /\ [][Next]_vars

-----------------------------------------------------------------------------
(* Safety *)

\* One account per e-mail and per Google id, whatever registrations, Google
\* logins and retries overlap; a Google id belongs to the account of its
\* e-mail, and the badge to accounts with one (auth.service.spec.ts:141).
AccountsSound ==
  /\ \A u, v \in UserIds \ FreeUsers :
       users[u].email = users[v].email \/ (users[u].google = users[v].google /\ users[u].google # None)
         => u = v
  /\ \A u \in UserIds : users[u].google # None => EmailOf[users[u].google] = users[u].email
  /\ profiles \subseteq UserIds \ FreeUsers
  /\ \A u \in verified : users[u].google # None

\* What an answer says is so: registered means an account with a profile,
\* logged in means one's own account, logged out means a revoked session.
TrueAnswers ==
  \A s \in Slots : At(s, "done") =>
    LET c == calls[s] IN
    /\ c.op = "register" =>
         users[c.user] = [users[c.user] EXCEPT !.email = c.email, !.password = TRUE]
           /\ c.user \in profiles
    /\ c.op = "login" => users[c.user].email = c.email /\ users[c.user].password
    /\ c.op = "google" => users[c.user].google = c.google
    /\ c.op \in {"register", "login", "google"} => sessions[c.session].user = c.user
    /\ c.op = "session" => sessions[c.cookie].user = c.user
    /\ c.op = "logout" => sessions[c.cookie].state = "ended"

\* Only a 401 or a logout of its own ends what a logged-in tab believes; a
\* network or 5xx hiccup does not (auth-context.tsx:42).
BlipsKeepLogin ==
  [][\A t \in Tabs :
       tab[t].status = "authenticated" /\ tab'[t].status = "unauthenticated" =>
         \E s \in Slots :
           /\ Caller(s) = t /\ calls'[s] = NoCall
           /\ Is(s, "logout") \/ (Is(s, "session") /\ At(s, "refused"))]_vars

\* A tab shows its spinner only while a call is under way that can end it: an
\* answer that never came does not leave a page loading for ever.
SpinnerIsAwaited ==
  \A t \in Tabs : tab[t].status = "loading" =>
    \E s \in Slots : Caller(s) = t /\ OnPage(s) /\ Is(s, "session")

\* A visitor is sent to /login only when known not to be authenticated
\* (require-auth.tsx:8).
BouncedForSure ==
  [][\A t \in Tabs :
       tab[t].status = "loading" /\ tab'[t].status = "unauthenticated" => ~Valid(cookie)]_vars

-----------------------------------------------------------------------------
(* Refinement *)

Registered == {users[u].email : u \in UserIds \ FreeUsers}
WithPassword == {users[u].email : u \in {v \in UserIds : users[v].password}}
Linked == {users[u].google : u \in UserIds} \ {None}
Vouched == {users[u].email : u \in verified}
Owner == [k \in SessionIds |->
           IF sessions[k].user = None THEN None ELSE users[sessions[k].user].email]
Ended == {k \in SessionIds : sessions[k].state = "ended"}

R == INSTANCE Registry WITH
       accounts <- Registered, passwords <- WithPassword, linked <- Linked,
       badges <- Vouched, owner <- Owner, ended <- Ended

\* Calls that overlap, fail in the middle, go on unheard and are tried again
\* keep the register: no e-mail twice, no password on an account that exists,
\* no session without the means to log in, none that comes back.  This is
\* R!Spec: what leaves the tables alone leaves the register alone, and TLC need
\* not look for an event of the register in it.
KeepsRegister == R!Init /\ [][UNCHANGED tables \/ R!Next]_(R!rvars)
=============================================================================
