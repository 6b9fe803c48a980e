------------------------------ MODULE AuthProofs ------------------------------
(***************************************************************************)
(* Theorems about accounts, sessions and the tabs that believe in them,    *)
(* for any number of e-mails, Google ids, tabs, calls, loads and retries.  *)
(***************************************************************************)
EXTENDS Auth, TLAPS

-----------------------------------------------------------------------------
(* The invariant *)

Entering == {"register", "login", "google"}

\* What a stage says of the operation that has reached it.
Staged(k) ==
  /\ k.op # "none" /\ k.pc # "free" /\ k.tab \in Tabs
  /\ k.pc \in {"create", "profile"} => k.op = "register"
  /\ k.pc \in {"email", "link", "createGoogle", "verify"} => k.op = "google"
  /\ k.pc = "issue" => k.op \in Entering
  /\ k.pc = "revoke" => k.op = "logout"
  /\ k.op \in Entering => k.email \in Emails
  /\ k.op = "google" => k.google \in GoogleIds /\ k.email = EmailOf[k.google]

\* The account an entering call has found or made is the one it names.
HasAccount(k) ==
  k.pc \in {"profile", "link", "verify", "issue"} \/ (k.pc = "done" /\ k.op \in Entering)
Identified(k) ==
  HasAccount(k) =>
    /\ k.user \in UserIds
    /\ k.op = "register" => users[k.user].email = k.email /\ users[k.user].password
    /\ k.op = "register" /\ k.pc # "profile" => k.user \in profiles
    /\ k.op = "login" => users[k.user].email = k.email /\ users[k.user].password
    /\ k.pc = "link" => users[k.user].email = k.email
    /\ k.op = "google" /\ k.pc # "link" => users[k.user].google = k.google

\* The session a call has opened is its account's; a call past the guard has
\* come with a session.
Ticketed(k) ==
  /\ k.pc = "done" /\ k.op \in Entering => k.session \in SessionIds /\ sessions[k.session].user = k.user
  /\ k.pc = "revoke" \/ (k.pc = "done" /\ k.op \in {"session", "logout"})
       => k.cookie \in SessionIds /\ sessions[k.cookie] # NoSession
  /\ k.pc = "done" /\ k.op = "session" => sessions[k.cookie].user = k.user
  /\ k.pc = "done" /\ k.op = "logout" => sessions[k.cookie].state = "ended"

CallOK(k) == Staged(k) /\ Identified(k) /\ Ticketed(k)
CallsOK == \A s \in Slots : calls[s] # NoCall => CallOK(calls[s])

\* Rows are added and ended; what a row says of its owner stays.
UsersStay ==
  /\ \A u \in UserIds : users[u] # NoUser =>
       /\ users'[u].email = users[u].email /\ users'[u].password = users[u].password
       /\ users[u].google # None => users'[u].google = users[u].google
  /\ profiles \subseteq profiles'
SessionsStay ==
  \A k \in SessionIds : sessions[k] # NoSession =>
    /\ sessions'[k] # NoSession /\ sessions'[k].user = sessions[k].user
    /\ sessions[k].state = "ended" => sessions'[k].state = "ended"

\* What holds of a call survives any step that keeps users and sessions.
LEMMA CallKept ==
  ASSUME TypeOK, UsersStay, SessionsStay, NEW k \in Call, CallOK(k)
  PROVE  CallOK(k)'
<1>1. Staged(k)'
  BY DEF CallOK, Staged
<1>2. ASSUME k.user \in UserIds, users[k.user].email \in Emails \/ users[k.user].google \in GoogleIds
      PROVE  users[k.user] # NoUser
  BY <1>2, NoneIsNoRow DEF NoUser
<1>3. Identified(k)'
  <2>1. CASE ~HasAccount(k)
    BY <2>1 DEF Identified, HasAccount
  <2>2. CASE HasAccount(k)
    <3>1. Identified(k) /\ Staged(k)
      BY DEF CallOK
    <3>2. k.op \in Entering
      BY <2>2, <3>1 DEF HasAccount, Staged, Entering
    <3>3. k.user \in UserIds /\ users[k.user] # NoUser
      BY <1>2, <2>2, <3>1, <3>2 DEF Identified, Staged, Entering
    <3>4. /\ users'[k.user].email = users[k.user].email /\ users'[k.user].password = users[k.user].password
          /\ users[k.user].google # None => users'[k.user].google = users[k.user].google
          /\ k.user \in profiles => k.user \in profiles'
      BY <3>3 DEF UsersStay
    <3>5. k.op = "google" => k.google # None
      BY <3>1, NoneIsNoRow DEF Staged
    <3> QED
      BY <2>2, <3>1, <3>3, <3>4, <3>5 DEF Identified, HasAccount
  <2> QED
    BY <2>1, <2>2
<1>4. Ticketed(k)'
  <2>1. Ticketed(k) /\ Identified(k)
    BY DEF CallOK
  <2>2. \A i \in SessionIds : sessions[i].user \in UserIds => sessions[i] # NoSession
    BY NoneIsNoRow DEF NoSession
  <2>3. k.pc = "done" /\ k.op \in Entering => k.user \in UserIds
    BY <2>1 DEF Identified, HasAccount
  <2> QED
    BY <2>1, <2>2, <2>3 DEF Ticketed, SessionsStay
<1> QED
  BY <1>1, <1>3, <1>4 DEF CallOK

-----------------------------------------------------------------------------
(* Shapes *)

Ops == {"session", "logout", "register", "login", "google"}
Visits == 0..MaxLoads
Cookies == SessionIds \cup {None}

\* An unused slot.
LEMMA NoCallIs == NoCall \in Call /\ NoCall.op = "none" /\ NoCall.pc = "free"
  BY Bounds DEF NoCall, Call, Op, Pc

\* A request as it begins.
LEMMA NewCallIs ==
  ASSUME TypeOK, NEW t \in Tabs, NEW op \in Ops, NEW n \in Visits
  PROVE  LET k == NewCall(t, op, n) IN
         k \in Call /\ k.op = op /\ k.pc = "start" /\ k.tab = t /\ k.visit = n /\ k.attempt = 1
<1> DEFINE k == NewCall(t, op, n)
           c == IF op \in {"session", "logout"} THEN cookie ELSE None
<1>1. c \in Cookies /\ 1 \in 0..MaxAttempts
  BY Bounds DEF TypeOK, Cookies
<1>2. k = [NoCall EXCEPT !.op = op, !.pc = "start", !.tab = t, !.visit = n, !.attempt = 1, !.cookie = c]
  BY DEF NewCall
<1> HIDE DEF k, c
<1>3. k \in Call
  BY <1>1, <1>2, NoCallIs DEF Call, Op, Pc, Ops, Visits, Cookies
<1>4. k.op = op /\ k.pc = "start" /\ k.tab = t /\ k.visit = n /\ k.attempt = 1
  BY <1>2, NoCallIs DEF Call
<1> QED
  BY <1>3, <1>4 DEF k

\* A call that goes on, with the account it has found.
SameCall(j, k) ==
  /\ j.op = k.op /\ j.tab = k.tab /\ j.visit = k.visit /\ j.cookie = k.cookie
  /\ j.email = k.email /\ j.google = k.google

\* A call that moves on.
LEMMA GotoIs ==
  ASSUME TypeOK, NEW s \in Slots, NEW pc \in Pc, Goto(s, pc)
  PROVE  /\ calls' \in [Slots -> Call]
         /\ \A w \in Slots : w # s => calls'[w] = calls[w]
         /\ calls'[s].pc = pc /\ calls'[s].user = calls[s].user /\ calls'[s].session = calls[s].session
         /\ SameCall(calls'[s], calls[s])
  BY DEF TypeOK, Goto, Call, SameCall

\* A call that moves on with a user.
LEMMA GotoAsIs ==
  ASSUME TypeOK, NEW s \in Slots, NEW pc \in Pc, NEW u \in UserIds \cup {None}, GotoAs(s, pc, u)
  PROVE  /\ calls' \in [Slots -> Call]
         /\ \A w \in Slots : w # s => calls'[w] = calls[w]
         /\ calls'[s].pc = pc /\ calls'[s].user = u /\ calls'[s].session = calls[s].session
         /\ SameCall(calls'[s], calls[s])
<1> DEFINE k == [calls[s] EXCEPT !.pc = pc, !.user = u]
<1>1. calls[s] \in Call /\ calls \in [Slots -> Call]
  BY DEF TypeOK
<1>2. k \in Call
  BY <1>1 DEF Call
<1>3. k.pc = pc /\ k.user = u /\ k.session = calls[s].session /\ SameCall(k, calls[s])
  BY <1>1 DEF Call, SameCall
<1>4. calls' = [calls EXCEPT ![s] = k]
  BY <1>1 DEF GotoAs, Call
<1> HIDE DEF k
<1>5. calls'[s] = k /\ \A w \in Slots : w # s => calls'[w] = calls[w]
  BY <1>1, <1>4
<1> QED
  BY <1>1, <1>2, <1>3, <1>4, <1>5

\* A call whose session is issued.
LEMMA IssuedIs ==
  ASSUME TypeOK, NEW s \in Slots, NEW i \in SessionIds,
         calls' = [calls EXCEPT ![s].pc = "done", ![s].session = i]
  PROVE  /\ calls' \in [Slots -> Call]
         /\ \A w \in Slots : w # s => calls'[w] = calls[w]
         /\ calls'[s].pc = "done" /\ calls'[s].user = calls[s].user /\ calls'[s].session = i
         /\ SameCall(calls'[s], calls[s])
<1> DEFINE k == [calls[s] EXCEPT !.pc = "done", !.session = i]
<1>1. calls[s] \in Call /\ calls \in [Slots -> Call]
  BY DEF TypeOK
<1>2. k \in Call
  BY <1>1 DEF Call, Pc
<1>3. k.pc = "done" /\ k.user = calls[s].user /\ k.session = i /\ SameCall(k, calls[s])
  BY <1>1 DEF Call, SameCall
<1>4. calls' = [calls EXCEPT ![s] = k]
  BY <1>1 DEF Call
<1> HIDE DEF k
<1>5. calls'[s] = k /\ \A w \in Slots : w # s => calls'[w] = calls[w]
  BY <1>1, <1>4
<1> QED
  BY <1>1, <1>2, <1>3, <1>4, <1>5

\* A call like a new one.
Starts(k, op, t, n) == k \in Call /\ k.op = op /\ k.pc = "start" /\ k.tab = t /\ k.visit = n

\* A request of the form.
LEMMA FormCallIs ==
  ASSUME TypeOK, NEW t \in Tabs, NEW op \in Ops, NEW n \in Visits, NEW e \in Emails \cup {None}
  PROVE  LET k == [NewCall(t, op, n) EXCEPT !.form = TRUE, !.email = e] IN
         Starts(k, op, t, n) /\ k.email = e
<1> DEFINE new == NewCall(t, op, n)
<1>1. Starts(new, op, t, n)
  BY NewCallIs DEF Starts
<1> HIDE DEF new
<1>2. [new EXCEPT !.form = TRUE, !.email = e] \in Call
  BY <1>1 DEF Starts, Call
<1> QED
  BY <1>1, <1>2 DEF Starts, Call, new

\* A sign-in with Google.
LEMMA GoogleCallIs ==
  ASSUME TypeOK, NEW t \in Tabs, NEW n \in Visits, NEW g \in GoogleIds
  PROVE  LET k == [NewCall(t, "google", n) EXCEPT !.google = g, !.email = EmailOf[g]] IN
         Starts(k, "google", t, n) /\ k.email = EmailOf[g] /\ k.google = g
<1> DEFINE new == NewCall(t, "google", n)
           e == EmailOf[g]
<1>1. Starts(new, "google", t, n)
  BY NewCallIs DEF Starts, Ops
<1>2. e \in Emails
  BY GoogleEmailsDiffer
<1> HIDE DEF new, e
<1>3. [new EXCEPT !.google = g, !.email = e] \in Call
  BY <1>1, <1>2 DEF Starts, Call
<1>4. [new EXCEPT !.google = g, !.email = e].email = e /\ [new EXCEPT !.google = g, !.email = e].google = g
  BY <1>1 DEF Starts, Call
<1> QED
  BY <1>1, <1>3, <1>4 DEF Starts, Call, new, e

\* A request for the session.
LEMMA SessionCallIs ==
  ASSUME TypeOK, NEW t \in Tabs, NEW n \in Visits, NEW i \in Cookies
  PROVE  /\ Starts([NewCall(t, "session", n) EXCEPT !.form = TRUE, !.cookie = i], "session", t, n)
         /\ Starts([NewCall(t, "session", n) EXCEPT !.cookie = i], "session", t, n)
<1> DEFINE new == NewCall(t, "session", n)
<1>1. Starts(new, "session", t, n)
  BY NewCallIs DEF Starts, Ops
<1> HIDE DEF new
<1>2. [new EXCEPT !.form = TRUE, !.cookie = i] \in Call /\ [new EXCEPT !.cookie = i] \in Call
  BY <1>1 DEF Starts, Call, Cookies
<1> QED
  BY <1>1, <1>2 DEF Starts, Call, new

\* Only the slot put to changes.
LEMMA PutIs ==
  ASSUME TypeOK, NEW s \in Slots, NEW k \in Call, calls' = [calls EXCEPT ![s] = k]
  PROVE  calls' \in [Slots -> Call] /\ calls'[s] = k /\ \A w \in Slots : w # s => calls'[w] = calls[w]
  BY DEF TypeOK

\* The next attempt, or none.
LEMMA AgainIs ==
  ASSUME TypeOK, CallsOK, NEW s \in Slots, calls[s] # NoCall
  PROVE  /\ Again(s) \in Call
         /\ Failed(s) => Again(s) = NoCall
         /\ ~Failed(s) => /\ Starts(Again(s), calls[s].op, calls[s].tab, calls[s].visit)
                          /\ Again(s).email = calls[s].email /\ calls[s].op # "google"
<1>1. CASE Failed(s)
  BY <1>1, NoCallIs DEF Again
<1>2. CASE ~Failed(s)
  <2> DEFINE new == NewCall(calls[s].tab, calls[s].op, calls[s].visit)
             n == calls[s].attempt + 1
             k == [new EXCEPT !.form = calls[s].form, !.email = calls[s].email, !.attempt = n]
  <2>1. calls[s].tab \in Tabs /\ calls[s].op \in Ops
    BY DEF CallsOK, CallOK, Staged, TypeOK, Call, Op, Ops
  <2>2. calls[s].visit \in Visits /\ calls[s].form \in BOOLEAN /\ calls[s].email \in Emails \cup {None}
    BY DEF TypeOK, Call, Visits
  <2>3. n \in 0..MaxAttempts
    <3>1. calls[s].attempt \in 0..MaxAttempts /\ ~(calls[s].attempt >= MaxAttempts)
      BY <1>2 DEF Failed, TypeOK, Call
    <3> QED
      BY <3>1, Bounds
  <2>4. Starts(new, calls[s].op, calls[s].tab, calls[s].visit)
    BY <2>1, <2>2, NewCallIs DEF Starts
  <2>5. Again(s) = k /\ calls[s].op # "google"
    BY <1>2 DEF Again, Caller, Failed, Is
  <2> HIDE DEF new, n
  <2>6. k \in Call
    BY <2>2, <2>3, <2>4 DEF Starts, Call
  <2>7. k.op = new.op /\ k.pc = new.pc /\ k.tab = new.tab /\ k.visit = new.visit /\ k.email = calls[s].email
    BY <2>4 DEF Starts, Call
  <2> HIDE DEF k
  <2> QED
    BY <1>2, <2>4, <2>5, <2>6, <2>7 DEF Starts
<1> QED
  BY <1>1, <1>2

\* What a tab may come to believe.
LEMMA FreshIs ==
  ASSUME NEW n \in Visits
  PROVE  /\ Fresh(n) \in Tab /\ Fresh(n).visit = n /\ Fresh(n).status = "loading"
         /\ [Fresh(n) EXCEPT !.status = "closed"] \in Tab
         /\ [Fresh(n) EXCEPT !.status = "closed"].status = "closed"
         /\ [Fresh(n) EXCEPT !.status = "closed"].visit = n
  BY DEF Fresh, Tab, Visits
Statuses == {"loading", "authenticated", "unauthenticated", "closed"}
Nobodies == UserIds \cup {None}

\* A tab refreshed.
LEMMA RefreshedIs ==
  ASSUME TypeOK, NEW t \in Tabs, NEW status \in Statuses, NEW u \in Nobodies, NEW form \in BOOLEAN
  PROVE  LET row == [tab[t] EXCEPT !.status = status, !.user = u, !.form = form] IN
         row \in Tab /\ row.status = status /\ row.visit = tab[t].visit
  BY DEF TypeOK, Tab, Statuses, Nobodies

\* A tab logged out.
LEMMA LoggedOutIs ==
  ASSUME TypeOK, NEW t \in Tabs
  PROVE  LET row == [tab[t] EXCEPT !.status = "unauthenticated", !.user = None] IN
         row \in Tab /\ row.status = "unauthenticated" /\ row.visit = tab[t].visit
  BY DEF TypeOK, Tab

\* A tab whose form is switched.
LEMMA FormIs ==
  ASSUME TypeOK, NEW t \in Tabs, NEW form \in BOOLEAN
  PROVE  LET row == [tab[t] EXCEPT !.form = form] IN
         row \in Tab /\ row.status = tab[t].status /\ row.visit = tab[t].visit
  BY DEF TypeOK, Tab

\* A tab whose call is given up.
LEMMA GivenUpIs ==
  ASSUME TypeOK, NEW s \in Slots, calls[s].tab \in Tabs
  PROVE  /\ GivenUp(s) \in Tab /\ GivenUp(s).visit = tab[calls[s].tab].visit
         /\ GivenUp(s).status # tab[calls[s].tab].status
              => /\ GivenUp(s).status = "unauthenticated"
                 /\ calls[s].op = "logout" \/ (calls[s].op = "session" /\ tab[calls[s].tab].status = "loading")
         /\ calls[s].op = "session" => GivenUp(s).status # "loading"
<1> DEFINE row == tab[calls[s].tab]
           free == row.form /\ ~calls[s].form
<1>1. row \in Tab /\ free \in BOOLEAN
  BY DEF TypeOK, Tab
<1>2. AfterBlip(row.status) \in {"authenticated", "unauthenticated", "closed"}
  BY <1>1 DEF AfterBlip, Tab
<1>3. CASE calls[s].op = "session"
  <2>1. GivenUp(s) = [row EXCEPT !.status = AfterBlip(row.status), !.form = free]
    BY <1>1, <1>3 DEF GivenUp, Is, Caller, Tab
  <2>2. GivenUp(s) \in Tab /\ GivenUp(s).visit = row.visit /\ GivenUp(s).status = AfterBlip(row.status)
    BY <1>1, <1>2, <2>1 DEF Tab
  <2> QED
    BY <1>2, <1>3, <2>2 DEF AfterBlip
<1>4. CASE calls[s].op = "logout"
  <2>1. GivenUp(s) = [row EXCEPT !.status = "unauthenticated", !.user = None]
    BY <1>4 DEF GivenUp, Is, Caller
  <2> QED
    BY <1>1, <1>4, <2>1 DEF Tab
<1>5. CASE calls[s].op \in {"register", "login"}
  <2>1. GivenUp(s) = [row EXCEPT !.form = FALSE]
    BY <1>5 DEF GivenUp, Is, Caller
  <2> QED
    BY <1>1, <1>5, <2>1 DEF Tab
<1>6. CASE calls[s].op \notin {"session", "logout", "register", "login"}
  <2>1. GivenUp(s) = row
    BY <1>6 DEF GivenUp, Is, Caller
  <2> QED
    BY <1>1, <1>6, <2>1
<1> QED
  BY <1>3, <1>4, <1>5, <1>6

-----------------------------------------------------------------------------
(* Steps *)

\* A user inserted.
LEMMA InsertIs ==
  ASSUME NEW s, NEW e, NEW g, NEW next, InsertUser(s, e, g, next)
  PROVE  /\ \E u \in FreeUsers :
              /\ users' = [users EXCEPT ![u] = [email |-> e, google |-> g, password |-> (g = None)]]
              /\ GotoAs(s, next, u)
         /\ UNCHANGED <<profiles, verified, sessions>>
  BY DEF InsertUser

\* A row that is linked had no other Google id: both belong to its e-mail.
LEMMA LinkedIs ==
  ASSUME TypeOK, CallsOK, AccountsSound, NEW s \in Slots, GoogleLink(s)
  PROVE  LET g == calls[s].google  u == calls[s].user IN
         /\ g \in GoogleIds /\ u \in UserIds /\ users[u].email = EmailOf[g] /\ users[u] # NoUser
         /\ users[u].google \in {g, None}
<1>1. CallOK(calls[s]) /\ calls[s].pc = "link"
  BY NoCallIs DEF GoogleLink, At, CallsOK
<1>2. calls[s].op = "google" /\ calls[s].google \in GoogleIds /\ calls[s].email = EmailOf[calls[s].google]
  BY <1>1 DEF CallOK, Staged
<1>3. calls[s].user \in UserIds /\ users[calls[s].user].email = calls[s].email
  BY <1>1 DEF CallOK, Identified, HasAccount
<1>4. users[calls[s].user].google \in GoogleIds \cup {None}
  BY <1>3 DEF TypeOK, User
<1>5. users[calls[s].user].google # None => EmailOf[users[calls[s].user].google] = users[calls[s].user].email
  BY <1>3 DEF AccountsSound
<1>6. users[calls[s].user].google \in {calls[s].google, None}
  BY <1>2, <1>3, <1>4, <1>5, GoogleEmailsDiffer
<1>7. users[calls[s].user] # NoUser
  BY <1>2, <1>3, GoogleEmailsDiffer, NoneIsNoRow DEF NoUser
<1> QED
  BY <1>2, <1>3, <1>6, <1>7

\* Users and sessions stay, whatever the step.
LEMMA StayStep ==
  ASSUME TypeOK, CallsOK, AccountsSound, [Next]_vars
  PROVE  UsersStay /\ SessionsStay
<1>1. /\ users' = users /\ profiles' = profiles => UsersStay
      /\ sessions' = sessions => SessionsStay
  BY DEF UsersStay, SessionsStay
<1>2. users \in [UserIds -> User] /\ sessions \in [SessionIds -> Session]
  BY DEF TypeOK
<1>3. ASSUME NEW s \in Slots, NEW e, NEW g, NEW next, CreateUser(s, e, g, next) PROVE UsersStay /\ SessionsStay
  <2>1. CASE Taken(s, e, g)
    BY <1>1, <2>1 DEF Taken, tables
  <2>2. CASE InsertUser(s, e, g, next)
    <3>1. PICK u \in FreeUsers : users' = [users EXCEPT ![u] = [email |-> e, google |-> g, password |-> (g = None)]]
      BY <2>2, InsertIs
    <3>2. \A v \in UserIds : users[v] # NoUser => users'[v] = users[v]
      BY <1>2, <3>1 DEF FreeUsers
    <3>3. profiles' = profiles /\ sessions' = sessions
      BY <2>2, InsertIs
    <3> QED
      BY <1>1, <3>2, <3>3 DEF UsersStay
  <2> QED
    BY <1>3, <2>1, <2>2 DEF CreateUser
<1>4. ASSUME NEW s \in Slots, GoogleLink(s) PROVE UsersStay /\ SessionsStay
  <2> DEFINE u == calls[s].user
             g == calls[s].google
  <2>1. users[u].google \in {g, None} /\ u \in UserIds
    BY <1>4, LinkedIs
  <2>2. users' = users \/ users' = [users EXCEPT ![u].google = g]
    BY <1>4 DEF GoogleLink
  <2> HIDE DEF u, g
  <2>3. UsersStay
    <3>1. CASE users' = [users EXCEPT ![u].google = g]
      <4>1. /\ users'[u].email = users[u].email /\ users'[u].password = users[u].password /\ users'[u].google = g
            /\ \A v \in UserIds : v # u => users'[v] = users[v]
        BY <1>2, <2>1, <3>1 DEF User
      <4> QED
        BY <1>4, <2>1, <4>1 DEF UsersStay, GoogleLink
    <3> QED
      BY <1>1, <1>4, <2>2, <3>1 DEF GoogleLink
  <2> QED
    BY <1>1, <1>4, <2>3 DEF GoogleLink
<1>5. ASSUME NEW s \in Slots, Issue(s) PROVE UsersStay /\ SessionsStay
  <2>1. PICK k \in FreeSessions : sessions' = [sessions EXCEPT ![k] = [user |-> calls[s].user, state |-> "valid"]]
    BY <1>5 DEF Issue
  <2>2. \A i \in SessionIds : sessions[i] # NoSession => sessions'[i] = sessions[i]
    BY <1>2, <2>1 DEF FreeSessions
  <2> QED
    BY <1>1, <1>5, <2>2 DEF Issue, SessionsStay
<1>6. ASSUME NEW k \in SessionIds, sessions' = [sessions EXCEPT ![k].state = "ended"] PROVE SessionsStay
  <2>1. \A i \in SessionIds : sessions'[i].user = sessions[i].user /\ (i # k => sessions'[i] = sessions[i])
    BY <1>2, <1>6 DEF Session, NoSession
  <2>2. sessions'[k].state = "ended"
    BY <1>2, <1>6 DEF Session, NoSession
  <2>3. \A i \in SessionIds : sessions[i] # NoSession => sessions'[i] # NoSession
    <3>1. sessions'[k] # NoSession
      BY <2>2 DEF NoSession
    <3> QED
      BY <2>1, <3>1
  <2> QED
    BY <2>1, <2>2, <2>3 DEF SessionsStay
<1>7. ASSUME NEW s \in Slots, Revoke(s) PROVE UsersStay /\ SessionsStay
  <2>1. calls[s].cookie \in SessionIds
    BY <1>7, NoCallIs DEF Revoke, At, CallsOK, CallOK, Ticketed
  <2> QED
    BY <1>1, <1>6, <1>7, <2>1 DEF Revoke
<1>8. ASSUME NEW k \in SessionIds, Expire(k) PROVE UsersStay /\ SessionsStay
  BY <1>1, <1>6, <1>8 DEF Expire
<1>9. ASSUME NEW s \in Slots, RegisterProfile(s) PROVE UsersStay /\ SessionsStay
  BY <1>1, <1>9 DEF RegisterProfile, UsersStay
<1>10. ASSUME NEW s \in Slots, ServeCall(s) PROVE UsersStay /\ SessionsStay
  BY <1>1, <1>3, <1>4, <1>5, <1>7, <1>9, <1>10
     DEF ServeCall, RegisterFind, RegisterCreate, LoginFind, GoogleFind, GoogleEmail, GoogleCreate, GoogleVerify, Guard, tables
<1>11. ASSUME UNCHANGED tables PROVE UsersStay /\ SessionsStay
  BY <1>1, <1>11 DEF tables
<1>12. ASSUME NEW s \in Slots, Settle(s) PROVE UNCHANGED tables
  BY <1>12 DEF Settle, FormAnswered, FormRefused, GoogleAnswered, GoogleRefused, SessionAnswered, SessionRefused,
       LogoutSettles
<1> QED
  BY <1>8, <1>10, <1>11, <1>12
     DEF Next, Serve, Lose, LoseRunning, Load, Logout, SubmitForm, VisitGoogle, vars, tables

\* Tables, cookie, tabs and calls keep their types.
LEMMA TypeStep ==
  ASSUME TypeOK, CallsOK, [Next]_vars
  PROVE  TypeOK'
<1> DEFINE C == calls' \in [Slots -> Call]
           T == tab' \in [Tabs -> Tab]
           K == cookie' \in Cookies
           D == /\ users' \in [UserIds -> User] /\ profiles' \subseteq UserIds /\ verified' \subseteq UserIds
                /\ sessions' \in [SessionIds -> Session]
<1>1. C /\ T /\ K /\ D => TypeOK'
  BY DEF TypeOK, Cookies
<1>2. /\ (UNCHANGED tables => D) /\ (UNCHANGED Client => K /\ T)
      /\ (tab' = tab => T) /\ (cookie' = cookie => K) /\ (calls' = calls => C)
  BY DEF TypeOK, tables, Client, Cookies
<1>3. ASSUME NEW s \in Slots, NEW pc \in Pc, Goto(s, pc) PROVE C
  BY <1>3, GotoIs
<1>4. ASSUME NEW s \in Slots, NEW pc \in Pc, NEW u \in UserIds \cup {None}, GotoAs(s, pc, u) PROVE C
  BY <1>4, GotoAsIs
<1>5. \A s \in Slots : calls[s].pc # "free" => CallOK(calls[s])
  BY NoCallIs DEF CallsOK
<1>6. /\ users \in [UserIds -> User] /\ profiles \subseteq UserIds /\ verified \subseteq UserIds
      /\ sessions \in [SessionIds -> Session] /\ tab \in [Tabs -> Tab] /\ calls \in [Slots -> Call]
  BY DEF TypeOK
<1> HIDE DEF C, K, T
<1>7. ASSUME NEW s \in Slots, NEW e \in Emails, NEW g \in GoogleIds \cup {None}, NEW next \in Pc, CreateUser(s, e, g, next),
             UNCHANGED Client
      PROVE  TypeOK'
  <2>1. CASE Taken(s, e, g)
    BY <1>1, <1>2, <1>3, <1>7, <2>1 DEF Taken, Pc
  <2>2. CASE InsertUser(s, e, g, next)
    <3> DEFINE row == [email |-> e, google |-> g, password |-> (g = None)]
    <3>1. PICK u \in FreeUsers : users' = [users EXCEPT ![u] = row] /\ GotoAs(s, next, u)
      BY <2>2, InsertIs
    <3>2. row \in User /\ u \in UserIds
      BY DEF User, FreeUsers
    <3> HIDE DEF row
    <3>3. D
      BY <1>6, <2>2, <3>1, <3>2, InsertIs
    <3> QED
      BY <1>1, <1>2, <1>4, <1>7, <3>1, <3>2, <3>3
  <2> QED
    BY <1>7, <2>1, <2>2 DEF CreateUser
<1>8. ASSUME NEW s \in Slots, RegisterCreate(s) \/ GoogleCreate(s) PROVE TypeOK'
  <2>1. calls[s].email \in Emails
    BY <1>5, <1>8 DEF RegisterCreate, GoogleCreate, At, CallOK, Staged, Entering
  <2>2. calls[s].google \in GoogleIds \cup {None}
    BY <1>6 DEF Call
  <2> QED
    BY <1>7, <1>8, <2>1, <2>2 DEF RegisterCreate, GoogleCreate, Pc
<1>9. ASSUME NEW s \in Slots, RegisterProfile(s) \/ GoogleVerify(s) PROVE TypeOK'
  <2>1. calls[s].user \in UserIds
    BY <1>5, <1>9 DEF RegisterProfile, GoogleVerify, At, CallOK, Identified, HasAccount
  <2>2. D
    BY <1>6, <1>9, <2>1 DEF RegisterProfile, GoogleVerify
  <2> QED
    BY <1>1, <1>2, <1>3, <1>9, <2>2 DEF RegisterProfile, GoogleVerify, Pc
<1>10. ASSUME NEW s \in Slots, RegisterFind(s) \/ LoginFind(s) \/ GoogleFind(s) \/ GoogleEmail(s) PROVE TypeOK'
  <2>1. D /\ K /\ T
    BY <1>2, <1>10 DEF RegisterFind, LoginFind, GoogleFind, GoogleEmail
  <2>2. \/ \E pc \in Pc : Goto(s, pc)
        \/ \E pc \in Pc, u \in UserIds : GotoAs(s, pc, u)
    BY <1>10 DEF RegisterFind, LoginFind, GoogleFind, GoogleEmail, ByEmail, ByGoogle, Pc
  <2> QED
    BY <1>1, <1>3, <1>4, <2>1, <2>2
<1>11. ASSUME NEW s \in Slots, GoogleLink(s) PROVE TypeOK'
  <2> DEFINE u == calls[s].user
             g == calls[s].google
  <2>1. u \in UserIds /\ g \in GoogleIds \cup {None}
    BY <1>5, <1>6, <1>11 DEF GoogleLink, At, CallOK, Identified, HasAccount, Call
  <2>2. users' = users \/ users' = [users EXCEPT ![u].google = g]
    BY <1>11 DEF GoogleLink
  <2> HIDE DEF u, g
  <2>3. D
    BY <1>6, <1>11, <2>1, <2>2 DEF GoogleLink, User
  <2>4. C
    BY <1>3, <1>11 DEF GoogleLink, Pc
  <2> QED
    BY <1>1, <1>2, <1>11, <2>3, <2>4 DEF GoogleLink
<1>12. ASSUME NEW s \in Slots, Issue(s) PROVE TypeOK'
  <2>1. PICK k \in FreeSessions : /\ sessions' = [sessions EXCEPT ![k] = [user |-> calls[s].user, state |-> "valid"]]
                                  /\ calls' = [calls EXCEPT ![s].pc = "done", ![s].session = k]
    BY <1>12 DEF Issue
  <2>2. calls[s].user \in UserIds
    BY <1>5, <1>12 DEF Issue, At, CallOK, Identified, HasAccount
  <2>3. [user |-> calls[s].user, state |-> "valid"] \in Session /\ k \in SessionIds
    BY <2>2 DEF Session, FreeSessions
  <2>4. C
    BY <2>1, <2>3, IssuedIs DEF C
  <2>5. D
    BY <1>6, <1>12, <2>1, <2>3, ZenonT(60) DEF Issue
  <2> QED
    BY <1>1, <1>2, <1>12, <2>4, <2>5 DEF Issue
<1>13. ASSUME NEW s \in Slots, Guard(s) PROVE TypeOK'
  <2> DEFINE k == calls[s].cookie
  <2>1. k \in SessionIds \cup {None}
    BY <1>6 DEF Call
  <2>2. Valid(k) => sessions[k].user \in UserIds \cup {None}
    BY <1>6, <2>1 DEF Valid, Session, NoSession
  <2>3. \/ \E pc \in Pc : Goto(s, pc)
        \/ \E pc \in Pc, u \in UserIds \cup {None} : GotoAs(s, pc, u)
    BY <1>13, <2>2 DEF Guard, Pc
  <2> QED
    BY <1>1, <1>2, <1>3, <1>4, <1>13, <2>3 DEF Guard
<1>14. ASSUME NEW k \in SessionIds, sessions' = [sessions EXCEPT ![k].state = "ended"], sessions[k] # NoSession
       PROVE  sessions' \in [SessionIds -> Session]
  <2>1. [sessions[k] EXCEPT !.state = "ended"] \in Session
    BY <1>6, <1>14 DEF Session
  <2> QED
    BY <1>6, <1>14, <2>1
<1>15. ASSUME NEW s \in Slots, Revoke(s) PROVE TypeOK'
  <2>1. calls[s].cookie \in SessionIds /\ sessions[calls[s].cookie] # NoSession
    BY <1>5, <1>15 DEF Revoke, At, CallOK, Ticketed
  <2>2. D
    BY <1>6, <1>14, <1>15, <2>1 DEF Revoke
  <2> QED
    BY <1>1, <1>2, <1>3, <1>15, <2>2 DEF Revoke, Pc
<1>16. ASSUME NEW k \in SessionIds, Expire(k) PROVE TypeOK'
  <2>1. sessions[k] # NoSession
    BY <1>16 DEF Expire, Valid, NoSession
  <2>2. D
    BY <1>6, <1>14, <1>16, <2>1 DEF Expire
  <2> QED
    BY <1>1, <1>2, <1>16, <2>2 DEF Expire
<1>17. ASSUME NEW s \in Slots, ServeCall(s) PROVE TypeOK'
  BY <1>8, <1>9, <1>10, <1>11, <1>12, <1>13, <1>15, <1>17 DEF ServeCall

\* the browser
<1>18. ASSUME NEW s \in Slots, NEW row \in Tab, Show(s, row) PROVE T
  BY <1>6, <1>18 DEF Show, T
<1>19. ASSUME NEW s \in Slots, Done(s) PROVE C
  BY <1>19, NoCallIs, PutIs DEF Done, C
<1>20. ASSUME NEW s \in Slots, calls[s].pc # "free"
       PROVE  calls[s].tab \in Tabs /\ calls[s].visit \in Visits /\ calls[s].session \in Cookies
  BY <1>5, <1>6, <1>20 DEF CallOK, Staged, Call, Visits, Cookies
<1>21. ASSUME NEW s \in Slots, FormAnswered(s) PROVE TypeOK'
  <2>1. calls[s].tab \in Tabs /\ calls[s].visit \in Visits /\ calls[s].session \in Cookies
    BY <1>20, <1>21 DEF FormAnswered, At
  <2> DEFINE k == [NewCall(calls[s].tab, "session", calls[s].visit) EXCEPT !.form = TRUE, !.cookie = calls[s].session]
  <2>2. k \in Call
    BY <2>1, SessionCallIs DEF Starts
  <2>3. (Done(s) /\ cookie' = cookie) \/ (cookie' = calls[s].session /\ calls' = [calls EXCEPT ![s] = k])
    BY <1>21 DEF FormAnswered, Caller
  <2> HIDE DEF k
  <2>4. C /\ K
    BY <1>2, <1>19, <2>1, <2>2, <2>3, PutIs DEF C, K
  <2> QED
    BY <1>1, <1>2, <1>21, <2>4 DEF FormAnswered
<1>22. ASSUME NEW s \in Slots, GoogleAnswered(s) PROVE TypeOK'
  <2>1. calls[s].tab \in Tabs /\ calls[s].visit \in Visits /\ calls[s].session \in Cookies
    BY <1>20, <1>22 DEF GoogleAnswered, At
  <2> DEFINE k == [NewCall(calls[s].tab, "session", calls[s].visit) EXCEPT !.cookie = calls[s].session]
             row == Fresh(calls[s].visit)
  <2>2. k \in Call /\ row \in Tab
    BY <2>1, SessionCallIs, FreshIs DEF Starts
  <2>3. \/ Done(s) /\ cookie' = cookie /\ tab' = tab
        \/ cookie' = calls[s].session /\ calls' = [calls EXCEPT ![s] = k] /\ tab' = [tab EXCEPT ![calls[s].tab] = row]
    BY <1>22 DEF GoogleAnswered, Caller
  <2> HIDE DEF k, row
  <2>4. C /\ K /\ T
    BY <1>2, <1>6, <1>19, <2>1, <2>2, <2>3, PutIs DEF C, K, T
  <2> QED
    BY <1>1, <1>2, <1>22, <2>4 DEF GoogleAnswered
<1>23. ASSUME NEW s \in Slots, SessionAnswered(s) \/ SessionRefused(s) \/ FormRefused(s) PROVE TypeOK'
  <2> DEFINE t == calls[s].tab
             free == tab[t].form /\ ~calls[s].form
  <2>1. t \in Tabs /\ calls[s].user \in UserIds \cup {None} /\ free \in BOOLEAN
    BY <1>6, <1>20, <1>23 DEF SessionAnswered, SessionRefused, FormRefused, At, Call, Tab
  <2>2. \E row \in Tab : Show(s, row)
    <3>1. CASE SessionAnswered(s)
      <4>1. Show(s, [tab[t] EXCEPT !.status = "authenticated", !.user = calls[s].user, !.form = free])
        BY <1>6, <2>1, <3>1 DEF SessionAnswered, Refreshed, Caller, Tab
      <4>2. calls[s].user \in Nobodies /\ "authenticated" \in Statuses
        BY <2>1 DEF Nobodies, Statuses
      <4> HIDE DEF t, free
      <4>3. ASSUME NEW u \in Nobodies PROVE [tab[t] EXCEPT !.status = "authenticated", !.user = u, !.form = free] \in Tab
        BY <2>1, <4>2, RefreshedIs
      <4> QED
        BY <4>1, <4>2, <4>3
    <3>2. CASE SessionRefused(s)
      <4>1. Show(s, [tab[t] EXCEPT !.status = "unauthenticated", !.user = None, !.form = free])
        BY <1>6, <2>1, <3>2 DEF SessionRefused, Refreshed, Caller, Tab
      <4> HIDE DEF t, free
      <4>2. [tab[t] EXCEPT !.status = "unauthenticated", !.user = None, !.form = free] \in Tab
        BY <2>1, RefreshedIs DEF Statuses, Nobodies
      <4> QED
        BY <4>1, <4>2
    <3>3. CASE FormRefused(s)
      BY <2>1, <3>3, FormIs DEF FormRefused, Caller
    <3> QED
      BY <1>23, <3>1, <3>2, <3>3
  <2>3. C
    BY <1>19, <1>23 DEF SessionAnswered, SessionRefused, FormRefused
  <2> QED
    BY <1>1, <1>2, <1>18, <1>23, <2>2, <2>3 DEF SessionAnswered, SessionRefused, FormRefused
<1>24. ASSUME NEW s \in Slots, GoogleRefused(s) PROVE TypeOK'
  BY <1>1, <1>2, <1>19, <1>24 DEF GoogleRefused
<1>25. ASSUME NEW s \in Slots, LogoutSettles(s) PROVE TypeOK'
  <2>1. calls[s].tab \in Tabs
    BY <1>20, <1>25 DEF LogoutSettles
  <2>2. [tab[calls[s].tab] EXCEPT !.status = "unauthenticated", !.user = None] \in Tab
    BY <2>1, LoggedOutIs
  <2>3. T /\ C
    BY <1>18, <1>19, <1>25, <2>2 DEF LogoutSettles, Caller
  <2>4. K
    BY <1>25 DEF LogoutSettles, K, Cookies, TypeOK
  <2> QED
    BY <1>1, <1>2, <1>25, <2>3, <2>4 DEF LogoutSettles
<1>26. ASSUME NEW s \in Slots, calls[s] # NoCall, Missed(s) PROVE T /\ Again(s) \in Call
  <2>1. calls[s].tab \in Tabs
    BY <1>26 DEF CallsOK, CallOK, Staged
  <2>2. T
    BY <1>2, <1>18, <1>26, <2>1, GivenUpIs DEF Missed
  <2> QED
    BY <1>26, <2>2, AgainIs
<1>27. ASSUME NEW s \in Slots, Lose(s) PROVE TypeOK'
  <2>1. T /\ Again(s) \in Call
    BY <1>26, <1>27 DEF Lose
  <2>2. C
    BY <1>27, <2>1, PutIs DEF Lose, C
  <2> QED
    BY <1>1, <1>2, <1>27, <2>1, <2>2 DEF Lose
<1>28. ASSUME NEW s \in Slots, NEW o \in Slots, LoseRunning(s, o) PROVE TypeOK'
  <2> DEFINE k == [calls[s] EXCEPT !.visit = 0, !.attempt = MaxAttempts]
  <2>1. T /\ Again(s) \in Call
    BY <1>26, <1>28, NoCallIs DEF LoseRunning
  <2>2. k \in Call
    <3>1. MaxAttempts \in 0..MaxAttempts /\ 0 \in 0..MaxLoads
      BY Bounds
    <3> QED
      BY <1>6, <3>1, ZenonT(60) DEF Call
  <2>3. calls' = [calls EXCEPT ![o] = k, ![s] = Again(s)]
    BY <1>28 DEF LoseRunning
  <2> HIDE DEF k
  <2>4. C
    BY <1>6, <2>1, <2>2, <2>3 DEF C
  <2> QED
    BY <1>1, <1>2, <1>28, <2>1, <2>4 DEF LoseRunning
<1>29. ASSUME NEW t \in Tabs, Load(t) PROVE TypeOK'
  <2>1. PICK n \in 1..MaxLoads, s \in FreeSlots : /\ tab' = [tab EXCEPT ![t] = Fresh(n)]
                                                  /\ calls' = [calls EXCEPT ![s] = NewCall(t, "session", n)]
    BY <1>29 DEF Load
  <2>2. n \in Visits /\ s \in Slots
    BY DEF Visits, FreeSlots
  <2>3. NewCall(t, "session", n) \in Call /\ Fresh(n) \in Tab
    BY <2>2, NewCallIs, FreshIs DEF Ops
  <2>4. C /\ T
    BY <1>6, <2>1, <2>2, <2>3, PutIs DEF C, T
  <2> QED
    BY <1>1, <1>2, <1>29, <2>4 DEF Load
<1>30. ASSUME NEW t \in Tabs, NEW g \in GoogleIds, VisitGoogle(t, g) PROVE TypeOK'
  <2>1. PICK n \in 1..MaxLoads, s \in FreeSlots :
          /\ tab' = [tab EXCEPT ![t] = [Fresh(n) EXCEPT !.status = "closed"]]
          /\ calls' = [calls EXCEPT ![s] = [NewCall(t, "google", n) EXCEPT !.google = g, !.email = EmailOf[g]]]
    BY <1>30 DEF VisitGoogle
  <2>2. n \in Visits /\ s \in Slots
    BY DEF Visits, FreeSlots
  <2> DEFINE k == [NewCall(t, "google", n) EXCEPT !.google = g, !.email = EmailOf[g]]
             row == [Fresh(n) EXCEPT !.status = "closed"]
  <2>3. k \in Call /\ row \in Tab
    BY <2>2, GoogleCallIs, FreshIs DEF Starts
  <2> HIDE DEF k, row
  <2>4. calls' = [calls EXCEPT ![s] = k] /\ tab' = [tab EXCEPT ![t] = row]
    BY <2>1 DEF k, row
  <2>5. C /\ T
    BY <1>6, <2>2, <2>3, <2>4, PutIs DEF C, T
  <2> QED
    BY <1>1, <1>2, <1>30, <2>5 DEF VisitGoogle
<1>31. ASSUME NEW t \in Tabs, NEW op \in {"register", "login"}, NEW e \in Emails, SubmitForm(t, op, e) PROVE TypeOK'
  <2> DEFINE n == tab[t].visit
             k == [NewCall(t, op, n) EXCEPT !.form = TRUE, !.email = e]
             row == [tab[t] EXCEPT !.form = TRUE]
  <2>1. op \in Ops /\ n \in Visits
    BY <1>6 DEF Ops, Visits, Tab
  <2>2. k \in Call /\ row \in Tab
    <3> HIDE DEF n
    <3> QED
      BY <2>1, FormCallIs, FormIs DEF Starts
  <2>3. (\E s \in FreeSlots : calls' = [calls EXCEPT ![s] = k]) /\ tab' = [tab EXCEPT ![t] = row]
    BY <1>31 DEF SubmitForm
  <2> HIDE DEF k, row
  <2>4. C /\ T
    BY <1>6, <2>2, <2>3, PutIs DEF C, T, FreeSlots
  <2> QED
    BY <1>1, <1>2, <1>31, <2>4 DEF SubmitForm
<1>32. ASSUME NEW t \in Tabs, Logout(t) PROVE TypeOK'
  <2>1. "logout" \in Ops /\ tab[t].visit \in Visits
    BY <1>6 DEF Ops, Visits, Tab
  <2>2. NewCall(t, "logout", tab[t].visit) \in Call
    BY <2>1, NewCallIs
  <2>3. C
    BY <1>32, <2>2, PutIs DEF Logout, C, FreeSlots
  <2> QED
    BY <1>1, <1>2, <1>32, <2>3 DEF Logout
<1>33. CASE UNCHANGED vars
  BY <1>1, <1>2, <1>33 DEF vars, tables
<1> QED
  BY <1>16, <1>17, <1>21, <1>22, <1>23, <1>24, <1>25, <1>27, <1>28, <1>29, <1>30, <1>31, <1>32, <1>33
     DEF Next, Serve, Settle

\* Calls that stay, start, find or make an account, are let in, lost or retried.
LEMMA CallsStep ==
  ASSUME TypeOK, CallsOK, AccountsSound, [Next]_vars
  PROVE  CallsOK'
<1>1. TypeOK' /\ UsersStay /\ SessionsStay
  BY TypeStep, StayStep
<1> DEFINE Kept(s) == calls[s] # NoCall => CallOK(calls[s])
<1>2. ASSUME NEW s \in Slots, NEW k, k = calls[s], k # NoCall PROVE CallOK(k)'
  BY <1>1, <1>2, CallKept DEF CallsOK, TypeOK
<1>3. ASSUME NEW s \in Slots, calls'[s] = calls[s] PROVE Kept(s)'
  BY <1>2, <1>3 DEF NoCall
<1>4. ASSUME NEW s \in Slots, calls'[s] = NoCall PROVE Kept(s)'
  BY <1>4 DEF NoCall
<1>5. ASSUME NEW s \in Slots, Kept(s)', \A w \in Slots : w # s => calls'[w] = calls[w] PROVE CallsOK'
  BY <1>3, <1>5 DEF CallsOK
<1>6. ASSUME UNCHANGED calls PROVE CallsOK'
  BY <1>3, <1>6 DEF CallsOK
<1>7. ASSUME NEW s \in Slots, NEW op \in Ops, NEW t \in Tabs, NEW n, Starts(calls'[s], op, t, n),
             op \in Entering => calls'[s].email \in Emails,
             op = "google" => calls'[s].google \in GoogleIds /\ calls'[s].email = EmailOf[calls'[s].google]
      PROVE  Kept(s)'
  BY <1>7 DEF Starts, CallOK, Staged, Identified, HasAccount, Ticketed, Ops
<1>8. ASSUME NEW s \in Slots, NEW k \in Call, k = calls[s], k # NoCall, NEW j \in Call, j = calls'[s], SameCall(j, k),
             j.pc \in {"create", "profile", "email", "link", "createGoogle", "verify", "issue", "revoke", "done", "refused"},
             j.pc \in {"create", "profile"} => j.op = "register",
             j.pc \in {"email", "link", "createGoogle", "verify"} => j.op = "google",
             j.pc = "issue" => j.op \in Entering, j.pc = "revoke" => j.op = "logout",
             Identified(j)', Ticketed(j)',
             \A w \in Slots : w # s => calls'[w] = calls[w]
      PROVE  CallsOK'
  <2>1. Staged(k)
    BY <1>8 DEF CallsOK, CallOK
  <2>2. CallOK(j)'
    BY <1>8, <2>1 DEF CallOK, Staged, SameCall
  <2>3. Kept(s)'
    BY <1>8, <2>2
  <2> HIDE DEF Kept
  <2> QED
    BY <1>5, <1>8, <2>3
<1> HIDE DEF Kept
<1>9. \A s \in Slots : calls[s].pc # "free" =>
        /\ calls[s] \in Call /\ calls[s] # NoCall /\ Staged(calls[s]) /\ Identified(calls[s]) /\ Ticketed(calls[s])
  BY NoCallIs DEF CallsOK, CallOK, TypeOK
<1>10. /\ users \in [UserIds -> User] /\ users' \in [UserIds -> User]
       /\ sessions \in [SessionIds -> Session] /\ sessions' \in [SessionIds -> Session]
  BY <1>1 DEF TypeOK

\* stages that claim nothing of a row
<1>11. ASSUME NEW s \in Slots, calls[s].pc # "free", NEW pc \in {"create", "email", "createGoogle", "refused"}, Goto(s, pc),
              pc = "create" => calls[s].op = "register", pc \in {"email", "createGoogle"} => calls[s].op = "google"
       PROVE  CallsOK'
  <2> DEFINE k == calls[s]
  <2>1. pc \in Pc
    BY DEF Pc
  <2>2. /\ calls'[s] \in Call /\ calls'[s].pc = pc /\ SameCall(calls'[s], k)
        /\ \A w \in Slots : w # s => calls'[w] = calls[w]
    BY <1>11, <2>1, GotoIs
  <2>3. k \in Call /\ k # NoCall
    BY <1>9, <1>11
  <2> HIDE DEF k
  <2>4. ASSUME NEW j, j = calls'[s] PROVE Identified(j)' /\ Ticketed(j)'
    BY <1>11, <2>2, <2>4 DEF Identified, HasAccount, Ticketed
  <2> QED
    BY <1>8, <1>11, <2>2, <2>3, <2>4 DEF SameCall, k

\* stages that have found an account
<1>12. ASSUME NEW s \in Slots, calls[s].pc # "free", NEW pc \in {"profile", "link", "verify", "issue"},
              NEW u \in UserIds, NEW j, j = calls'[s], j \in Call, j.pc = pc, j.user = u, SameCall(j, calls[s]),
              \A w \in Slots : w # s => calls'[w] = calls[w],
              pc = "profile" => j.op = "register", pc \in {"link", "verify"} => j.op = "google",
              pc = "issue" => j.op \in Entering,
              j.op \in {"register", "login"} => users'[u].email = j.email /\ users'[u].password,
              j.op = "register" /\ pc # "profile" => u \in profiles',
              pc = "link" => users'[u].email = j.email,
              j.op = "google" /\ pc # "link" => users'[u].google = j.google
       PROVE  CallsOK'
  <2> DEFINE k == calls[s]
  <2>1. k \in Call /\ k # NoCall
    BY <1>9, <1>12
  <2>2. Identified(j)' /\ Ticketed(j)'
    BY <1>12 DEF Identified, HasAccount, Ticketed, Entering
  <2> HIDE DEF k
  <2> QED
    BY <1>8, <1>12, <2>1, <2>2 DEF k
<1>13. ASSUME NEW s \in Slots, calls[s].pc # "free", NEW pc \in {"profile", "link", "verify", "issue"},
              NEW u \in UserIds, GotoAs(s, pc, u) \/ (Goto(s, pc) /\ calls[s].user = u)
       PROVE  \E j \in Call : /\ j = calls'[s] /\ j.pc = pc /\ j.user = u /\ SameCall(j, calls[s])
                             /\ \A w \in Slots : w # s => calls'[w] = calls[w]
  <2>1. pc \in Pc
    BY DEF Pc
  <2> QED
    BY <1>13, <2>1, GotoIs, GotoAsIs

<1>14. ASSUME NEW s \in Slots, RegisterFind(s) PROVE CallsOK'
  BY <1>11, <1>14 DEF RegisterFind, At, Is
<1>15. ASSUME NEW s \in Slots, RegisterCreate(s) PROVE CallsOK'
  <2>1. calls[s].pc = "create" /\ calls[s].op = "register"
    BY <1>9, <1>15 DEF RegisterCreate, At, Staged
  <2>2. CASE Taken(s, calls[s].email, None)
    BY <1>11, <2>1, <2>2 DEF Taken
  <2>3. CASE InsertUser(s, calls[s].email, None, "profile")
    <3> DEFINE row == [email |-> calls[s].email, google |-> None, password |-> (None = None)]
    <3>1. PICK u \in FreeUsers : users' = [users EXCEPT ![u] = row] /\ GotoAs(s, "profile", u)
      BY <2>3, InsertIs
    <3>2. u \in UserIds /\ row.email = calls[s].email /\ row.password
      BY DEF FreeUsers
    <3> HIDE DEF row
    <3>3. users'[u] = row
      BY <1>10, <3>1, <3>2
    <3>4. PICK j \in Call : /\ j = calls'[s] /\ j.pc = "profile" /\ j.user = u /\ SameCall(j, calls[s])
                            /\ \A w \in Slots : w # s => calls'[w] = calls[w]
      BY <1>13, <2>1, <3>1, <3>2
    <3> QED
      BY <1>12, <2>1, <3>2, <3>3, <3>4 DEF SameCall
  <2> QED
    BY <1>15, <2>2, <2>3 DEF RegisterCreate, CreateUser
<1>16. ASSUME NEW s \in Slots, RegisterProfile(s) PROVE CallsOK'
  <2> DEFINE u == calls[s].user
  <2>1. calls[s].pc = "profile" /\ calls[s].op = "register"
    BY <1>9, <1>16 DEF RegisterProfile, At, Staged
  <2>2. u \in UserIds /\ users[u].email = calls[s].email /\ users[u].password
    BY <1>9, <2>1 DEF Identified, HasAccount
  <2>3. u \in profiles' /\ users' = users /\ Goto(s, "issue")
    BY <1>16 DEF RegisterProfile
  <2>4. PICK j \in Call : /\ j = calls'[s] /\ j.pc = "issue" /\ j.user = u /\ SameCall(j, calls[s])
                          /\ \A w \in Slots : w # s => calls'[w] = calls[w]
    BY <1>13, <2>1, <2>2, <2>3
  <2> HIDE DEF u
  <2> QED
    BY <1>12, <2>1, <2>2, <2>3, <2>4 DEF SameCall, Entering
<1>17. ASSUME NEW s \in Slots, LoginFind(s) PROVE CallsOK'
  <2>1. calls[s].pc = "start" /\ calls[s].op = "login" /\ users' = users
    BY <1>17 DEF LoginFind, At, Is, tables
  <2>2. CASE Goto(s, "refused")
    BY <1>11, <2>1, <2>2
  <2>3. CASE \E u \in ByEmail(calls[s].email) : users[u].password /\ GotoAs(s, "issue", u)
    <3>1. PICK u \in ByEmail(calls[s].email) : users[u].password /\ GotoAs(s, "issue", u)
      BY <2>3
    <3>2. u \in UserIds /\ users[u].email = calls[s].email
      BY DEF ByEmail
    <3>3. PICK j \in Call : /\ j = calls'[s] /\ j.pc = "issue" /\ j.user = u /\ SameCall(j, calls[s])
                            /\ \A w \in Slots : w # s => calls'[w] = calls[w]
      BY <1>13, <2>1, <3>1, <3>2
    <3> QED
      BY <1>12, <2>1, <3>1, <3>2, <3>3 DEF SameCall, Entering
  <2> QED
    BY <1>17, <2>2, <2>3 DEF LoginFind
<1>18. ASSUME NEW s \in Slots, GoogleFind(s) PROVE CallsOK'
  <2>1. calls[s].pc = "start" /\ calls[s].op = "google" /\ users' = users
    BY <1>18 DEF GoogleFind, At, Is, tables
  <2>2. CASE Goto(s, "email")
    BY <1>11, <2>1, <2>2
  <2>3. CASE \E u \in ByGoogle(calls[s].google) : GotoAs(s, "verify", u)
    <3>1. PICK u \in ByGoogle(calls[s].google) : GotoAs(s, "verify", u)
      BY <2>3
    <3>2. u \in UserIds /\ users[u].google = calls[s].google
      BY DEF ByGoogle
    <3>3. PICK j \in Call : /\ j = calls'[s] /\ j.pc = "verify" /\ j.user = u /\ SameCall(j, calls[s])
                            /\ \A w \in Slots : w # s => calls'[w] = calls[w]
      BY <1>13, <2>1, <3>1, <3>2
    <3> QED
      BY <1>12, <2>1, <3>2, <3>3 DEF SameCall
  <2> QED
    BY <1>18, <2>2, <2>3 DEF GoogleFind
<1>19. ASSUME NEW s \in Slots, GoogleEmail(s) PROVE CallsOK'
  <2>1. calls[s].pc = "email" /\ calls[s].op = "google" /\ users' = users
    BY <1>9, <1>19 DEF GoogleEmail, At, Staged, tables
  <2>2. CASE Goto(s, "createGoogle")
    BY <1>11, <2>1, <2>2
  <2>3. CASE \E u \in ByEmail(calls[s].email) : GotoAs(s, "link", u)
    <3>1. PICK u \in ByEmail(calls[s].email) : GotoAs(s, "link", u)
      BY <2>3
    <3>2. u \in UserIds /\ users[u].email = calls[s].email
      BY DEF ByEmail
    <3>3. PICK j \in Call : /\ j = calls'[s] /\ j.pc = "link" /\ j.user = u /\ SameCall(j, calls[s])
                            /\ \A w \in Slots : w # s => calls'[w] = calls[w]
      BY <1>13, <2>1, <3>1, <3>2
    <3> QED
      BY <1>12, <2>1, <3>2, <3>3 DEF SameCall
  <2> QED
    BY <1>19, <2>2, <2>3 DEF GoogleEmail
<1>20. ASSUME NEW s \in Slots, GoogleLink(s) PROVE CallsOK'
  <2> DEFINE u == calls[s].user
             g == calls[s].google
  <2>1. calls[s].pc = "link" /\ calls[s].op = "google"
    BY <1>9, <1>20 DEF GoogleLink, At, Staged
  <2>2. u \in UserIds /\ g \in GoogleIds
    BY <1>20, LinkedIs
  <2>3. CASE Goto(s, "refused")
    BY <1>11, <2>1, <2>3
  <2>4. CASE users' = [users EXCEPT ![u].google = g] /\ Goto(s, "verify")
    <3>1. PICK j \in Call : /\ j = calls'[s] /\ j.pc = "verify" /\ j.user = u /\ SameCall(j, calls[s])
                            /\ \A w \in Slots : w # s => calls'[w] = calls[w]
      BY <1>13, <2>1, <2>2, <2>4
    <3>2. users'[u].google = g
      <4> HIDE DEF u, g
      <4> QED
        BY <1>10, <2>2, <2>4 DEF User
    <3> HIDE DEF u
    <3> QED
      BY <1>12, <2>1, <2>2, <3>1, <3>2 DEF SameCall
  <2> QED
    BY <1>20, <2>3, <2>4 DEF GoogleLink
<1>21. ASSUME NEW s \in Slots, GoogleCreate(s) PROVE CallsOK'
  <2> DEFINE g == calls[s].google
  <2>1. calls[s].pc = "createGoogle" /\ calls[s].op = "google"
    BY <1>9, <1>21 DEF GoogleCreate, At, Staged
  <2>2. CASE Taken(s, calls[s].email, g)
    BY <1>11, <2>1, <2>2 DEF Taken
  <2>3. CASE InsertUser(s, calls[s].email, g, "verify")
    <3> DEFINE row == [email |-> calls[s].email, google |-> g, password |-> (g = None)]
    <3>1. PICK u \in FreeUsers : users' = [users EXCEPT ![u] = row] /\ GotoAs(s, "verify", u)
      BY <2>3, InsertIs
    <3>2. u \in UserIds /\ row.google = g
      BY DEF FreeUsers
    <3> HIDE DEF row
    <3>3. users'[u] = row
      BY <1>10, <3>1, <3>2
    <3>4. PICK j \in Call : /\ j = calls'[s] /\ j.pc = "verify" /\ j.user = u /\ SameCall(j, calls[s])
                            /\ \A w \in Slots : w # s => calls'[w] = calls[w]
      BY <1>13, <2>1, <3>1, <3>2
    <3> QED
      BY <1>12, <2>1, <3>2, <3>3, <3>4 DEF SameCall
  <2> QED
    BY <1>21, <2>2, <2>3 DEF GoogleCreate, CreateUser
<1>22. ASSUME NEW s \in Slots, GoogleVerify(s) PROVE CallsOK'
  <2> DEFINE u == calls[s].user
  <2>1. calls[s].pc = "verify" /\ calls[s].op = "google" /\ users' = users /\ Goto(s, "issue")
    BY <1>9, <1>22 DEF GoogleVerify, At, Staged
  <2>2. u \in UserIds /\ users[u].google = calls[s].google
    BY <1>9, <2>1 DEF Identified, HasAccount
  <2>3. PICK j \in Call : /\ j = calls'[s] /\ j.pc = "issue" /\ j.user = u /\ SameCall(j, calls[s])
                          /\ \A w \in Slots : w # s => calls'[w] = calls[w]
    BY <1>13, <2>1, <2>2
  <2> HIDE DEF u
  <2> QED
    BY <1>12, <2>1, <2>2, <2>3 DEF SameCall, Entering
<1>23. ASSUME NEW s \in Slots, Issue(s) PROVE CallsOK'
  <2>1. calls[s].pc = "issue" /\ calls[s].op \in Entering
    BY <1>9, <1>23 DEF Issue, At, Staged
  <2>2. PICK i \in FreeSessions : /\ sessions' = [sessions EXCEPT ![i] = [user |-> calls[s].user, state |-> "valid"]]
                                  /\ calls' = [calls EXCEPT ![s].pc = "done", ![s].session = i]
    BY <1>23 DEF Issue
  <2>3. i \in SessionIds
    BY DEF FreeSessions
  <2>4. /\ calls'[s] \in Call /\ calls'[s].pc = "done" /\ calls'[s].user = calls[s].user /\ calls'[s].session = i
        /\ SameCall(calls'[s], calls[s]) /\ \A w \in Slots : w # s => calls'[w] = calls[w]
    BY <2>2, <2>3, IssuedIs
  <2>5. sessions'[i].user = calls[s].user
    BY <1>10, <2>2, <2>3
  <2>6. Identified(calls[s]) /\ users' = users /\ profiles' = profiles
    BY <1>9, <1>23, <2>1 DEF Issue
  <2>7. ASSUME NEW j, j = calls'[s] PROVE Identified(j)' /\ Ticketed(j)'
    BY <2>1, <2>3, <2>4, <2>5, <2>6, <2>7 DEF Identified, HasAccount, Ticketed, SameCall, Entering
  <2>8. ASSUME NEW k \in Call, k = calls[s], k # NoCall, NEW j \in Call, j = calls'[s] PROVE CallsOK'
    BY <1>8, <2>4, <2>7, <2>8
  <2> QED
    BY <1>9, <2>1, <2>4, <2>8
<1>24. ASSUME NEW s \in Slots, Guard(s) PROVE CallsOK'
  <2> DEFINE i == calls[s].cookie
  <2>1. /\ calls[s].pc = "start" /\ calls[s].op \in {"session", "logout"}
        /\ users' = users /\ profiles' = profiles /\ sessions' = sessions
    BY <1>24 DEF Guard, At, tables
  <2>2. calls[s] \in Call /\ calls[s] # NoCall
    BY <1>9, <2>1
  <2>3. CASE Goto(s, "refused")
    BY <1>11, <2>1, <2>3
  <2>4. ASSUME Valid(i) PROVE i \in SessionIds /\ sessions[i] # NoSession /\ sessions[i].user \in UserIds
    <3>1. i \in SessionIds
      BY <2>2, <2>4 DEF Call, Valid
    <3>2. sessions[i].state = "valid" /\ sessions[i] \in Session
      BY <1>10, <2>4, <3>1 DEF Valid
    <3> QED
      BY <3>1, <3>2 DEF Session, NoSession
  <2>5. CASE Valid(i) /\ calls[s].op = "session" /\ GotoAs(s, "done", sessions[i].user)
    <3>1. "done" \in Pc /\ sessions[i].user \in UserIds \cup {None}
      BY <2>4, <2>5 DEF Pc
    <3>2. /\ calls'[s] \in Call /\ calls'[s].pc = "done" /\ calls'[s].user = sessions[i].user
          /\ SameCall(calls'[s], calls[s]) /\ \A w \in Slots : w # s => calls'[w] = calls[w]
      BY <2>5, <3>1, GotoAsIs
    <3>3. ASSUME NEW j, j = calls'[s] PROVE Identified(j)' /\ Ticketed(j)'
      BY <2>1, <2>4, <2>5, <3>2, <3>3 DEF Identified, HasAccount, Ticketed, SameCall, Entering
    <3>4. ASSUME NEW k \in Call, k = calls[s], k # NoCall, NEW j \in Call, j = calls'[s] PROVE CallsOK'
      BY <1>8, <3>2, <3>3, <3>4
    <3> QED
      BY <2>2, <3>2, <3>4
  <2>6. CASE Valid(i) /\ calls[s].op = "logout" /\ Goto(s, "revoke")
    <3>1. "revoke" \in Pc
      BY DEF Pc
    <3>2. /\ calls'[s] \in Call /\ calls'[s].pc = "revoke"
          /\ SameCall(calls'[s], calls[s]) /\ \A w \in Slots : w # s => calls'[w] = calls[w]
      BY <2>6, <3>1, GotoIs
    <3>3. ASSUME NEW j, j = calls'[s] PROVE Identified(j)' /\ Ticketed(j)'
      BY <2>1, <2>4, <2>6, <3>2, <3>3 DEF Identified, HasAccount, Ticketed, SameCall
    <3>4. ASSUME NEW k \in Call, k = calls[s], k # NoCall, NEW j \in Call, j = calls'[s] PROVE CallsOK'
      BY <1>8, <2>6, <3>2, <3>3, <3>4 DEF SameCall
    <3> QED
      BY <2>2, <3>2, <3>4
  <2> QED
    BY <1>24, <2>3, <2>5, <2>6 DEF Guard, Is
<1>25. ASSUME NEW s \in Slots, Revoke(s) PROVE CallsOK'
  <2> DEFINE i == calls[s].cookie
  <2>1. /\ calls[s].pc = "revoke" /\ calls[s].op = "logout" /\ Goto(s, "done")
        /\ sessions' = [sessions EXCEPT ![i].state = "ended"]
    BY <1>9, <1>25 DEF Revoke, At, Staged
  <2>2. calls[s] \in Call /\ calls[s] # NoCall /\ i \in SessionIds /\ sessions[i] # NoSession
    BY <1>9, <2>1 DEF Ticketed
  <2>3. "done" \in Pc
    BY DEF Pc
  <2>4. /\ calls'[s] \in Call /\ calls'[s].pc = "done"
        /\ SameCall(calls'[s], calls[s]) /\ \A w \in Slots : w # s => calls'[w] = calls[w]
    BY <2>1, <2>3, GotoIs
  <2>5. sessions'[i] # NoSession /\ sessions'[i].state = "ended"
    <3> HIDE DEF i
    <3>1. sessions'[i].state = "ended"
      BY <1>10, <2>1, <2>2 DEF Session, NoSession
    <3> QED
      BY <3>1 DEF NoSession
  <2>6. ASSUME NEW j, j = calls'[s] PROVE Identified(j)' /\ Ticketed(j)'
    BY <2>1, <2>2, <2>4, <2>5, <2>6 DEF Identified, HasAccount, Ticketed, SameCall, Entering
  <2>7. ASSUME NEW k \in Call, k = calls[s], k # NoCall, NEW j \in Call, j = calls'[s] PROVE CallsOK'
    BY <1>8, <2>4, <2>6, <2>7
  <2> QED
    BY <2>2, <2>4, <2>7
<1>26. ASSUME NEW s \in Slots, ServeCall(s) PROVE CallsOK'
  BY <1>14, <1>15, <1>16, <1>17, <1>18, <1>19, <1>20, <1>21, <1>22, <1>23, <1>24, <1>25, <1>26 DEF ServeCall

\* the browser's steps
<1>27. ASSUME NEW s \in Slots, Done(s) PROVE CallsOK'
  <2>1. calls'[s] = NoCall /\ \A w \in Slots : w # s => calls'[w] = calls[w]
    BY <1>27, NoCallIs, PutIs DEF Done
  <2> QED
    BY <1>4, <1>5, <2>1
<1>28. ASSUME NEW s \in Slots, NEW op \in Ops, NEW t \in Tabs, NEW n, NEW k, Starts(k, op, t, n),
              calls' = [calls EXCEPT ![s] = k],
              op \in Entering => k.email \in Emails,
              op = "google" => k.google \in GoogleIds /\ k.email = EmailOf[k.google]
       PROVE  CallsOK'
  <2>1. calls'[s] = k /\ \A w \in Slots : w # s => calls'[w] = calls[w]
    BY <1>28, PutIs DEF Starts
  <2>2. Kept(s)'
    BY <1>7, <1>28, <2>1
  <2> QED
    BY <1>5, <2>1, <2>2
<1>29. \A s \in Slots : calls[s].pc # "free" =>
         calls[s].tab \in Tabs /\ calls[s].visit \in Visits /\ calls[s].session \in Cookies
  BY <1>9 DEF Staged, Call, Visits, Cookies
<1>30. ASSUME NEW s \in Slots, FormAnswered(s) \/ GoogleAnswered(s) PROVE CallsOK'
  <2> DEFINE t == calls[s].tab
             n == calls[s].visit
             i == calls[s].session
  <2>1. t \in Tabs /\ n \in Visits /\ i \in Cookies
    BY <1>29, <1>30 DEF FormAnswered, GoogleAnswered, At
  <2>2. \/ Done(s)
        \/ calls' = [calls EXCEPT ![s] = [NewCall(t, "session", n) EXCEPT !.form = TRUE, !.cookie = i]]
        \/ calls' = [calls EXCEPT ![s] = [NewCall(t, "session", n) EXCEPT !.cookie = i]]
    BY <1>30 DEF FormAnswered, GoogleAnswered, Caller
  <2> HIDE DEF t, n, i
  <2>3. /\ Starts([NewCall(t, "session", n) EXCEPT !.form = TRUE, !.cookie = i], "session", t, n)
        /\ Starts([NewCall(t, "session", n) EXCEPT !.cookie = i], "session", t, n)
    BY <2>1, SessionCallIs
  <2>4. "session" \in Ops /\ "session" \notin Entering
    BY DEF Ops, Entering
  <2> QED
    BY <1>27, <1>28, <2>1, <2>2, <2>3, <2>4
<1>31. ASSUME NEW s \in Slots, Settle(s) PROVE CallsOK'
  BY <1>27, <1>30, <1>31 DEF Settle, FormRefused, GoogleRefused, SessionAnswered, SessionRefused, LogoutSettles
<1>32. ASSUME NEW s \in Slots, calls[s] # NoCall, calls'[s] = Again(s) PROVE Kept(s)'
  <2>1. CASE Failed(s)
    BY <1>4, <1>32, <2>1, AgainIs
  <2>2. CASE ~Failed(s)
    <3>1. /\ Starts(calls'[s], calls[s].op, calls[s].tab, calls[s].visit)
          /\ calls'[s].email = calls[s].email /\ calls[s].op # "google"
      BY <1>32, <2>2, AgainIs
    <3>2. Staged(calls[s]) /\ calls[s] \in Call
      BY <1>32 DEF CallsOK, CallOK, TypeOK
    <3>3. calls[s].op \in Ops /\ calls[s].tab \in Tabs /\ (calls[s].op \in Entering => calls[s].email \in Emails)
      BY <3>2 DEF Staged, Ops, Call, Op
    <3> QED
      BY <1>7, <3>1, <3>3
  <2> QED
    BY <2>1, <2>2
<1>33. ASSUME NEW s \in Slots, Lose(s) PROVE CallsOK'
  <2>1. calls[s] # NoCall /\ Again(s) \in Call /\ calls' = [calls EXCEPT ![s] = Again(s)]
    BY <1>33, AgainIs DEF Lose
  <2>2. calls'[s] = Again(s) /\ \A w \in Slots : w # s => calls'[w] = calls[w]
    BY <2>1, PutIs
  <2> QED
    BY <1>5, <1>32, <2>1, <2>2
<1>34. ASSUME NEW s \in Slots, NEW o \in Slots, LoseRunning(s, o) PROVE CallsOK'
  <2>1. calls[s] \in Call /\ calls[s] # NoCall /\ Again(s) \in Call /\ o # s
    BY <1>9, <1>34, AgainIs DEF LoseRunning, FreeSlots
  <2>2. PICK k \in Call : k = calls[s]
    BY <2>1
  <2> DEFINE j == [k EXCEPT !.visit = 0, !.attempt = MaxAttempts]
  <2>3. calls' = [calls EXCEPT ![o] = j, ![s] = Again(s)]
    BY <1>34, <2>2 DEF LoseRunning
  <2>4. /\ j.op = k.op /\ j.pc = k.pc /\ j.tab = k.tab /\ j.email = k.email /\ j.google = k.google
        /\ j.user = k.user /\ j.session = k.session /\ j.cookie = k.cookie
    BY DEF Call
  <2>5. CallOK(k)'
    BY <1>2, <2>1, <2>2
  <2>6. CallOK(j)'
    <3> HIDE DEF j
    <3>1. ASSUME NEW jj, jj = j PROVE CallOK(jj)'
      BY <2>4, <2>5, <3>1 DEF CallOK, Staged, Identified, HasAccount, Ticketed
    <3> QED
      BY <3>1 DEF j
  <2> HIDE DEF j
  <2>7. /\ calls'[o] = j /\ calls'[s] = Again(s)
        /\ \A w \in Slots : w # s /\ w # o => calls'[w] = calls[w]
    BY <2>1, <2>3 DEF TypeOK
  <2>8. Kept(s)'
    BY <1>32, <2>1, <2>7
  <2>9. Kept(o)'
    BY <2>6, <2>7 DEF Kept, j
  <2> QED
    BY <1>3, <2>7, <2>8, <2>9 DEF CallsOK, Kept
<1>35. ASSUME NEW t \in Tabs, Load(t) \/ Logout(t) PROVE CallsOK'
  <2>1. \E s \in Slots, op \in {"session", "logout"}, n \in Visits : calls' = [calls EXCEPT ![s] = NewCall(t, op, n)]
    BY <1>35 DEF Load, Logout, FreeSlots, Visits, TypeOK, Tab
  <2>2. PICK s \in Slots, op \in {"session", "logout"}, n \in Visits : calls' = [calls EXCEPT ![s] = NewCall(t, op, n)]
    BY <2>1
  <2>3. op \in Ops /\ op \notin Entering
    BY DEF Ops, Entering
  <2>4. Starts(NewCall(t, op, n), op, t, n)
    BY <2>3, NewCallIs DEF Starts
  <2> QED
    BY <1>28, <2>2, <2>3, <2>4 DEF Entering
<1>36. ASSUME NEW t \in Tabs, NEW op \in {"register", "login"}, NEW e \in Emails, SubmitForm(t, op, e) PROVE CallsOK'
  <2> DEFINE n == tab[t].visit
             k == [NewCall(t, op, n) EXCEPT !.form = TRUE, !.email = e]
  <2>1. op \in Ops /\ op # "google" /\ n \in Visits
    BY DEF Ops, Visits, TypeOK, Tab
  <2>2. Starts(k, op, t, n) /\ k.email = e
    <3> HIDE DEF n
    <3> QED
      BY <2>1, FormCallIs, ZenonT(60)
  <2>3. PICK s \in FreeSlots : calls' = [calls EXCEPT ![s] = k]
    BY <1>36 DEF SubmitForm
  <2> HIDE DEF k, n
  <2> QED
    BY <1>28, <2>1, <2>2, <2>3 DEF FreeSlots
<1>37. ASSUME NEW t \in Tabs, NEW g \in GoogleIds, VisitGoogle(t, g) PROVE CallsOK'
  <2>1. PICK n \in 1..MaxLoads, s \in FreeSlots :
          calls' = [calls EXCEPT ![s] = [NewCall(t, "google", n) EXCEPT !.google = g, !.email = EmailOf[g]]]
    BY <1>37 DEF VisitGoogle
  <2> DEFINE k == [NewCall(t, "google", n) EXCEPT !.google = g, !.email = EmailOf[g]]
  <2>2. n \in Visits /\ "google" \in Ops /\ EmailOf[g] \in Emails
    BY GoogleEmailsDiffer DEF Visits, Ops
  <2>3. Starts(k, "google", t, n) /\ k.email = EmailOf[g] /\ k.google = g
    <3>1. Starts(k, "google", t, n)
      BY <2>2, GoogleCallIs
    <3>2. ASSUME NEW new \in Call, NEW e PROVE [new EXCEPT !.google = g, !.email = e].email = e
                                             /\ [new EXCEPT !.google = g, !.email = e].google = g
      BY DEF Call
    <3>3. NewCall(t, "google", n) \in Call
      BY <2>2, NewCallIs
    <3>4. k.email = EmailOf[g] /\ k.google = g
      BY <3>2, <3>3
    <3> QED
      BY <3>1, <3>4
  <2> HIDE DEF k
  <2>4. calls' = [calls EXCEPT ![s] = k]
    BY <2>1 DEF k
  <2> QED
    BY <1>28, <2>2, <2>3, <2>4 DEF FreeSlots
<1>38. CASE (\E k \in SessionIds : Expire(k)) \/ UNCHANGED vars
  BY <1>6, <1>38 DEF Expire, vars
<1> QED
  BY <1>26, <1>31, <1>33, <1>34, <1>35, <1>36, <1>37, <1>38 DEF Next, Serve

\* Accounts stay one per e-mail and per Google id.
LEMMA SoundStep ==
  ASSUME TypeOK, CallsOK, AccountsSound, [Next]_vars
  PROVE  AccountsSound'
<1>1. UsersStay /\ users \in [UserIds -> User]
  BY StayStep DEF TypeOK
<1>2. ASSUME UNCHANGED <<users, profiles, verified>> PROVE AccountsSound'
  BY <1>2 DEF AccountsSound, FreeUsers
<1>3. ASSUME NEW s \in Slots, calls[s].pc # "free" PROVE CallOK(calls[s])
  BY <1>3, NoCallIs DEF CallsOK
<1>4. ASSUME NEW s \in Slots, NEW e \in Emails, NEW g \in GoogleIds \cup {None}, NEW next,
             CreateUser(s, e, g, next), g # None => e = EmailOf[g]
      PROVE  AccountsSound'
  <2>1. CASE Taken(s, e, g)
    BY <1>2, <2>1 DEF Taken, tables
  <2>2. CASE ByEmail(e) = {} /\ (g # None => ByGoogle(g) = {}) /\ InsertUser(s, e, g, next)
    <3> DEFINE row == [email |-> e, google |-> g, password |-> (g = None)]
    <3>1. PICK n \in FreeUsers : users' = [users EXCEPT ![n] = row]
      BY <2>2, InsertIs
    <3>2. profiles' = profiles /\ verified' = verified
      BY <2>2, InsertIs
    <3>3. row.email = e /\ row.google = g /\ row # NoUser
      BY NoneIsNoRow DEF NoUser
    <3> HIDE DEF row
    <3>4. n \in UserIds /\ users[n] = NoUser /\ users'[n] = row /\ \A u \in UserIds : u # n => users'[u] = users[u]
      BY <1>1, <3>1 DEF FreeUsers
    <3>5. \A u \in UserIds : users[u].email # e /\ (g # None => users[u].google # g)
      BY <2>2 DEF ByEmail, ByGoogle
    <3>6. n \notin profiles /\ n \notin verified
      <4>1. n \in FreeUsers /\ users[n].google = None
        BY <3>4 DEF FreeUsers, NoUser
      <4> QED
        BY <4>1 DEF AccountsSound
    <3>7. \A u, v \in UserIds \ FreeUsers' :
            users'[u].email = users'[v].email \/ (users'[u].google = users'[v].google /\ users'[u].google # None) => u = v
      <4> SUFFICES ASSUME NEW u \in UserIds, NEW v \in UserIds, users'[u] # NoUser, users'[v] # NoUser, u # v,
                          users'[u].email = users'[v].email
                            \/ (users'[u].google = users'[v].google /\ users'[u].google # None)
                   PROVE  FALSE
        BY DEF FreeUsers
      <4>1. CASE u # n /\ v # n
        BY <3>4, <4>1 DEF AccountsSound, FreeUsers
      <4>2. CASE u = n \/ v = n
        BY <3>3, <3>4, <3>5, <4>2
      <4> QED
        BY <4>1, <4>2
    <3>8. \A u \in UserIds : users'[u].google # None => EmailOf[users'[u].google] = users'[u].email
      BY <1>4, <3>3, <3>4 DEF AccountsSound
    <3>9. profiles' \subseteq UserIds \ FreeUsers'
      BY <3>2, <3>4, <3>6 DEF AccountsSound, FreeUsers
    <3>10. \A u \in verified' : users'[u].google # None
      BY <3>2, <3>4, <3>6 DEF AccountsSound, TypeOK
    <3> QED
      BY <3>7, <3>8, <3>9, <3>10 DEF AccountsSound
  <2> QED
    BY <1>4, <2>1, <2>2 DEF CreateUser
<1>5. ASSUME NEW s \in Slots, RegisterCreate(s) \/ GoogleCreate(s) PROVE AccountsSound'
  <2>1. Staged(calls[s]) /\ calls[s].pc \in {"create", "createGoogle"}
    BY <1>3, <1>5 DEF RegisterCreate, GoogleCreate, At, CallOK
  <2>2. /\ calls[s].email \in Emails
        /\ calls[s].pc = "createGoogle" => calls[s].google \in GoogleIds /\ calls[s].email = EmailOf[calls[s].google]
    BY <2>1 DEF Staged, Entering
  <2>3. CASE RegisterCreate(s)
    BY <1>4, <2>2, <2>3 DEF RegisterCreate
  <2>4. CASE GoogleCreate(s)
    BY <1>4, <2>2, <2>4 DEF GoogleCreate, At
  <2> QED
    BY <1>5, <2>3, <2>4
<1>6. ASSUME NEW s \in Slots, RegisterProfile(s) PROVE AccountsSound'
  <2>1. Staged(calls[s]) /\ Identified(calls[s]) /\ calls[s].pc = "profile"
    BY <1>3, <1>6 DEF RegisterProfile, At, CallOK
  <2>2. calls[s].user \in UserIds /\ users[calls[s].user].email \in Emails
    BY <2>1 DEF Staged, Identified, HasAccount, Entering
  <2>3. users[calls[s].user] # NoUser
    BY <2>2, NoneIsNoRow DEF NoUser
  <2> QED
    BY <1>6, <2>2, <2>3 DEF RegisterProfile, AccountsSound, FreeUsers
<1>7. ASSUME NEW s \in Slots, GoogleVerify(s) PROVE AccountsSound'
  <2>1. Staged(calls[s]) /\ Identified(calls[s]) /\ calls[s].pc = "verify"
    BY <1>3, <1>7 DEF GoogleVerify, At, CallOK
  <2>2. calls[s].user \in UserIds /\ users[calls[s].user].google \in GoogleIds
    BY <2>1 DEF Staged, Identified, HasAccount
  <2> QED
    BY <1>7, <2>2, NoneIsNoRow DEF GoogleVerify, AccountsSound, FreeUsers
<1>8. ASSUME NEW s \in Slots, GoogleLink(s) PROVE AccountsSound'
  <2> DEFINE g == calls[s].google
             n == calls[s].user
  <2>1. g \in GoogleIds /\ n \in UserIds /\ users[n].email = EmailOf[g] /\ users[n] # NoUser
    BY <1>8, LinkedIs
  <2>2. profiles' = profiles /\ verified' = verified
    BY <1>8 DEF GoogleLink
  <2>3. CASE users' = users
    BY <1>2, <2>2, <2>3
  <2>4. CASE ByGoogle(g) \subseteq {n} /\ users' = [users EXCEPT ![n].google = g]
    <3> HIDE DEF g, n
    <3>1. /\ users'[n].google = g /\ users'[n].email = users[n].email
          /\ \A u \in UserIds : u # n => users'[u] = users[u]
      BY <1>1, <2>1, <2>4 DEF User
    <3>2. g # None /\ users'[n] # NoUser
      BY <2>1, <3>1, NoneIsNoRow DEF NoUser
    <3>3. FreeUsers' = FreeUsers
      BY <2>1, <3>1, <3>2 DEF FreeUsers
    <3>4. \A u \in UserIds : users'[u].email = users[u].email
      BY <3>1
    <3>5. \A u \in UserIds : u # n => users[u].google # g
      BY <2>4 DEF ByGoogle
    <3>6. \A u, v \in UserIds \ FreeUsers' :
            users'[u].email = users'[v].email \/ (users'[u].google = users'[v].google /\ users'[u].google # None) => u = v
      <4> SUFFICES ASSUME NEW u \in UserIds \ FreeUsers, NEW v \in UserIds \ FreeUsers, u # v,
                          users'[u].google = users'[v].google, users'[u].google # None
                   PROVE  FALSE
        BY <3>3, <3>4 DEF AccountsSound
      <4>1. CASE u # n /\ v # n
        BY <3>1, <4>1 DEF AccountsSound
      <4>2. CASE u = n \/ v = n
        BY <3>1, <3>5, <4>2
      <4> QED
        BY <4>1, <4>2
    <3>7. \A u \in UserIds : users'[u].google # None => EmailOf[users'[u].google] = users'[u].email
      BY <2>1, <3>1 DEF AccountsSound
    <3>8. \A u \in verified' : users'[u].google # None
      BY <2>2, <3>1, <3>2 DEF AccountsSound, TypeOK
    <3> QED
      BY <2>2, <3>3, <3>6, <3>7, <3>8 DEF AccountsSound
  <2> QED
    BY <1>8, <2>3, <2>4 DEF GoogleLink
<1>9. ASSUME NEW s \in Slots, ServeCall(s) PROVE AccountsSound'
  BY <1>2, <1>5, <1>6, <1>7, <1>8, <1>9
     DEF ServeCall, RegisterFind, LoginFind, GoogleFind, GoogleEmail, Issue, Guard, Revoke, tables
<1>10. ASSUME UNCHANGED tables PROVE AccountsSound'
  BY <1>2, <1>10 DEF tables
<1>11. ASSUME NEW s \in Slots, Settle(s) PROVE UNCHANGED tables
  BY <1>11 DEF Settle, FormAnswered, FormRefused, GoogleAnswered, GoogleRefused, SessionAnswered, SessionRefused,
       LogoutSettles
<1>12. ASSUME NEW k \in SessionIds, Expire(k) PROVE AccountsSound'
  BY <1>2, <1>12 DEF Expire
<1> QED
  BY <1>9, <1>10, <1>11, <1>12
     DEF Next, Serve, Lose, LoseRunning, Load, Logout, SubmitForm, VisitGoogle, vars, tables

\* What the invariant says of a call is more than what its answer claims.
LEMMA AnswersFollow ==
  ASSUME TypeOK, CallsOK
  PROVE  TrueAnswers
<1> SUFFICES ASSUME NEW s \in Slots, calls[s].pc = "done", NEW c, c = calls[s]
             PROVE /\ c.op = "register" =>
                        users[c.user] = [users[c.user] EXCEPT !.email = c.email, !.password = TRUE] /\ c.user \in profiles
                   /\ c.op = "login" => users[c.user].email = c.email /\ users[c.user].password
                   /\ c.op = "google" => users[c.user].google = c.google
                   /\ c.op \in {"register", "login", "google"} => sessions[c.session].user = c.user
                   /\ c.op = "session" => sessions[c.cookie].user = c.user
                   /\ c.op = "logout" => sessions[c.cookie].state = "ended"
  BY DEF TrueAnswers, At
<1>1. CallOK(c)
  BY NoCallIs DEF CallsOK
<1>2. c.op = "register" => users[c.user] = [users[c.user] EXCEPT !.email = c.email, !.password = TRUE]
  <2> SUFFICES ASSUME c.op = "register" PROVE users[c.user] = [users[c.user] EXCEPT !.email = c.email, !.password = TRUE]
    OBVIOUS
  <2>1. c.user \in UserIds /\ users[c.user].email = c.email /\ users[c.user].password
    BY <1>1 DEF CallOK, Identified, HasAccount, Entering
  <2>2. users[c.user] \in User
    BY <2>1 DEF TypeOK
  <2>3. users[c.user].password = TRUE
    BY <2>1, <2>2 DEF User
  <2> QED
    BY <2>1, <2>2, <2>3 DEF User
<1>3. c.op \in Entering => c.user \in UserIds
  BY <1>1 DEF CallOK, Identified, HasAccount
<1> QED
  BY <1>1, <1>2, <1>3 DEF CallOK, Identified, Ticketed, HasAccount, Entering

\* A call that goes on is the same tab's, visit's and operation's.
Held(s) == calls'[s].op = calls[s].op /\ calls'[s].tab = calls[s].tab /\ calls'[s].visit = calls[s].visit

\* The server keeps every call and touches no tab.
LEMMA ServedIsHeld ==
  ASSUME TypeOK, NEW s \in Slots, ServeCall(s)
  PROVE  (\A w \in Slots : Held(w)) /\ tab' = tab
<1>1. calls \in [Slots -> Call]
  BY DEF TypeOK
<1>2. ASSUME NEW pc, Goto(s, pc) PROVE \A w \in Slots : Held(w)
  BY <1>1, <1>2 DEF Goto, Held, Call
<1>3. ASSUME NEW pc, NEW u, GotoAs(s, pc, u) PROVE \A w \in Slots : Held(w)
  <2> DEFINE k == [calls[s] EXCEPT !.pc = pc, !.user = u]
  <2>1. calls' = [calls EXCEPT ![s] = k]
    BY <1>1, <1>3 DEF GotoAs, Call
  <2>2. k.op = calls[s].op /\ k.tab = calls[s].tab /\ k.visit = calls[s].visit
    BY <1>1 DEF Call
  <2> HIDE DEF k
  <2> QED
    BY <1>1, <2>1, <2>2 DEF Held
<1>4. ASSUME NEW i \in SessionIds, calls' = [calls EXCEPT ![s].pc = "done", ![s].session = i] PROVE \A w \in Slots : Held(w)
  BY <1>4, IssuedIs DEF SameCall, Held
<1>5. ASSUME NEW e, NEW g, NEW next, CreateUser(s, e, g, next) PROVE \A w \in Slots : Held(w)
  <2>1. CASE Taken(s, e, g)
    BY <1>2, <2>1 DEF Taken
  <2>2. CASE InsertUser(s, e, g, next)
    BY <1>3, <2>2, InsertIs
  <2> QED
    BY <1>5, <2>1, <2>2 DEF CreateUser
<1>6. CASE RegisterCreate(s) \/ GoogleCreate(s)
  BY <1>5, <1>6 DEF RegisterCreate, GoogleCreate, Client
<1>7. CASE Issue(s)
  <2>1. \E i \in SessionIds : calls' = [calls EXCEPT ![s].pc = "done", ![s].session = i]
    BY <1>7 DEF Issue, FreeSessions
  <2> QED
    BY <1>4, <1>7, <2>1 DEF Issue, Client
<1>8. CASE RegisterFind(s) \/ RegisterProfile(s) \/ Revoke(s) \/ GoogleLink(s) \/ GoogleVerify(s)
  BY <1>2, <1>8 DEF RegisterFind, RegisterProfile, Revoke, GoogleLink, GoogleVerify, Client
<1>9. CASE LoginFind(s) \/ GoogleFind(s) \/ GoogleEmail(s)
  BY <1>2, <1>3, <1>9 DEF LoginFind, GoogleFind, GoogleEmail, Client
<1>10. CASE Guard(s)
  BY <1>2, <1>3, <1>10 DEF Guard, Client
<1> QED
  BY <1>6, <1>7, <1>8, <1>9, <1>10 DEF ServeCall

\* The call that answers a spinner goes on until the spinner goes.
LEMMA SpinnerStep ==
  ASSUME TypeOK, CallsOK, SpinnerIsAwaited, [Next]_vars
  PROVE  SpinnerIsAwaited'
<1> DEFINE Known(t) == tab[t].status # "loading"
           Awaits(s) == calls[s].op = "session" /\ calls[s].tab \in Tabs /\ tab[calls[s].tab].visit = calls[s].visit
<1>1. /\ tab \in [Tabs -> Tab] /\ calls \in [Slots -> Call]
      /\ \A s \in Slots : calls[s].pc # "free" \/ calls[s] # NoCall => Staged(calls[s]) /\ calls[s].tab \in Tabs
  BY NoCallIs DEF TypeOK, CallsOK, CallOK, Staged
<1>2. SpinnerIsAwaited <=> \A t \in Tabs : Known(t) \/ \E s \in Slots : calls[s].tab = t /\ Awaits(s)
  BY DEF SpinnerIsAwaited, Caller, OnPage, Is
<1>3. SpinnerIsAwaited' <=> \A t \in Tabs : Known(t)' \/ \E s \in Slots : calls'[s].tab = t /\ Awaits(s)'
  BY DEF SpinnerIsAwaited, Caller, OnPage, Is
<1>4. ASSUME \A s \in Slots : calls[s].op = "session" => Held(s),
             \A t \in Tabs : tab'[t].status = "loading" => tab[t].status = "loading" /\ tab'[t].visit = tab[t].visit
      PROVE  SpinnerIsAwaited'
  BY <1>2, <1>3, <1>4 DEF Held
\* a session call that ends
<1>5. ASSUME NEW s \in Slots, \A w \in Slots : w # s => calls'[w] = calls[w],
             calls[s].tab \in Tabs,
             tab'[calls[s].tab].status = "loading" => ~OnPage(s) /\ tab' = tab,
             \A t \in Tabs : t # calls[s].tab => tab'[t] = tab[t]
      PROVE  SpinnerIsAwaited'
  <2> SUFFICES ASSUME NEW t \in Tabs, tab'[t].status = "loading" PROVE \E w \in Slots : calls'[w].tab = t /\ Awaits(w)'
    BY <1>3
  <2>1. tab'[t] = tab[t] /\ (t = calls[s].tab => ~OnPage(s))
    BY <1>5
  <2>2. PICK w \in Slots : calls[w].tab = t /\ Awaits(w)
    BY <1>2, <2>1
  <2>3. w # s
    BY <2>1, <2>2 DEF OnPage, Caller
  <2> QED
    BY <1>5, <2>1, <2>2, <2>3
\* a call that loads a page
<1>6. ASSUME NEW s \in Slots, NEW t \in Tabs, NEW n, calls[s].op # "session",
             \A w \in Slots : w # s => calls'[w] = calls[w], \A u \in Tabs : u # t => tab'[u] = tab[u],
             tab'[t].visit = n, Starts(calls'[s], "session", t, n)
      PROVE  SpinnerIsAwaited'
  BY <1>2, <1>3, <1>6 DEF Starts
<1>7. \A s \in Slots : (calls[s] = NoCall => calls[s].op = "none") /\ (s \in FreeSlots => calls[s] = NoCall)
  BY NoCallIs DEF FreeSlots
<1>8. ASSUME NEW s \in Slots, Done(s) PROVE \A w \in Slots : w # s => calls'[w] = calls[w]
  BY <1>8, NoCallIs, PutIs DEF Done
<1>9. ASSUME NEW s \in Slots, calls[s].tab \in Tabs, NEW row \in Tab, Show(s, row)
      PROVE  /\ \A t \in Tabs : t # calls[s].tab => tab'[t] = tab[t]
             /\ OnPage(s) => tab'[calls[s].tab] = row
             /\ ~OnPage(s) => tab' = tab
  BY <1>1, <1>9 DEF Show, Caller
<1> HIDE DEF Known, Awaits

<1>10. ASSUME NEW s \in Slots, ServeCall(s) PROVE SpinnerIsAwaited'
  BY <1>4, <1>10, ServedIsHeld
<1>11. ASSUME NEW s \in Slots, SessionAnswered(s) \/ SessionRefused(s) PROVE SpinnerIsAwaited'
  <2> DEFINE t == calls[s].tab
             free == tab[t].form /\ ~calls[s].form
  <2>1. t \in Tabs /\ calls[s].user \in Nobodies /\ free \in BOOLEAN
    BY <1>1, <1>11 DEF SessionAnswered, SessionRefused, At, Call, Tab, Nobodies
  <2>2. PICK status \in {"authenticated", "unauthenticated"}, u \in Nobodies :
          Show(s, [tab[t] EXCEPT !.status = status, !.user = u, !.form = free])
    BY <1>1, <1>11, <2>1 DEF SessionAnswered, SessionRefused, Refreshed, Caller, Tab, Nobodies
  <2> DEFINE row == [tab[t] EXCEPT !.status = status, !.user = u, !.form = free]
  <2>3. row \in Tab /\ row.status = status
    <3>1. status \in Statuses
      BY DEF Statuses
    <3> HIDE DEF t, free
    <3>2. row \in Tab
      BY <2>1, <3>1, RefreshedIs
    <3>3. ASSUME NEW r \in Tab, NEW v, NEW f PROVE [r EXCEPT !.status = status, !.user = v, !.form = f].status = status
      BY DEF Tab
    <3>4. row.status = status
      BY <1>1, <2>1, <3>3
    <3> QED
      BY <3>2, <3>4
  <2>4. \A w \in Slots : w # s => calls'[w] = calls[w]
    BY <1>8, <1>11 DEF SessionAnswered, SessionRefused
  <2> HIDE DEF row, free
  <2>5. Show(s, row)
    BY <2>2 DEF row, free
  <2> QED
    BY <1>5, <1>9, <2>1, <2>3, <2>4, <2>5
<1>12. ASSUME NEW s \in Slots, calls[s].op # "session", Done(s), tab' = tab PROVE SpinnerIsAwaited'
  BY <1>4, <1>8, <1>12 DEF Held
<1>13. ASSUME NEW s \in Slots, NEW row \in Tab, calls[s].op # "session", calls[s].tab \in Tabs,
              \A w \in Slots : w # s => calls'[w] = calls[w], Show(s, row),
              row.status = "loading" => tab[calls[s].tab].status = "loading",
              row.visit = tab[calls[s].tab].visit
       PROVE  SpinnerIsAwaited'
  <2>1. \A t \in Tabs : tab'[t].status = "loading" => tab[t].status = "loading" /\ tab'[t].visit = tab[t].visit
    BY <1>9, <1>13
  <2> QED
    BY <1>4, <1>13, <2>1 DEF Held
<1>14. ASSUME NEW s \in Slots, FormRefused(s) PROVE SpinnerIsAwaited'
  <2>1. calls[s].tab \in Tabs /\ calls[s].op # "session" /\ Done(s)
    BY <1>1, <1>14 DEF FormRefused, At
  <2> DEFINE row == [tab[calls[s].tab] EXCEPT !.form = FALSE]
  <2>2. row \in Tab /\ row.status = tab[calls[s].tab].status /\ row.visit = tab[calls[s].tab].visit
    BY <2>1, FormIs
  <2>3. Show(s, row)
    BY <1>14 DEF FormRefused, Caller
  <2> HIDE DEF row
  <2> QED
    BY <1>8, <1>13, <2>1, <2>2, <2>3
<1>15. ASSUME NEW s \in Slots, LogoutSettles(s) PROVE SpinnerIsAwaited'
  <2>1. calls[s].tab \in Tabs /\ calls[s].op # "session" /\ Done(s)
    BY <1>1, <1>15 DEF LogoutSettles, Is
  <2> DEFINE row == [tab[calls[s].tab] EXCEPT !.status = "unauthenticated", !.user = None]
  <2>2. row \in Tab /\ row.status = "unauthenticated" /\ row.visit = tab[calls[s].tab].visit
    BY <2>1, LoggedOutIs
  <2>3. Show(s, row)
    BY <1>15 DEF LogoutSettles, Caller
  <2> HIDE DEF row
  <2> QED
    BY <1>8, <1>13, <2>1, <2>2, <2>3
<1>16. ASSUME NEW s \in Slots, FormAnswered(s) PROVE SpinnerIsAwaited'
  <2>1. calls[s].op # "session" /\ tab' = tab
    BY <1>16 DEF FormAnswered
  <2>2. \A w \in Slots : w # s => calls'[w] = calls[w]
    BY <1>1, <1>8, <1>16 DEF FormAnswered
  <2> QED
    BY <1>4, <2>1, <2>2 DEF Held
<1>17. ASSUME NEW s \in Slots, GoogleAnswered(s) PROVE SpinnerIsAwaited'
  <2> DEFINE t == calls[s].tab
             n == calls[s].visit
             i == calls[s].session
             k == [NewCall(t, "session", n) EXCEPT !.cookie = i]
  <2>1. t \in Tabs /\ n \in Visits /\ i \in Cookies /\ calls[s].op = "google"
    BY <1>1, <1>17 DEF GoogleAnswered, At, Is, Call, Visits, Cookies
  <2>2. CASE Done(s) /\ tab' = tab
    BY <1>12, <2>1, <2>2
  <2>3. CASE tab' = [tab EXCEPT ![t] = Fresh(n)] /\ calls' = [calls EXCEPT ![s] = k]
    <3>1. Starts(k, "session", t, n)
      <4> HIDE DEF t, n, i
      <4> QED
        BY <2>1, SessionCallIs
    <3> HIDE DEF k
    <3>2. calls'[s] = k /\ \A w \in Slots : w # s => calls'[w] = calls[w]
      BY <1>1, <2>3
    <3>3. Fresh(n).visit = n
      BY <2>1, FreshIs
    <3>4. tab'[t].visit = n /\ \A u \in Tabs : u # t => tab'[u] = tab[u]
      BY <1>1, <2>1, <2>3, <3>3
    <3> QED
      BY <1>6, <2>1, <3>1, <3>2, <3>4
  <2> QED
    BY <1>17, <2>2, <2>3 DEF GoogleAnswered, Caller
<1>18. ASSUME NEW s \in Slots, Settle(s) PROVE SpinnerIsAwaited'
  <2>1. CASE GoogleRefused(s)
    BY <1>12, <2>1 DEF GoogleRefused, Is
  <2> QED
    BY <1>11, <1>14, <1>15, <1>16, <1>17, <1>18, <2>1 DEF Settle
\* an answer that never comes
<1>19. ASSUME NEW s \in Slots, calls[s] # NoCall, Missed(s),
              \A w \in Slots : w # s /\ calls[w].op = "session" => Held(w),
              calls[s].op = "session" => \A w \in Slots : w # s => calls'[w] = calls[w],
              calls'[s] = Again(s)
       PROVE  SpinnerIsAwaited'
  <2>1. calls[s].tab \in Tabs
    BY <1>1, <1>19
  <2>2. CASE ~Failed(s)
    <3>1. Held(s) /\ tab' = tab
      BY <1>19, <2>2, AgainIs DEF Starts, Held, Missed
    <3> QED
      BY <1>4, <1>19, <3>1
  <2>3. CASE Failed(s)
    <3>1. Show(s, GivenUp(s)) /\ GivenUp(s) \in Tab
      BY <1>19, <2>1, <2>3, GivenUpIs DEF Missed
    <3>2. CASE calls[s].op = "session"
      <4>1. GivenUp(s).status # "loading"
        BY <2>1, <3>2, GivenUpIs
      <4> QED
        BY <1>5, <1>9, <1>19, <2>1, <3>1, <3>2, <4>1
    <3>3. CASE calls[s].op # "session"
      <4>1. /\ GivenUp(s).status = "loading" => tab[calls[s].tab].status = "loading"
            /\ GivenUp(s).visit = tab[calls[s].tab].visit
        BY <2>1, GivenUpIs
      <4>2. \A t \in Tabs : tab'[t].status = "loading" => tab[t].status = "loading" /\ tab'[t].visit = tab[t].visit
        BY <1>9, <2>1, <3>1, <4>1
      <4> QED
        BY <1>4, <1>19, <3>3, <4>2
    <3> QED
      BY <3>2, <3>3
  <2> QED
    BY <2>2, <2>3
<1>20. ASSUME NEW s \in Slots, Lose(s) PROVE SpinnerIsAwaited'
  <2>1. Again(s) \in Call
    BY <1>20, AgainIs DEF Lose
  <2>2. calls'[s] = Again(s) /\ \A w \in Slots : w # s => calls'[w] = calls[w]
    BY <1>20, <2>1, PutIs DEF Lose
  <2> QED
    BY <1>19, <1>20, <2>2 DEF Lose, Held
<1>21. ASSUME NEW s \in Slots, NEW o \in Slots, LoseRunning(s, o) PROVE SpinnerIsAwaited'
  <2>1. calls[s].pc \notin {"free", "start", "done", "refused"} /\ calls[s] # NoCall /\ Staged(calls[s]) /\ calls[s] \in Call
    BY <1>1, <1>21, NoCallIs DEF LoseRunning
  <2>2. calls[s].op # "session"
    BY <2>1 DEF Staged, Entering, Call, Pc
  <2>3. o # s /\ calls[o].op # "session"
    BY <1>7, <1>21, <2>1 DEF LoseRunning
  <2>4. calls'[s] = Again(s) /\ \A w \in Slots : w # s /\ w # o => calls'[w] = calls[w]
    BY <1>1, <1>21, <2>3 DEF LoseRunning
  <2> QED
    BY <1>19, <1>21, <2>1, <2>2, <2>3, <2>4 DEF LoseRunning, Held
\* what the user does
<1>22. ASSUME NEW k \in Call, NEW s \in FreeSlots, calls' = [calls EXCEPT ![s] = k]
       PROVE  s \in Slots /\ calls[s].op # "session" /\ calls'[s] = k /\ \A w \in Slots : w # s => calls'[w] = calls[w]
  BY <1>1, <1>7, <1>22 DEF FreeSlots
<1>23. ASSUME NEW t \in Tabs, Load(t) PROVE SpinnerIsAwaited'
  <2>1. PICK n \in 1..MaxLoads, s \in FreeSlots : /\ tab' = [tab EXCEPT ![t] = Fresh(n)]
                                                  /\ calls' = [calls EXCEPT ![s] = NewCall(t, "session", n)]
    BY <1>23 DEF Load
  <2>2. n \in Visits
    BY DEF Visits
  <2> DEFINE k == NewCall(t, "session", n)
  <2>3. Starts(k, "session", t, n)
    BY <2>2, NewCallIs DEF Ops, Starts
  <2>4. Fresh(n).visit = n
    BY <2>2, FreshIs
  <2> HIDE DEF k
  <2>5. tab'[t].visit = n /\ \A u \in Tabs : u # t => tab'[u] = tab[u]
    BY <1>1, <2>1, <2>4
  <2>6. s \in Slots /\ calls[s].op # "session" /\ calls'[s] = k /\ \A w \in Slots : w # s => calls'[w] = calls[w]
    BY <1>22, <2>1, <2>3 DEF Starts, k
  <2> QED
    BY <1>6, <2>3, <2>5, <2>6
<1>24. ASSUME NEW t \in Tabs, NEW g \in GoogleIds, VisitGoogle(t, g) PROVE SpinnerIsAwaited'
  <2>1. PICK n \in 1..MaxLoads, s \in FreeSlots :
          /\ tab' = [tab EXCEPT ![t] = [Fresh(n) EXCEPT !.status = "closed"]]
          /\ calls' = [calls EXCEPT ![s] = [NewCall(t, "google", n) EXCEPT !.google = g, !.email = EmailOf[g]]]
    BY <1>24 DEF VisitGoogle
  <2>2. n \in Visits
    BY DEF Visits
  <2>3. [NewCall(t, "google", n) EXCEPT !.google = g, !.email = EmailOf[g]] \in Call
        /\ [Fresh(n) EXCEPT !.status = "closed"].status = "closed"
    BY <2>2, GoogleCallIs, FreshIs DEF Starts
  <2>4. \A u \in Tabs : tab'[u].status = "loading" => tab'[u] = tab[u]
    BY <1>1, <2>1, <2>3
  <2> QED
    BY <1>4, <1>22, <2>1, <2>3, <2>4 DEF Held
<1>25. ASSUME NEW t \in Tabs, NEW op \in {"register", "login"}, NEW e \in Emails, SubmitForm(t, op, e) PROVE SpinnerIsAwaited'
  <2> DEFINE n == tab[t].visit
             k == [NewCall(t, op, n) EXCEPT !.form = TRUE, !.email = e]
             row == [tab[t] EXCEPT !.form = TRUE]
  <2>1. op \in Ops /\ n \in Visits
    BY <1>1 DEF Ops, Visits, Tab
  <2>2. k \in Call
    <3> HIDE DEF n
    <3> QED
      BY <2>1, FormCallIs DEF Starts
  <2>3. row.status = tab[t].status /\ row.visit = tab[t].visit
    BY FormIs
  <2>4. (\E s \in FreeSlots : calls' = [calls EXCEPT ![s] = k]) /\ tab' = [tab EXCEPT ![t] = row]
    BY <1>25 DEF SubmitForm
  <2> HIDE DEF k, row
  <2>5. \A u \in Tabs : tab'[u].status = tab[u].status /\ tab'[u].visit = tab[u].visit
    BY <1>1, <2>3, <2>4
  <2> QED
    BY <1>4, <1>22, <2>2, <2>4, <2>5 DEF Held
<1>26. ASSUME NEW t \in Tabs, Logout(t) PROVE SpinnerIsAwaited'
  <2>1. "logout" \in Ops /\ tab[t].visit \in Visits
    BY <1>1 DEF Ops, Visits, Tab
  <2>2. NewCall(t, "logout", tab[t].visit) \in Call
    BY <2>1, NewCallIs
  <2> QED
    BY <1>4, <1>22, <1>26, <2>2 DEF Logout, Held
<1>27. CASE (\E k \in SessionIds : Expire(k)) \/ UNCHANGED vars
  BY <1>4, <1>27 DEF Expire, Client, vars, Held
<1> QED
  BY <1>10, <1>18, <1>20, <1>21, <1>23, <1>24, <1>25, <1>26, <1>27 DEF Next, Serve

\* A logged-in tab is logged out by a 401 and by its own logout only.
KeepsLogin(t) ==
  tab[t].status = "authenticated" /\ tab'[t].status = "unauthenticated" =>
    \E s \in Slots :
      /\ Caller(s) = t /\ calls'[s] = NoCall
      /\ Is(s, "logout") \/ (Is(s, "session") /\ At(s, "refused"))

\* A failed request alone signs nobody out.
LEMMA BlipStep ==
  ASSUME TypeOK, CallsOK, [Next]_vars
  PROVE  \A t \in Tabs : KeepsLogin(t)
<1>1. /\ tab \in [Tabs -> Tab] /\ calls \in [Slots -> Call]
      /\ \A s \in Slots : calls[s].pc # "free" \/ calls[s] # NoCall => calls[s].tab \in Tabs
  BY NoCallIs DEF TypeOK, CallsOK, CallOK, Staged
<1>2. ASSUME \A t \in Tabs : tab'[t].status = "unauthenticated" => tab[t].status = "unauthenticated"
      PROVE  \A t \in Tabs : KeepsLogin(t)
  BY <1>2 DEF KeepsLogin
<1>3. ASSUME tab' = tab PROVE \A t \in Tabs : KeepsLogin(t)
  BY <1>2, <1>3
<1>4. ASSUME NEW s \in Slots, calls[s].tab \in Tabs, NEW row \in Tab, Show(s, row)
      PROVE  \A t \in Tabs : (t # calls[s].tab => tab'[t] = tab[t]) /\ tab'[t] \in {tab[t], row}
  BY <1>1, <1>4 DEF Show, Caller
<1>5. ASSUME NEW s \in Slots, Done(s) PROVE calls'[s] = NoCall
  BY <1>5, NoCallIs, PutIs DEF Done
<1>6. ASSUME NEW s \in Slots, calls[s].tab \in Tabs, NEW row \in Tab, Show(s, row), calls'[s] = NoCall,
             \/ calls[s].op = "logout"
             \/ calls[s].op = "session" /\ calls[s].pc = "refused"
             \/ row.status = tab[calls[s].tab].status \/ row.status # "unauthenticated"
             \/ tab[calls[s].tab].status # "authenticated"
      PROVE  \A t \in Tabs : KeepsLogin(t)
  BY <1>4, <1>6 DEF KeepsLogin, Caller, Is, At
<1>7. ASSUME NEW s \in Slots, ServeCall(s) PROVE \A t \in Tabs : KeepsLogin(t)
  BY <1>3, <1>7, ServedIsHeld
<1>8. ASSUME NEW s \in Slots, SessionAnswered(s) \/ SessionRefused(s) PROVE \A t \in Tabs : KeepsLogin(t)
  <2> DEFINE t == calls[s].tab
             free == tab[t].form /\ ~calls[s].form
  <2>1. t \in Tabs /\ calls[s].user \in Nobodies /\ free \in BOOLEAN /\ calls'[s] = NoCall /\ calls[s].op = "session"
    BY <1>1, <1>5, <1>8 DEF SessionAnswered, SessionRefused, Is, At, Call, Tab, Nobodies
  <2>2. PICK status \in {"authenticated", "unauthenticated"}, u \in Nobodies :
          /\ Show(s, [tab[t] EXCEPT !.status = status, !.user = u, !.form = free])
          /\ status = "authenticated" \/ calls[s].pc = "refused"
    BY <1>1, <1>8, <2>1 DEF SessionAnswered, SessionRefused, Refreshed, Caller, Tab, Nobodies, At
  <2> DEFINE row == [tab[t] EXCEPT !.status = status, !.user = u, !.form = free]
  <2>3. row \in Tab
    <3>1. status \in Statuses
      BY DEF Statuses
    <3> HIDE DEF t, free
    <3> QED
      BY <2>1, <3>1, RefreshedIs
  <2>4. row.status = status
    <3>1. ASSUME NEW r \in Tab, NEW v, NEW f PROVE [r EXCEPT !.status = status, !.user = v, !.form = f].status = status
      BY DEF Tab
    <3> QED
      BY <1>1, <2>1, <3>1
  <2> HIDE DEF row, free
  <2>5. Show(s, row)
    BY <2>2 DEF row, free
  <2> QED
    BY <1>6, <2>1, <2>2, <2>3, <2>4, <2>5
<1>9. ASSUME NEW s \in Slots, FormRefused(s) PROVE \A t \in Tabs : KeepsLogin(t)
  <2>1. calls[s].tab \in Tabs /\ calls'[s] = NoCall
    BY <1>1, <1>5, <1>9 DEF FormRefused, At
  <2> DEFINE row == [tab[calls[s].tab] EXCEPT !.form = FALSE]
  <2>2. row \in Tab /\ row.status = tab[calls[s].tab].status
    BY <2>1, FormIs
  <2>3. Show(s, row)
    BY <1>9 DEF FormRefused, Caller
  <2> HIDE DEF row
  <2> QED
    BY <1>6, <2>1, <2>2, <2>3
<1>10. ASSUME NEW s \in Slots, LogoutSettles(s) PROVE \A t \in Tabs : KeepsLogin(t)
  <2>1. calls[s].tab \in Tabs /\ calls'[s] = NoCall /\ calls[s].op = "logout"
    BY <1>1, <1>5, <1>10 DEF LogoutSettles, Is
  <2> DEFINE row == [tab[calls[s].tab] EXCEPT !.status = "unauthenticated", !.user = None]
  <2>2. row \in Tab
    BY <2>1, LoggedOutIs
  <2>3. Show(s, row)
    BY <1>10 DEF LogoutSettles, Caller
  <2> HIDE DEF row
  <2> QED
    BY <1>6, <2>1, <2>2, <2>3
<1>11. ASSUME NEW s \in Slots, GoogleAnswered(s) PROVE \A t \in Tabs : KeepsLogin(t)
  <2>1. calls[s].visit \in Visits
    BY <1>1 DEF Call, Visits
  <2>2. Fresh(calls[s].visit).status = "loading"
    BY <2>1, FreshIs
  <2> QED
    BY <1>1, <1>2, <1>11, <2>2 DEF GoogleAnswered, Caller
<1>12. ASSUME NEW s \in Slots, Settle(s) PROVE \A t \in Tabs : KeepsLogin(t)
  BY <1>3, <1>8, <1>9, <1>10, <1>11, <1>12 DEF Settle, FormAnswered, GoogleRefused
\* an answer that never comes
<1>13. ASSUME NEW s \in Slots, calls[s] # NoCall, Missed(s), calls'[s] = Again(s) PROVE \A t \in Tabs : KeepsLogin(t)
  <2>1. calls[s].tab \in Tabs
    BY <1>1, <1>13
  <2>2. CASE ~Failed(s)
    BY <1>3, <1>13, <2>2 DEF Missed
  <2>3. CASE Failed(s)
    <3>1. Show(s, GivenUp(s)) /\ calls'[s] = NoCall
      BY <1>13, <2>3, AgainIs DEF Missed
    <3>2. GivenUp(s) \in Tab
      BY <2>1, GivenUpIs
    <3>3. \/ calls[s].op = "logout"
          \/ GivenUp(s).status = tab[calls[s].tab].status
          \/ tab[calls[s].tab].status # "authenticated"
      BY <2>1, GivenUpIs
    <3> QED
      BY <1>6, <2>1, <3>1, <3>2, <3>3
  <2> QED
    BY <2>2, <2>3
<1>14. ASSUME NEW s \in Slots, Lose(s) PROVE \A t \in Tabs : KeepsLogin(t)
  <2>1. Again(s) \in Call /\ calls[s] # NoCall
    BY <1>14, AgainIs DEF Lose
  <2>2. calls'[s] = Again(s)
    BY <1>14, <2>1, PutIs DEF Lose
  <2> QED
    BY <1>13, <1>14, <2>1, <2>2 DEF Lose
<1>15. ASSUME NEW s \in Slots, NEW o \in Slots, LoseRunning(s, o) PROVE \A t \in Tabs : KeepsLogin(t)
  <2>1. calls[s] # NoCall
    BY <1>15, NoCallIs DEF LoseRunning
  <2>2. calls'[s] = Again(s)
    BY <1>1, <1>15 DEF LoseRunning
  <2> QED
    BY <1>13, <1>15, <2>1, <2>2 DEF LoseRunning
<1>16. ASSUME NEW t \in Tabs, Load(t) PROVE \A u \in Tabs : KeepsLogin(u)
  <2>1. PICK n \in 1..MaxLoads : tab' = [tab EXCEPT ![t] = Fresh(n)]
    BY <1>16 DEF Load
  <2>2. Fresh(n).status = "loading"
    BY DEF Fresh
  <2> QED
    BY <1>1, <1>2, <2>1, <2>2
<1>17. ASSUME NEW t \in Tabs, NEW g \in GoogleIds, VisitGoogle(t, g) PROVE \A u \in Tabs : KeepsLogin(u)
  <2>1. PICK n \in 1..MaxLoads : tab' = [tab EXCEPT ![t] = [Fresh(n) EXCEPT !.status = "closed"]]
    BY <1>17 DEF VisitGoogle
  <2>2. n \in Visits
    BY DEF Visits
  <2>3. [Fresh(n) EXCEPT !.status = "closed"].status = "closed"
    BY <2>2, FreshIs
  <2> QED
    BY <1>1, <1>2, <2>1, <2>3
<1>18. ASSUME NEW t \in Tabs, NEW op \in {"register", "login"}, NEW e \in Emails, SubmitForm(t, op, e)
       PROVE  \A u \in Tabs : KeepsLogin(u)
  <2>1. tab' = [tab EXCEPT ![t] = [tab[t] EXCEPT !.form = TRUE]] /\ [tab[t] EXCEPT !.form = TRUE].status = tab[t].status
    BY <1>18, FormIs DEF SubmitForm
  <2> QED
    BY <1>1, <1>2, <2>1
<1>19. CASE (\E t \in Tabs : Logout(t)) \/ (\E k \in SessionIds : Expire(k)) \/ UNCHANGED vars
  BY <1>3, <1>19 DEF Logout, Expire, Client, vars
<1> QED
  BY <1>7, <1>12, <1>14, <1>15, <1>16, <1>17, <1>18, <1>19 DEF Next, Serve

-----------------------------------------------------------------------------
(* Theorems *)

Inv == TypeOK /\ CallsOK /\ AccountsSound /\ SpinnerIsAwaited

\* Empty tables and closed tabs are a good beginning.
LEMMA Beginning == Init => Inv
<1> SUFFICES ASSUME Init PROVE Inv
  OBVIOUS
<1>1. TypeOK
  <2>1. NoUser \in User /\ NoSession \in Session
    BY DEF NoUser, User, NoSession, Session
  <2>2. [status |-> "closed", user |-> None, form |-> FALSE, visit |-> 0] \in Tab
    BY Bounds DEF Tab
  <2> QED
    BY <2>1, <2>2, NoCallIs DEF Init, TypeOK
<1>2. CallsOK
  BY DEF Init, CallsOK
<1>3. AccountsSound
  <2>1. \A u \in UserIds : users[u] = NoUser /\ NoUser.google = None
    BY DEF Init, NoUser
  <2> QED
    BY <2>1 DEF Init, AccountsSound, FreeUsers
<1>4. SpinnerIsAwaited
  BY DEF Init, SpinnerIsAwaited
<1> QED
  BY <1>1, <1>2, <1>3, <1>4 DEF Inv

\* The invariant always holds.
LEMMA Always == Spec => []Inv
<1>1. Inv /\ [Next]_vars => Inv'
  BY TypeStep, CallsStep, SoundStep, SpinnerStep DEF Inv
<1> QED
  BY Beginning, <1>1, PTL DEF Spec

\* Rows, tabs and calls have their types, so that every id a row or a call
\* carries can be looked up.
THEOREM AuthTypes == Spec => []TypeOK
<1>1. Inv => TypeOK
  BY DEF Inv
<1> QED
  BY <1>1, Always, PTL

\* One account per e-mail and per Google id, a Google id only with its own
\* e-mail and the badge only with a Google id, however registrations and Google
\* logins overlap (auth.service.ts register, loginWithGoogle).
THEOREM OneAccountEach == Spec => []AccountsSound
<1>1. Inv => AccountsSound
  BY DEF Inv
<1> QED
  BY <1>1, Always, PTL

\* A response that says registered, logged in or logged out says what the
\* tables hold, although nothing the server does is a transaction.
THEOREM AnswersAreTrue == Spec => []TrueAnswers
<1>1. Inv => TrueAnswers
  BY AnswersFollow DEF Inv
<1> QED
  BY <1>1, Always, PTL

\* A loading tab has its GET /auth/session under way, whatever is lost and
\* however often the page is loaded again (auth-context.tsx refresh).
THEOREM SpinnersEnd == Spec => []SpinnerIsAwaited
<1>1. Inv => SpinnerIsAwaited
  BY DEF Inv
<1> QED
  BY <1>1, Always, PTL

\* A lost or failing request never ends a login: only a 401 and the tab's own
\* logout do (auth-context.tsx:42).
THEOREM BlipsAreHarmless == Spec => BlipsKeepLogin
<1>1. Inv /\ [Next]_vars =>
        [\A t \in Tabs :
           tab[t].status = "authenticated" /\ tab'[t].status = "unauthenticated" =>
             \E s \in Slots :
               /\ Caller(s) = t /\ calls'[s] = NoCall
               /\ Is(s, "logout") \/ (Is(s, "session") /\ At(s, "refused"))]_vars
  BY BlipStep DEF Inv, KeepsLogin
<1> QED
  BY <1>1, Always, PTL DEF Spec, BlipsKeepLogin
=============================================================================
