----------------------------- MODULE RegistryProofs -----------------------------
(***************************************************************************)
(* The tables of accounts, sessions and badges implement the register, for *)
(* any number of calls that overlap, fail or are tried again.              *)
(***************************************************************************)
EXTENDS AuthProofs

-----------------------------------------------------------------------------
(* Sessions belong to accounts. *)

\* A session that was issued is the session of an account.
Owned ==
  \A k \in SessionIds : sessions[k] # NoSession =>
    sessions[k].user \in UserIds /\ users[sessions[k].user].email \in Emails

\* A call that opens a session has found or made an account it may enter.
LEMMA IssuerEnters ==
  ASSUME TypeOK, CallsOK, AccountsSound, NEW s \in Slots, At(s, "issue")
  PROVE  LET u == calls[s].user IN
         /\ u \in UserIds /\ users[u].email \in Emails
         /\ users[u].password \/ \E g \in GoogleIds : users[u].google = g /\ EmailOf[g] = users[u].email
<1> DEFINE k == calls[s]
<1>1. k.pc = "issue" /\ CallOK(k)
  BY NoCallIs DEF At, CallsOK
<1>2. k.op \in Entering /\ k.user \in UserIds /\ k.email \in Emails
  BY <1>1 DEF CallOK, Staged, Identified, HasAccount
<1>3. CASE k.op \in {"register", "login"}
  BY <1>1, <1>2, <1>3 DEF CallOK, Identified, HasAccount
<1>4. CASE k.op = "google"
  <2>1. k.google \in GoogleIds /\ users[k.user].google = k.google
    BY <1>1, <1>4 DEF CallOK, Staged, Identified, HasAccount
  <2>2. EmailOf[k.google] = users[k.user].email
    BY <1>2, <2>1, NoneIsNoRow DEF AccountsSound
  <2> QED
    BY <1>2, <2>1, <2>2, GoogleEmailsDiffer
<1> QED
  BY <1>2, <1>3, <1>4 DEF Entering

\* Only Issue opens a session.
LEMMA OpensOnly ==
  ASSUME TypeOK, CallsOK, [Next]_vars, NEW k \in SessionIds, sessions[k] = NoSession, sessions'[k] # NoSession
  PROVE  \E s \in Slots :
           At(s, "issue") /\ users' = users /\ sessions' = [sessions EXCEPT ![k] = [user |-> calls[s].user, state |-> "valid"]]
<1>1. sessions \in [SessionIds -> Session]
  BY DEF TypeOK
<1>2. ASSUME NEW i \in SessionIds, sessions[i] # NoSession, sessions' = [sessions EXCEPT ![i].state = "ended"] PROVE FALSE
  BY <1>1, <1>2
<1>3. ASSUME NEW s \in Slots, Revoke(s) PROVE FALSE
  <2>1. calls[s].cookie \in SessionIds /\ sessions[calls[s].cookie] # NoSession
    BY <1>3, NoCallIs DEF Revoke, At, CallsOK, CallOK, Ticketed
  <2> QED
    BY <1>2, <1>3, <2>1 DEF Revoke
<1>4. ASSUME NEW i \in SessionIds, Expire(i) PROVE FALSE
  BY <1>2, <1>4 DEF Expire, Valid, NoSession
<1>5. sessions' # sessions
  OBVIOUS
<1>6. ASSUME NEW s \in Slots, NEW e, NEW g, NEW next, CreateUser(s, e, g, next) PROVE FALSE
  BY <1>5, <1>6 DEF CreateUser, Taken, InsertUser, tables
<1>7. ASSUME NEW s \in Slots, ServeCall(s) PROVE Issue(s)
  BY <1>3, <1>5, <1>6, <1>7
     DEF ServeCall, RegisterFind, RegisterCreate, RegisterProfile, LoginFind, GoogleFind, GoogleEmail, GoogleLink,
         GoogleCreate, GoogleVerify, Guard, tables
<1>8. ASSUME NEW s \in Slots, Settle(s) PROVE FALSE
  BY <1>5, <1>8
     DEF Settle, FormAnswered, FormRefused, GoogleAnswered, GoogleRefused, SessionAnswered, SessionRefused, LogoutSettles,
         tables
<1>9. \E s \in Slots : Issue(s)
  BY <1>4, <1>5, <1>7, <1>8 DEF Next, Serve, Lose, LoseRunning, Load, Logout, SubmitForm, VisitGoogle, vars, tables
<1>10. PICK s \in Slots : Issue(s)
  BY <1>9
<1>11. PICK i \in FreeSessions : sessions' = [sessions EXCEPT ![i] = [user |-> calls[s].user, state |-> "valid"]]
  BY <1>10 DEF Issue
<1>12. i = k
  BY <1>1, <1>11
<1> QED
  BY <1>10, <1>11, <1>12 DEF Issue

\* A session keeps its account.
LEMMA OwnedStep ==
  ASSUME TypeOK, CallsOK, AccountsSound, Owned, [Next]_vars
  PROVE  Owned'
<1> SUFFICES ASSUME NEW k \in SessionIds, sessions'[k] # NoSession
             PROVE  sessions'[k].user \in UserIds /\ users'[sessions'[k].user].email \in Emails
  BY DEF Owned
<1>1. CASE sessions[k] # NoSession
  <2>1. sessions'[k].user = sessions[k].user
    BY <1>1, StayStep DEF SessionsStay
  <2>2. sessions[k].user \in UserIds /\ users[sessions[k].user].email \in Emails
    BY <1>1 DEF Owned
  <2>3. users[sessions[k].user] # NoUser
    BY <2>2, NoneIsNoRow DEF NoUser
  <2> QED
    BY <2>1, <2>2, <2>3, StayStep DEF UsersStay
<1>2. CASE sessions[k] = NoSession
  <2>1. PICK s \in Slots : At(s, "issue") /\ users' = users
                             /\ sessions' = [sessions EXCEPT ![k] = [user |-> calls[s].user, state |-> "valid"]]
    BY <1>2, OpensOnly
  <2>2. sessions'[k].user = calls[s].user
    BY <2>1 DEF TypeOK
  <2> QED
    BY <2>1, <2>2, IssuerEnters
<1> QED
  BY <1>1, <1>2

-----------------------------------------------------------------------------
(* How a write of the tables shows in the register. *)

\* Nothing in the register depends on cookie, tabs and calls.
LEMMA SameRegister ==
  ASSUME UNCHANGED <<users, verified, sessions>>
  PROVE  UNCHANGED R!rvars
  BY DEF R!rvars, Registered, FreeUsers, WithPassword, Linked, Vouched, Owner, Ended

\* A session is owned by the e-mail of its account; one that is free, by none.
LEMMA OwnerIs ==
  ASSUME TypeOK, Owned, NEW k \in SessionIds
  PROVE  /\ sessions[k] = NoSession => Owner[k] = None
         /\ sessions[k] # NoSession =>
              sessions[k].user # None /\ Owner[k] = users[sessions[k].user].email /\ Owner[k] # None
  BY NoneIsNoRow DEF Owned, Owner, NoSession

\* The new row of an account.
LEMMA RowShows ==
  ASSUME TypeOK, AccountsSound, Owned, NEW n \in FreeUsers, NEW e \in Emails, NEW g,
         users' = [users EXCEPT ![n] = [email |-> e, google |-> g, password |-> (g = None)]],
         UNCHANGED <<verified, sessions>>
  PROVE  /\ Registered' = Registered \cup {e}
         /\ WithPassword' = IF g = None THEN WithPassword \cup {e} ELSE WithPassword
         /\ Linked' = IF g = None THEN Linked ELSE Linked \cup {g}
         /\ UNCHANGED <<Vouched, Owner, Ended>>
<1> DEFINE row == [email |-> e, google |-> g, password |-> (g = None)]
<1>1. row.email = e /\ row.google = g /\ row # NoUser /\ (row.password <=> g = None)
  BY NoneIsNoRow DEF NoUser
<1> HIDE DEF row
<1>2. n \in UserIds /\ users'[n] = row /\ \A u \in UserIds : u # n => users'[u] = users[u]
  BY DEF TypeOK, FreeUsers, row
<1>3. ~users[n].password /\ users[n].google = None /\ users[n].email = None
  BY DEF NoUser, FreeUsers
<1>4. Registered' = Registered \cup {e}
  BY <1>1, <1>2 DEF Registered, FreeUsers
<1>5. WithPassword' = IF g = None THEN WithPassword \cup {e} ELSE WithPassword
  <2> DEFINE P == {u \in UserIds : users[u].password}
  <2>1. n \notin P
    BY <1>3
  <2>2. users'[n].password <=> g = None
    BY <1>1, <1>2
  <2>3. P' = IF g = None THEN P \cup {n} ELSE P
    BY <1>2, <1>3, <2>2
  <2>4. WithPassword = {users[u].email : u \in P} /\ P \subseteq UserIds
    BY DEF WithPassword
  <2>5. WithPassword' = {users'[u].email : u \in P'}
    BY DEF WithPassword
  <2>6. users'[n].email = e /\ \A u \in P : users'[u].email = users[u].email
    BY <1>1, <1>2, <2>1, <2>4
  <2> HIDE DEF P
  <2> QED
    BY <2>3, <2>4, <2>5, <2>6
<1>6. Linked' = IF g = None THEN Linked ELSE Linked \cup {g}
  BY <1>1, <1>2, <1>3 DEF Linked
<1>7. Vouched' = Vouched
  <2>1. \A u \in verified : u \in UserIds /\ u # n
    BY <1>3 DEF TypeOK, AccountsSound
  <2> QED
    BY <1>2, <2>1 DEF Vouched
<1>8. Owner' = Owner
  <2>1. \A k \in SessionIds : sessions[k].user # None => sessions[k].user \in UserIds /\ sessions[k].user # n
    BY <1>3, NoneIsNoRow DEF Owned, NoSession
  <2> QED
    BY <1>2, <2>1 DEF Owner
<1>9. Ended' = Ended
  BY DEF Ended
<1> QED
  BY <1>4, <1>5, <1>6, <1>7, <1>8, <1>9

\* Registration takes an e-mail nobody has, with a password.
LEMMA CreateRegisters ==
  ASSUME TypeOK, CallsOK, AccountsSound, Owned, NEW s \in Slots, RegisterCreate(s)
  PROVE  R!Next \/ UNCHANGED R!rvars
<1> DEFINE e == calls[s].email
<1>1. e \in Emails
  BY NoCallIs DEF RegisterCreate, At, CallsOK, CallOK, Staged, Entering
<1>2. CASE Taken(s, e, None)
  BY <1>2, SameRegister DEF Taken, tables
<1>3. CASE ByEmail(e) = {} /\ InsertUser(s, e, None, "profile")
  <2>1. PICK n \in FreeUsers : users' = [users EXCEPT ![n] = [email |-> e, google |-> None, password |-> (None = None)]]
    BY <1>3, InsertIs
  <2>2. UNCHANGED <<verified, sessions>>
    BY <1>3, InsertIs
  <2>3. e \notin Registered
    BY <1>3 DEF ByEmail, Registered
  <2> HIDE DEF e
  <2>4. /\ Registered' = Registered \cup {e} /\ WithPassword' = WithPassword \cup {e} /\ Linked' = Linked
        /\ UNCHANGED <<Vouched, Owner, Ended>>
    BY <1>1, <2>1, <2>2, RowShows
  <2>5. R!Register(e)
    BY <2>3, <2>4 DEF R!Register
  <2> QED
    BY <1>1, <2>5 DEF R!Next
<1> QED
  BY <1>2, <1>3 DEF RegisterCreate, CreateUser

\* A Google login whose e-mail nobody has makes an account without password.
LEMMA GoogleJoins ==
  ASSUME TypeOK, CallsOK, AccountsSound, Owned, NEW s \in Slots, GoogleCreate(s)
  PROVE  R!Next \/ UNCHANGED R!rvars
<1> DEFINE e == calls[s].email
           g == calls[s].google
<1>1. g \in GoogleIds /\ e = EmailOf[g] /\ e \in Emails /\ g # None
  BY NoCallIs, NoneIsNoRow DEF GoogleCreate, At, CallsOK, CallOK, Staged, Entering
<1>2. CASE Taken(s, e, g)
  BY <1>2, SameRegister DEF Taken, tables
<1>3. CASE ByEmail(e) = {} /\ (g # None => ByGoogle(g) = {}) /\ InsertUser(s, e, g, "verify")
  <2>1. PICK n \in FreeUsers : users' = [users EXCEPT ![n] = [email |-> e, google |-> g, password |-> (g = None)]]
    BY <1>3, InsertIs
  <2>2. UNCHANGED <<verified, sessions>>
    BY <1>3, InsertIs
  <2>3. e \notin Registered /\ g \notin Linked
    BY <1>1, <1>3 DEF ByEmail, Registered, ByGoogle, Linked
  <2> HIDE DEF e, g
  <2>4. /\ Registered' = Registered \cup {e} /\ WithPassword' = WithPassword /\ Linked' = Linked \cup {g}
        /\ UNCHANGED <<Vouched, Owner, Ended>>
    BY <1>1, <2>1, <2>2, RowShows
  <2>5. R!Join(g)
    BY <1>1, <2>3, <2>4 DEF R!Join
  <2> QED
    BY <1>1, <2>5 DEF R!Next
<1> QED
  BY <1>2, <1>3 DEF GoogleCreate, CreateUser

\* A Google id is linked to the account of its e-mail, or was already.
LEMMA LinkLinks ==
  ASSUME TypeOK, CallsOK, AccountsSound, Owned, NEW s \in Slots, GoogleLink(s)
  PROVE  R!Next \/ UNCHANGED R!rvars
<1> DEFINE g == calls[s].google
           u == calls[s].user
<1>1. g \in GoogleIds /\ u \in UserIds /\ users[u].email = EmailOf[g] /\ users[u] # NoUser /\ users[u].google \in {g, None}
  BY LinkedIs
<1>2. UNCHANGED <<verified, sessions>> /\ users \in [UserIds -> User] /\ g # None
  BY <1>1, NoneIsNoRow DEF GoogleLink, TypeOK
<1>3. CASE users' = users
  BY <1>2, <1>3, SameRegister
<1>4. CASE ByGoogle(g) \subseteq {u} /\ users' = [users EXCEPT ![u].google = g]
  <2> HIDE DEF u, g
  <2>1. /\ users'[u].email = users[u].email /\ users'[u].password = users[u].password /\ users'[u].google = g
        /\ \A v \in UserIds : v # u => users'[v] = users[v]
    BY <1>1, <1>2, <1>4 DEF User
  <2>2. \A v \in UserIds : users'[v].email = users[v].email /\ users'[v].password = users[v].password
    BY <2>1
  <2>3. FreeUsers' = FreeUsers
    <3>1. users'[u] # NoUser
      BY <1>1, <1>2, <2>1 DEF NoUser
    <3> QED
      BY <1>1, <2>1, <3>1 DEF FreeUsers
  <2>4. UNCHANGED <<Registered, WithPassword, Vouched, Owner, Ended>>
    <3>1. Registered' = Registered
      BY <2>2, <2>3 DEF Registered, FreeUsers
    <3>2. {v \in UserIds : users'[v].password} = {v \in UserIds : users[v].password}
      BY <2>2
    <3>3. WithPassword' = WithPassword
      BY <2>2, <3>2 DEF WithPassword
    <3>4. Vouched' = Vouched
      BY <1>2, <2>2 DEF Vouched, TypeOK
    <3>5. \A k \in SessionIds : sessions[k].user # None => sessions[k].user \in UserIds
      BY DEF Owned, NoSession
    <3>6. Owner' = Owner
      BY <1>2, <2>2, <3>5 DEF Owner
    <3>7. Ended' = Ended
      BY <1>2 DEF Ended
    <3> QED
      BY <3>1, <3>3, <3>4, <3>6, <3>7
  <2>5. Linked' = Linked \cup {g}
    BY <1>1, <1>2, <2>1 DEF Linked
  <2>6. CASE g \in Linked
    <3>1. Linked' = Linked
      BY <2>5, <2>6
    <3> QED
      BY <2>4, <3>1 DEF R!rvars
  <2>7. CASE g \notin Linked
    <3>1. EmailOf[g] \in Registered
      BY <1>1 DEF Registered, FreeUsers
    <3>2. R!Link(g)
      BY <2>4, <2>5, <2>7, <3>1 DEF R!Link
    <3> QED
      BY <1>1, <3>2 DEF R!Next
  <2> QED
    BY <2>6, <2>7
<1> QED
  BY <1>3, <1>4 DEF GoogleLink

\* Google's word is for the account the call has found or made.
LEMMA VerifyVouches ==
  ASSUME TypeOK, CallsOK, AccountsSound, NEW s \in Slots, GoogleVerify(s)
  PROVE  R!Next \/ UNCHANGED R!rvars
<1> DEFINE g == calls[s].google
           u == calls[s].user
<1>1. calls[s].pc = "verify" /\ CallOK(calls[s])
  BY NoCallIs DEF GoogleVerify, At, CallsOK
<1>2. g \in GoogleIds /\ u \in UserIds /\ users[u].google = g /\ g # None
  BY <1>1, NoneIsNoRow DEF CallOK, Staged, Identified, HasAccount
<1>3. EmailOf[g] = users[u].email
  BY <1>2 DEF AccountsSound
<1>4. UNCHANGED <<users, sessions>>
  BY DEF GoogleVerify
<1>5. CASE UNCHANGED verified
  BY <1>4, <1>5, SameRegister
<1>6. CASE verified' = verified \cup {u}
  <2>1. Vouched' = Vouched \cup {EmailOf[g]}
    BY <1>3, <1>4, <1>6 DEF Vouched
  <2>2. UNCHANGED <<Registered, WithPassword, Linked, Owner, Ended>>
    BY <1>4 DEF Registered, FreeUsers, WithPassword, Linked, Owner, Ended
  <2>3. g \in Linked
    BY <1>2 DEF Linked
  <2>4. R!Vouch(g)
    BY <2>1, <2>2, <2>3 DEF R!Vouch
  <2> QED
    BY <1>2, <2>4 DEF R!Next
<1> QED
  BY <1>5, <1>6 DEF GoogleVerify

\* A session is opened by one who has the means to log in.
LEMMA IssueEnters ==
  ASSUME TypeOK, CallsOK, AccountsSound, Owned, NEW s \in Slots, Issue(s)
  PROVE  R!Next
<1> DEFINE u == calls[s].user
           e == users[u].email
<1>1. u \in UserIds /\ e \in Emails /\ u # None
  BY IssuerEnters, NoneIsNoRow DEF Issue
<1>2. users[u].password \/ \E g \in GoogleIds : users[u].google = g /\ EmailOf[g] = e
  BY IssuerEnters DEF Issue
<1>3. PICK k \in FreeSessions : sessions' = [sessions EXCEPT ![k] = [user |-> u, state |-> "valid"]]
  BY DEF Issue
<1>4. UNCHANGED <<users, verified>>
  BY DEF Issue
<1>5. k \in SessionIds /\ sessions[k] = NoSession /\ sessions \in [SessionIds -> Session]
  BY <1>3 DEF FreeSessions, TypeOK
<1>6. R!CanEnter(e)
  <2>1. CASE users[u].password
    BY <1>1, <2>1 DEF R!CanEnter, WithPassword
  <2>2. ASSUME NEW g \in GoogleIds, users[u].google = g, EmailOf[g] = e PROVE R!CanEnter(e)
    <3>1. g \in Linked
      BY <1>1, <2>2, NoneIsNoRow DEF Linked
    <3> QED
      BY <2>2, <3>1 DEF R!CanEnter
  <2> QED
    BY <1>2, <2>1, <2>2
<1>7. Owner[k] = None
  BY <1>5, OwnerIs
<1> HIDE DEF u
<1>8. /\ sessions'[k] = [user |-> u, state |-> "valid"]
      /\ \A i \in SessionIds : i # k => sessions'[i] = sessions[i]
  BY <1>3, <1>5
<1>9. Owner' = [Owner EXCEPT ![k] = e]
  <2>1. sessions'[k].user = u /\ users' = users /\ u # None
    BY <1>1, <1>4, <1>8
  <2>2. /\ Owner'[k] = e
        /\ \A i \in SessionIds : i # k => Owner'[i] = Owner[i]
    BY <1>5, <1>8, <2>1 DEF Owner
  <2>3. /\ Owner = [i \in SessionIds |-> Owner[i]]
        /\ Owner' = [i \in SessionIds |-> Owner'[i]]
    BY DEF Owner
  <2> QED
    BY <1>5, <2>2, <2>3
<1>10. Ended' = Ended
  BY <1>5, <1>8 DEF Ended, NoSession
<1>11. UNCHANGED <<Registered, WithPassword, Linked, Vouched>>
  BY <1>4 DEF Registered, FreeUsers, WithPassword, Linked, Vouched
<1>12. R!Enter(k, e)
  BY <1>6, <1>7, <1>9, <1>10, <1>11 DEF R!Enter
<1> QED
  BY <1>1, <1>5, <1>12 DEF R!Next

\* Ending a session is for good; ending it again is nothing.
LEMMA EndLeaves ==
  ASSUME TypeOK, Owned, NEW k \in SessionIds, sessions[k] # NoSession,
         sessions' = [sessions EXCEPT ![k].state = "ended"], UNCHANGED <<users, verified>>
  PROVE  R!Next \/ UNCHANGED R!rvars
<1>1. sessions \in [SessionIds -> Session]
  BY DEF TypeOK
<1>2. /\ \A i \in SessionIds : sessions'[i].user = sessions[i].user
      /\ \A i \in SessionIds : i # k => sessions'[i] = sessions[i]
      /\ sessions'[k].state = "ended"
  BY <1>1 DEF Session, NoSession
<1>3. Owner' = Owner
  BY <1>2 DEF Owner
<1>4. Ended' = Ended \cup {k}
  BY <1>2 DEF Ended
<1>5. UNCHANGED <<Registered, WithPassword, Linked, Vouched>>
  BY DEF Registered, FreeUsers, WithPassword, Linked, Vouched
<1>6. Owner[k] # None
  BY OwnerIs
<1>7. CASE k \in Ended
  <2>1. Ended' = Ended
    BY <1>4, <1>7
  <2> QED
    BY <1>3, <1>5, <2>1 DEF R!rvars
<1>8. CASE k \notin Ended
  <2>1. R!Leave(k)
    BY <1>3, <1>4, <1>5, <1>6, <1>8 DEF R!Leave
  <2> QED
    BY <2>1 DEF R!Next
<1> QED
  BY <1>7, <1>8

-----------------------------------------------------------------------------
(* The refinement *)

\* Empty tables are an empty register.
LEMMA InitRegister == Init => R!Init /\ Owned
<1>1. Init => Owned
  BY DEF Init, Owned
<1> SUFFICES ASSUME Init PROVE R!Init
  BY <1>1
<1>2. /\ \A u \in UserIds : users[u] = NoUser
      /\ \A k \in SessionIds : sessions[k] = NoSession
      /\ verified = {}
  BY DEF Init
<1>3. NoUser.google = None /\ NoUser.password = FALSE /\ NoSession.user = None /\ NoSession.state # "ended"
  BY DEF NoUser, NoSession
<1>4. Registered = {} /\ WithPassword = {} /\ Linked = {} /\ Vouched = {}
  BY <1>2, <1>3 DEF Registered, FreeUsers, WithPassword, Linked, Vouched
<1>5. Owner = [k \in SessionIds |-> None] /\ Ended = {}
  BY <1>2, <1>3 DEF Owner, Ended
<1> QED
  BY <1>4, <1>5 DEF R!Init

\* Every step is a step of the register, or changes nothing it speaks of.
LEMMA RegisterStep ==
  ASSUME TypeOK, CallsOK, AccountsSound, Owned, [Next]_vars
  PROVE  [R!Next]_R!rvars
<1>1. ASSUME UNCHANGED tables PROVE UNCHANGED R!rvars
  BY <1>1, SameRegister DEF tables
<1>2. ASSUME NEW s \in Slots, Revoke(s) PROVE R!Next \/ UNCHANGED R!rvars
  <2>1. calls[s].cookie \in SessionIds /\ sessions[calls[s].cookie] # NoSession
    BY <1>2, NoCallIs DEF Revoke, At, CallsOK, CallOK, Ticketed
  <2> QED
    BY <1>2, <2>1, EndLeaves DEF Revoke
<1>3. ASSUME NEW k \in SessionIds, Expire(k) PROVE R!Next \/ UNCHANGED R!rvars
  <2>1. sessions[k] # NoSession
    BY <1>3 DEF Expire, Valid, NoSession
  <2>2. sessions' = [sessions EXCEPT ![k].state = "ended"] /\ UNCHANGED <<users, verified>>
    BY <1>3 DEF Expire
  <2> QED
    BY <2>1, <2>2, EndLeaves
<1>4. ASSUME NEW s \in Slots, RegisterProfile(s) PROVE UNCHANGED R!rvars
  BY <1>4, SameRegister DEF RegisterProfile
<1>5. ASSUME NEW s \in Slots, ServeCall(s) PROVE R!Next \/ UNCHANGED R!rvars
  BY <1>1, <1>2, <1>4, <1>5, CreateRegisters, GoogleJoins, LinkLinks, VerifyVouches, IssueEnters
     DEF ServeCall, RegisterFind, LoginFind, GoogleFind, GoogleEmail, Guard
<1>6. ASSUME NEW s \in Slots, Settle(s) PROVE UNCHANGED tables
  BY <1>6 DEF Settle, FormAnswered, FormRefused, GoogleAnswered, GoogleRefused, SessionAnswered, SessionRefused,
       LogoutSettles
<1>7. (\E s \in Slots : ServeCall(s)) \/ (\E k \in SessionIds : Expire(k)) \/ UNCHANGED tables
  BY <1>6 DEF Next, Serve, Lose, LoseRunning, Load, Logout, SubmitForm, VisitGoogle, vars, tables
<1> QED
  BY <1>1, <1>3, <1>5, <1>7

\* However registrations, logins, Google logins and logouts overlap, are lost,
\* go on unheard and are tried again, none of them in a transaction
\* (auth.service.ts), the tables keep the register; KeepsRegister says the same.
THEOREM RegisterKept == Spec => R!Spec /\ KeepsRegister
<1>1. Inv /\ Owned /\ [Next]_vars => Owned' /\ [R!Next]_R!rvars
  BY OwnedStep, RegisterStep DEF Inv
<1>2. [R!Next]_R!rvars => [UNCHANGED tables \/ R!Next]_R!rvars
  OBVIOUS
<1> QED
  BY <1>1, <1>2, Always, InitRegister, PTL DEF Spec, KeepsRegister, R!Spec
=============================================================================
