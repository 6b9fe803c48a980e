------------------------------- MODULE Registry -------------------------------
(***************************************************************************)
(* What registration, login and logout promise, with no rows, calls or     *)
(* tabs: a person is an e-mail, every event is one step.  Nothing is ever  *)
(* taken back but a session, and a session only once.                      *)
(***************************************************************************)
CONSTANTS
  Emails, GoogleIds, SessionIds,
  EmailOf,  \* the e-mail of a Google account
  None

VARIABLES
  accounts,   \* e-mails that have an account
  passwords,  \* those that have a password
  linked,     \* Google accounts that are linked
  badges,     \* e-mails Google has vouched for
  owner,      \* session -> e-mail, None before it is opened
  ended       \* sessions that are over

rvars == <<accounts, passwords, linked, badges, owner, ended>>

Init ==
  /\ accounts = {} /\ passwords = {} /\ linked = {} /\ badges = {}
  /\ owner = [k \in SessionIds |-> None] /\ ended = {}

\* The one way to a password is to be the first with the e-mail: nobody puts
\* a password of theirs on somebody's Google account.
Register(e) ==
  /\ e \notin accounts
  /\ accounts' = accounts \cup {e} /\ passwords' = passwords \cup {e}
  /\ UNCHANGED <<linked, badges, owner, ended>>

\* A Google account nobody knows, whose e-mail nobody has registered.
Join(g) ==
  /\ EmailOf[g] \notin accounts /\ g \notin linked
  /\ accounts' = accounts \cup {EmailOf[g]} /\ linked' = linked \cup {g}
  /\ UNCHANGED <<passwords, badges, owner, ended>>

\* A Google account joins the account of its own e-mail.
Link(g) ==
  /\ EmailOf[g] \in accounts /\ g \notin linked
  /\ linked' = linked \cup {g}
  /\ UNCHANGED <<accounts, passwords, badges, owner, ended>>

Vouch(g) ==
  /\ g \in linked
  /\ badges' = badges \cup {EmailOf[g]}
  /\ UNCHANGED <<accounts, passwords, linked, owner, ended>>

\* What it takes to log in as e.
CanEnter(e) == e \in passwords \/ \E g \in linked : EmailOf[g] = e

Enter(k, e) ==
  /\ owner[k] = None /\ CanEnter(e)
  /\ owner' = [owner EXCEPT ![k] = e]
  /\ UNCHANGED <<accounts, passwords, linked, badges, ended>>

\* By logout or by the clock.
Leave(k) ==
  /\ owner[k] # None /\ k \notin ended
  /\ ended' = ended \cup {k}
  /\ UNCHANGED <<accounts, passwords, linked, badges, owner>>

Next ==
  \/ \E e \in Emails : Register(e)
  \/ \E g \in GoogleIds : Join(g) \/ Link(g) \/ Vouch(g)
  \/ \E k \in SessionIds : Leave(k) \/ \E e \in Emails : Enter(k, e)

Spec == Init /\ [][Next]_rvars
=============================================================================
