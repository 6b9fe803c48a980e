-------------------------------- MODULE People --------------------------------
(***************************************************************************)
(* profiles, user_activities and user_locations: the routes a profile page *)
(* calls, statement by statement, and the searches that read what they     *)
(* write.  One user, Me, changes her rows; the others' stand still.        *)
(***************************************************************************)
EXTENDS Integers, FiniteSets

CONSTANTS
  Users, Me,
  Activities,
  Tabs,       \* the browser tabs of Me
  Slots,      \* bound: calls of Me at once
  Places,     \* points of a line
  Radius,     \* of every search
  None

Availability == {"NOW", "TODAY", "NOT_AVAILABLE"}
Ops == {"profile", "activities", "locate", "clear"}
\* A call waits for the browser's position, is sent, has executed a statement,
\* is answered, or has failed for good.
Pcs == {"geo", "begin", "rows", "ok", "no", "failed"}

ASSUME PeopleAssumption ==
  /\ Me \in Users /\ Places \subseteq Nat /\ Radius \in Nat
  /\ None \notin Users \cup Activities \cup Tabs \cup Slots \cup Places
  /\ None \notin Availability \cup Ops \cup Pcs

VARIABLES
  profile,  \* of a user: None or discoverable, hidden
  rows,     \* user_activities: the availability of a user for an activity, or None
  place,    \* user_locations
  blocks,
  calls,    \* what the slots are at
  search,   \* a search of some user
  withdrawn \* what Me has been told is hidden, and has asked nothing against since

tables == <<profile, rows, place, blocks>>
people == <<tables, calls, search, withdrawn>>

Selection == [Activities -> Availability \cup {None}]
NothingPicked == [k \in Activities |-> None]
Form == [discoverable : BOOLEAN, hidden : BOOLEAN]
Visible(form) == form.discoverable /\ ~form.hidden

\* A call is an attempt of fetchWithRetry: the page awaits it, or only its tab
\* (the page was left), or nobody (the client gave the attempt up).
NoCall ==
  [op |-> None, tab |-> None, caller |-> "nobody", pc |-> None, attempt |-> 1, body |-> None,
   targets |-> {}, held |-> {}, want |-> None,   \* setMyActivities: rows to delete, locked, waited for
   theirs |-> NothingPicked,   \* what other saves have committed since its snapshot
   keeps |-> {}, sole |-> TRUE]

At(s, pc) == calls[s].pc = pc
Goto(s, pc) == calls' = [calls EXCEPT ![s].pc = pc]
Free == {s \in Slots : calls[s] = NoCall}
NextSlot == CHOOSE s \in Free : TRUE

\* The table a call writes.
Section(op) == IF op \in {"locate", "clear"} THEN "place" ELSE op
\* Calls that have executed a statement learn of a commit to their table.
Told(s, g) ==
  g # s /\ calls[g].op # None /\ Section(calls[g].op) = Section(calls[s].op)
        /\ calls[g].pc \in {"rows", "ok"}

-----------------------------------------------------------------------------
(* setMyActivities: one transaction, READ COMMITTED *)

Chosen(s) == {k \in Activities : calls[s].body[k] # None}
\* The row the call's next statements go for: deletions come first.
ToDo(s) == IF calls[s].targets # {} THEN calls[s].targets ELSE Chosen(s) \ calls[s].held
Locked(s, k) == \E g \in Slots \ {s} : k \in calls[g].held

Scan(s, gone) ==
  /\ At(s, "begin") /\ calls[s].op = "activities"
  /\ calls' = [calls EXCEPT ![s].pc = "rows", ![s].sole = TRUE, ![s].theirs = NothingPicked,
                            ![s].targets = gone]
  /\ UNCHANGED <<tables, search, withdrawn>>
\* Without the deleteMany.
SetMerges(s) == Scan(s, {})
\* deleteMany takes its snapshot.
SetScan(s) == Scan(s, {k \in Activities \ Chosen(s) : rows[Me][k] # None})

\* It deletes one row more, or an upsert writes its row; whichever row it is,
\* the statement waits while another transaction has changed it.
SetRow(s) ==
  /\ At(s, "rows")
  /\ \E k \in ToDo(s) :
       /\ calls[s].want \in {None, k}
       /\ calls' = IF Locked(s, k) THEN [calls EXCEPT ![s].want = k]
                   ELSE [calls EXCEPT ![s].held = @ \cup {k}, ![s].targets = @ \ {k}, ![s].want = None]
  /\ UNCHANGED <<tables, search, withdrawn>>

\* The rows s has locked as it leaves them, the others as they were.
Written(s, old) == [k \in Activities |-> IF k \in calls[s].held THEN calls[s].body[k] ELSE old[k]]
\* A deletion that waits finds the row gone when the other, s, has deleted it.
Overtaken(call, s) ==
  LET gone == calls[s].held \ Chosen(s) IN
  [call EXCEPT !.sole = FALSE, !.theirs = Written(s, @), !.targets = @ \ gone,
               !.want = IF @ \in call.targets \cap gone THEN None ELSE @]

SetCommit(s) ==
  /\ At(s, "rows") /\ ToDo(s) = {}
  /\ rows' = [rows EXCEPT ![Me] = Written(s, @)]
  /\ calls' = [g \in Slots |->
       IF g = s THEN [calls[s] EXCEPT !.pc = "ok", !.held = {}, !.theirs = NothingPicked]
       ELSE IF Told(s, g) THEN Overtaken(calls[g], s) ELSE calls[g]]
  /\ UNCHANGED <<profile, place, blocks, search, withdrawn>>

\* PostgreSQL aborts one of the transactions that wait for each other: 500.
Deadlocked(s) ==
  \E D \in SUBSET Slots :
    s \in D /\ \A g \in D : \E h \in D \ {g} : calls[g].want \in calls[h].held
NoVictim(s) == FALSE
DeadlockVictim(s) ==
  /\ Deadlocked(s)
  /\ calls' = [calls EXCEPT ![s].pc = "no", ![s].held = {}, ![s].targets = {}, ![s].want = None,
                            ![s].theirs = NothingPicked]
  /\ UNCHANGED <<tables, search, withdrawn>>

-----------------------------------------------------------------------------
(* The routes of one statement *)

Executed(s, pc) ==
  calls' = [g \in Slots |->
    IF g = s THEN [calls[s] EXCEPT !.pc = pc, !.sole = TRUE]
    ELSE IF pc = "ok" /\ Told(s, g) THEN [calls[g] EXCEPT !.sole = FALSE] ELSE calls[g]]

\* An absent flag is left alone, and a false one taken for absent.
UpsertTruthy(s) ==
  /\ At(s, "begin") /\ calls[s].op = "profile"
  /\ profile' = [profile EXCEPT ![Me] =
       [calls[s].body EXCEPT !.hidden = @ \/ (profile[Me] # None /\ profile[Me].hidden)]]
  /\ Executed(s, "ok")
  /\ UNCHANGED <<rows, place, blocks, search, withdrawn>>

\* upsertMyProfile.
UpsertProfile(s) ==
  /\ At(s, "begin") /\ calls[s].op = "profile"
  /\ profile' = [profile EXCEPT ![Me] = calls[s].body]
  /\ Executed(s, "ok")
  /\ UNCHANGED <<rows, place, blocks, search, withdrawn>>

\* Coordinates no place has.
OutOfRange == -1
LocationWritten(s, valid) ==
  /\ At(s, "begin") /\ calls[s].op = "locate"
  /\ IF valid THEN place' = [place EXCEPT ![Me] = calls[s].body] /\ Executed(s, "ok")
     ELSE place' = place /\ Executed(s, "no")
  /\ UNCHANGED <<profile, rows, blocks, search, withdrawn>>
\* Without UpdateLocationDto.
SetAnyLocation(s) == LocationWritten(s, TRUE)
\* updateMyLocation.
SetLocation(s) == LocationWritten(s, calls[s].body \in Places)

\* The deletion is not awaited: Prisma never runs it.
ClearUnawaited(s) ==
  /\ At(s, "begin") /\ calls[s].op = "clear" /\ Executed(s, "ok")
  /\ UNCHANGED <<tables, search, withdrawn>>

\* clearMyLocation.
ClearLocation(s) ==
  /\ At(s, "begin") /\ calls[s].op = "clear"
  /\ place' = [place EXCEPT ![Me] = None] /\ Executed(s, "ok")
  /\ UNCHANGED <<profile, rows, blocks, search, withdrawn>>

-----------------------------------------------------------------------------
(* Searching *)

NoSearch == [by |-> None, activity |-> None, pc |-> None, knew |-> {}, found |-> {}]

Near(u, v) ==
  /\ place[u] # None /\ place[v] # None
  /\ place[u] - place[v] <= Radius /\ place[v] - place[u] <= Radius
Offers(u, x) ==
  /\ rows[u][x] \notin {None, "NOT_AVAILABLE"}
  /\ profile[u] # None /\ Visible(profile[u])
BlockedEitherWay(u, v) == <<u, v>> \in blocks \/ <<v, u>> \in blocks

\* findNearby.
Candidates(v, x) ==
  {u \in Users \ {v} : Offers(u, x) /\ Near(u, v) /\ ~BlockedEitherWay(u, v)}
\* findNearbyForMap repeats the filter; without the second half of its UNION.
MapCandidatesOneWay(v, x) ==
  {u \in Users \ {v} : Offers(u, x) /\ Near(u, v) /\ <<v, u>> \notin blocks}
MapCandidates(v, x) ==
  {u \in Users \ {v} : Offers(u, x) /\ Near(u, v) /\ ~BlockedEitherWay(u, v)}

\* handleSearch of the discover or the map page: one search and what it finds.
\* What an earlier one has left on the screen is not modelled.
Search(v, x) ==
  /\ search = NoSearch
  /\ search' = [NoSearch EXCEPT !.by = v, !.activity = x, !.pc = "check",
                                !.knew = withdrawn \cup IF BlockedEitherWay(v, Me) THEN {"block"} ELSE {}]
  /\ UNCHANGED <<tables, calls, withdrawn>>
\* hasLocation; without one the search is refused and finds nothing.
CheckLocation ==
  /\ search.pc = "check"
  /\ search' = IF place[search.by] = None THEN NoSearch ELSE [search EXCEPT !.pc = "query"]
  /\ UNCHANGED <<tables, calls, withdrawn>>
Query ==
  /\ search.pc = "query"
  /\ \E found \in {Candidates(search.by, search.activity), MapCandidates(search.by, search.activity)} :
       search' = [search EXCEPT !.pc = "shown", !.found = found]
  /\ UNCHANGED <<tables, calls, withdrawn>>
\* A request or its answer is lost, a statement fails: fetchWithRetry repeats
\* it, or the page shows the error.
SearchFails ==
  /\ search.pc \in {"check", "query"}
  /\ search' \in {NoSearch, [search EXCEPT !.pc = "check"]}
  /\ UNCHANGED <<tables, calls, withdrawn>>
\* The results make way for the next search.
SearchAgain ==
  search.pc = "shown" /\ search' = NoSearch /\ UNCHANGED <<tables, calls, withdrawn>>

Serve(s) ==
  \/ SetScan(s) \/ SetRow(s) \/ SetCommit(s) \/ DeadlockVictim(s)
  \/ UpsertProfile(s) \/ SetLocation(s) \/ ClearLocation(s)
=============================================================================
