----------------------------- MODULE ProfilePage -----------------------------
(***************************************************************************)
(* profile/page.tsx in the tabs of Me, over People: loading, editing, the  *)
(* two saves, the location buttons, lib/api.ts' retries, and what the      *)
(* others' searches find meanwhile.                                        *)
(***************************************************************************)
EXTENDS People

CONSTANTS
  MaxAttempts, \* fetchWithRetry
  MaxLosses,   \* bound: attempts, loads and positions that fail
  MaxGestures, \* bound: edits, buttons, visits of the page
  Searches,    \* bound: who searches for what
  StartRows, StartPlaces, StartBlocks, \* what is stored at first
  Opened, OpenForm, OpenSel \* the tabs with an edited page at first, and what it shows

ASSUME PageAssumption ==
  /\ MaxAttempts \in Nat \ {0} /\ MaxLosses \in Nat /\ MaxGestures \in Nat \ {0}
  /\ StartRows \in [Users -> Selection] /\ StartPlaces \in [Users -> Places \cup {None}]
  /\ StartBlocks \subseteq Users \X Users
  /\ Searches \subseteq Users \X Activities
  /\ 0 \in Places /\ Opened \subseteq Tabs /\ OpenForm \in Form /\ OpenSel \in Selection

VARIABLES screen, gestures, losses

vars == <<people, screen, gestures, losses>>

Sections == {"profile", "activities"}
EmptyForm == [discoverable |-> TRUE, hidden |-> FALSE]
\* load: the profile is fetched first, then the activities.
Fresh ==
  [at |-> "profile", form |-> EmptyForm, sel |-> NothingPicked, saving |-> {}, loc |-> "idle",
   clean |-> {},  \* sections that show what is stored, as far as the page can know
   kept |-> {}]   \* activities it has loaded and not seen unticked
\* A page that was loaded and then edited.
Edited ==
  [Fresh EXCEPT !.at = "ready", !.form = OpenForm, !.sel = OpenSel,
                !.kept = {k \in Activities : OpenSel[k] # None /\ StartRows[Me][k] # None}]

TypeOK ==
  /\ profile \in [Users -> Form \cup {None}] /\ rows \in [Users -> Selection]
  /\ place \in [Users -> Places \cup {None}]
  /\ withdrawn \cup search.knew \subseteq {"profile", "place", "block"}
  /\ \A s \in Slots :
       /\ calls[s].caller \in {"page", "tab", "nobody"} /\ calls[s].attempt \in 1..MaxAttempts
       /\ calls[s].targets \cup calls[s].held \subseteq Activities
       /\ calls[s].want # None => calls[s].want \in ToDo(s)
       /\ \A g \in Slots \ {s} : calls[s].held \cap calls[g].held = {}
  /\ \A t \in Tabs :
       /\ screen[t].at \in {"profile", "activities", "ready"}
       /\ screen[t].form \in Form /\ screen[t].sel \in Selection

\* Me has a profile, or her registration failed before it was written; then,
\* a bound, one gesture is left.
Init ==
  /\ \E mine \in {None, EmptyForm} :
       /\ profile = [u \in Users |-> IF u = Me THEN mine ELSE EmptyForm]
       /\ gestures = IF mine = None THEN MaxGestures - 1 ELSE 0
  /\ rows = StartRows
  /\ place = StartPlaces /\ blocks = StartBlocks
  /\ calls = [s \in Slots |-> NoCall] /\ search = NoSearch /\ withdrawn = {}
  /\ screen = [t \in Tabs |-> IF t \in Opened THEN Edited ELSE Fresh]
  /\ losses = 0

Gestured == gestures < MaxGestures /\ gestures' = gestures + 1 /\ UNCHANGED losses
Lost == losses < MaxLosses /\ losses' = losses + 1 /\ UNCHANGED gestures
Same == UNCHANGED <<gestures, losses>>
Ready(t) == screen[t].at = "ready"

-----------------------------------------------------------------------------
(* Loading *)

\* The page shows what is stored unless somebody writes it behind its back.
LoadedProfile(t) ==
  /\ screen[t].at = "profile"
  /\ screen' = [screen EXCEPT ![t] =
       IF profile[Me] = None THEN [@ EXCEPT !.at = "activities"]
       ELSE [@ EXCEPT !.at = "activities", !.form = profile[Me],
                     !.clean = screen[t].clean \cup {"profile"}]]
  /\ UNCHANGED people /\ Same

ShowActivities(t, sel) ==
  /\ screen[t].at = "activities"
  /\ screen' = [screen EXCEPT ![t].at = "ready", ![t].sel = sel,
                              ![t].clean = @ \cup {"activities"},
                              ![t].kept = {k \in Activities : rows[Me][k] # None}]
  /\ UNCHANGED people /\ Same
\* Only what the page offers for choice.
LoadedOffered(t) ==
  ShowActivities(t, [k \in Activities |-> IF rows[Me][k] = "NOT_AVAILABLE" THEN None ELSE rows[Me][k]])
LoadedActivities(t) == ShowActivities(t, rows[Me])

\* An error message for the profile, nothing for the activities: the page goes
\* on with an empty form.
LoadFailed(t) ==
  /\ ~Ready(t)
  /\ screen' = [screen EXCEPT ![t].at = IF @ = "profile" THEN "activities" ELSE "ready"]
  /\ Lost /\ UNCHANGED people

-----------------------------------------------------------------------------
(* Editing *)

Edit(t, section, after) ==
  /\ Ready(t) /\ Gestured
  /\ screen' = [screen EXCEPT ![t] = [after EXCEPT !.clean = @ \ {section}]]
  /\ UNCHANGED people
Toggle(t, k) ==
  Edit(t, "activities",
    IF screen[t].sel[k] = None THEN [screen[t] EXCEPT !.sel[k] = "NOW"]
    ELSE [screen[t] EXCEPT !.sel[k] = None, !.kept = @ \ {k}])
SetAvailability(t, k) ==
  /\ screen[t].sel[k] \in {"NOW", "NOT_AVAILABLE"}
  /\ Edit(t, "activities", [screen[t] EXCEPT !.sel[k] = "TODAY"])
SetDiscoverable(t) == Edit(t, "profile", [screen[t] EXCEPT !.form.discoverable = ~@])
SetHidden(t) == Edit(t, "profile", [screen[t] EXCEPT !.form.hidden = ~@])

-----------------------------------------------------------------------------
(* Buttons *)

NewCall(t, op, body) ==
  [NoCall EXCEPT !.op = op, !.tab = t, !.caller = "page", !.pc = "begin", !.body = body]
\* What Me asks for is no longer what she was told.
Undo(section) ==
  /\ withdrawn' = withdrawn \ {section}
  /\ search' = [search EXCEPT !.knew = @ \ {section}]
Click(t, call, after) ==
  /\ Ready(t) /\ Free # {} /\ Gestured
  /\ calls' = [calls EXCEPT ![NextSlot] = call]
  /\ screen' = [screen EXCEPT ![t] = after]
  /\ UNCHANGED tables

SaveProfile(t) ==
  /\ "profile" \notin screen[t].saving
  /\ Click(t, NewCall(t, "profile", screen[t].form), [screen[t] EXCEPT !.saving = @ \cup {"profile"}])
  /\ Undo("profile")
SaveActivities(t) ==
  /\ "activities" \notin screen[t].saving
  /\ Click(t, [NewCall(t, "activities", screen[t].sel) EXCEPT !.keeps = screen[t].kept],
           [screen[t] EXCEPT !.saving = @ \cup {"activities"}])
  /\ UNCHANGED <<search, withdrawn>>
\* The browser asks for the position first: no call yet.
UseBrowserLocation(t) ==
  /\ screen[t].loc # "saving"
  /\ Click(t, [NewCall(t, "locate", 0) EXCEPT !.pc = "geo"], [screen[t] EXCEPT !.loc = "saving"])
  /\ UNCHANGED <<search, withdrawn>>
\* Empty fields count as 0; a number may be out of range.
ManualLocation(t) ==
  /\ \E at \in {0, OutOfRange} : Click(t, NewCall(t, "locate", at), [screen[t] EXCEPT !.loc = "saving"])
  /\ Undo("place")
ClearMyLocation(t) ==
  /\ Click(t, NewCall(t, "clear", None), [screen[t] EXCEPT !.loc = "saving"])
  /\ UNCHANGED <<search, withdrawn>>

\* The page is left and opened again: its calls go on, unheard.
Visit(t) ==
  /\ Gestured
  /\ screen' = [screen EXCEPT ![t] = Fresh]
  /\ calls' = [s \in Slots |->
       IF calls[s].tab = t /\ calls[s].caller = "page" THEN [calls[s] EXCEPT !.caller = "tab"]
       ELSE calls[s]]
  /\ UNCHANGED <<tables, search, withdrawn>>

\* getCurrentPosition's callbacks, at any time.
PositionFound(s) ==
  /\ At(s, "geo") /\ Goto(s, "begin")
  /\ screen' = IF calls[s].caller = "page" THEN [screen EXCEPT ![calls[s].tab].loc = "saving"] ELSE screen
  /\ Undo("place")
  /\ UNCHANGED tables /\ Same
PositionFails(s) ==
  /\ At(s, "geo")
  /\ calls' = [calls EXCEPT ![s] = NoCall]
  /\ screen' = IF calls[s].caller = "page" THEN [screen EXCEPT ![calls[s].tab].loc = "error"] ELSE screen
  /\ Lost /\ UNCHANGED <<tables, search, withdrawn>>

-----------------------------------------------------------------------------
(* fetchWithRetry *)

Alive(s) == calls[s].caller # "nobody" /\ calls[s].pc \in {"begin", "rows", "ok", "no"}
Again(s) ==
  IF calls[s].attempt < MaxAttempts
  THEN [NewCall(calls[s].tab, calls[s].op, calls[s].body) EXCEPT
          !.caller = calls[s].caller, !.keeps = calls[s].keeps, !.attempt = calls[s].attempt + 1]
  ELSE [calls[s] EXCEPT !.pc = "failed", !.held = {}, !.targets = {}, !.want = None,
                        !.theirs = NothingPicked]

\* An attempt is lost before it commits, or its answer is.
Lose(s) ==
  /\ Alive(s) /\ Lost
  /\ calls' = [calls EXCEPT ![s] = Again(s)]
  /\ UNCHANGED <<tables, screen, search, withdrawn>>
\* The client gives up an attempt that the server goes on with.
LoseRunning(s) ==
  /\ Alive(s) /\ calls[s].pc \in {"begin", "rows"} /\ Free # {} /\ Lost
  /\ calls' = [calls EXCEPT ![s].caller = "nobody", ![NextSlot] = Again(s)]
  /\ UNCHANGED <<tables, screen, search, withdrawn>>

-----------------------------------------------------------------------------
(* Answers *)

Others(s) ==
  {g \in Slots \ {s} : calls[g].pc \notin {None, "geo"} /\ Section(calls[g].op) = Section(calls[s].op)}
Shown(t, op) == IF op = "profile" THEN screen[t].form ELSE screen[t].sel

\* Me is told that she is hidden, or without location, and nothing of hers that
\* might say otherwise is still under way.
Withdraws(s) ==
  /\ calls[s].sole /\ Others(s) = {}
  /\ calls[s].op = "clear" \/ (calls[s].op = "profile" /\ ~Visible(calls[s].body))

Ends(s, after) ==
  /\ calls' = [calls EXCEPT ![s] = NoCall]
  /\ screen' = IF calls[s].caller = "page" THEN [screen EXCEPT ![calls[s].tab] = after] ELSE screen
  /\ UNCHANGED tables /\ Same

Answered(s) ==
  LET t == calls[s].tab
      op == calls[s].op
      true == IF calls[s].sole /\ calls[s].body = Shown(t, op) THEN {op} ELSE {}
  IN
  /\ At(s, "ok")
  /\ Ends(s, CASE op = "locate" -> [screen[t] EXCEPT !.loc = "saved"]
               [] op = "clear" -> [screen[t] EXCEPT !.loc = "idle"]
               [] OTHER -> [screen[t] EXCEPT !.saving = @ \ {op}, !.clean = @ \cup true])
  /\ withdrawn' = IF calls[s].caller = "page" /\ Withdraws(s)
                  THEN withdrawn \cup {Section(op)} ELSE withdrawn
  /\ UNCHANGED search

\* Without handleSaveActivities' finally.
RefusedForGood(s) ==
  /\ calls[s].pc \in {"no", "failed"} /\ Ends(s, screen[calls[s].tab])
  /\ UNCHANGED <<search, withdrawn>>
Refused(s) ==
  LET t == calls[s].tab
      op == calls[s].op
  IN
  /\ calls[s].pc \in {"no", "failed"}
  /\ Ends(s, IF op \in Sections THEN [screen[t] EXCEPT !.saving = @ \ {op}]
             ELSE [screen[t] EXCEPT !.loc = "error"])
  /\ UNCHANGED <<search, withdrawn>>

-----------------------------------------------------------------------------
(* Specification *)

\* A commit behind a page's back: what it shows is no longer what is stored.
Commits(s) ==
  calls'[s].pc = "ok" /\ calls[s].pc # "ok" /\ calls[s].op \in Sections
Served(s) ==
  /\ Serve(s) /\ Same
  /\ screen' = IF Commits(s)
               THEN [t \in Tabs |-> [screen[t] EXCEPT !.clean = @ \ {calls[s].op}]] ELSE screen

Step(s) == Served(s) \/ Answered(s) \/ Refused(s)
Load(t) == LoadedProfile(t) \/ LoadedActivities(t)
Gesture(t) ==
  \/ \E k \in Activities : Toggle(t, k) \/ SetAvailability(t, k)
  \/ SetDiscoverable(t) \/ SetHidden(t)
  \/ SaveProfile(t) \/ SaveActivities(t) \/ Visit(t)
  \/ UseBrowserLocation(t) \/ ManualLocation(t) \/ ClearMyLocation(t)
Fault(s) == PositionFails(s) \/ Lose(s) \/ LoseRunning(s)
Searching ==
  \/ \E who \in Searches : Search(who[1], who[2])
  \/ CheckLocation \/ Query \/ SearchFails \/ SearchAgain

Next ==
  \/ \E t \in Tabs : Load(t) \/ LoadFailed(t) \/ Gesture(t)
  \/ \E s \in Slots : Step(s) \/ PositionFound(s) \/ Fault(s)
  \/ Searching /\ UNCHANGED screen /\ Same

Spec == Init /\ [][Next]_vars
\* PostgreSQL queues the waiters of a row and breaks their cycles; fetch settles.
\* Nobody has to press a button, search, or answer the browser's question.
Fairness ==
  /\ \A s \in Slots : SF_vars(Step(s))
  /\ \A t \in Tabs : WF_vars(Load(t))
FairSpec == Spec /\ Fairness

-----------------------------------------------------------------------------
(* Properties *)

\* A section that was loaded, or saved as it is on screen, with no other save
\* in between, shows what is stored (profile.service.ts:51, 89).
SavedIsShown ==
  \A t \in Tabs :
    /\ "profile" \in screen[t].clean => profile[Me] = screen[t].form
    /\ "activities" \in screen[t].clean => rows[Me] = screen[t].sel

\* A page awaits an answer for whatever it says it is saving: a section's button
\* is off for exactly one request of that page, however often it is repeated, and
\* on when there is none; and "Saving" of the location is never the last word
\* (page.tsx:345, 384, 402).
Awaited(t, ops) ==
  {s \in Slots : calls[s].caller = "page" /\ calls[s].tab = t /\ calls[s].op \in ops}
SavingIsAwaited ==
  \A t \in Tabs :
    /\ \A op \in Sections :
         /\ op \in screen[t].saving <=> Awaited(t, {op}) # {}
         /\ \A s, g \in Awaited(t, {op}) : s = g
    /\ screen[t].loc = "saving" => Awaited(t, {"locate", "clear"}) # {}

\* Once the page has told Me that she is hidden, or that her location is gone,
\* no search that begins later, on the list or on the map, finds her, until a
\* call of hers says the opposite (discovery.repository.ts:82, API.md:63); nor
\* does any search of a user she has blocked.
WithdrawnUnseen == search.knew # {} => Me \notin search.found

\* When a save of activities commits, what is stored is the set it listed, as
\* API.md:56 says, but for one thing: an activity it did not list is still there
\* if a save that committed after this one's deleteMany began has listed it, and
\* then exactly as that one listed it (profile.service.ts:106).
ReplacesAll ==
  [][\A s \in Slots :
       At(s, "rows") /\ calls'[s].pc = "ok" =>
         \A k \in Activities :
           \/ rows'[Me][k] = calls[s].body[k]
           \/ calls[s].body[k] = None /\ rows'[Me][k] = calls[s].theirs[k]]_vars

\* A save removes nothing that its page had loaded and the user left ticked.  A
\* page whose load failed has loaded nothing (page.tsx:104).
KeepsTicked ==
  [][\A s \in Slots, k \in Activities :
       At(s, "rows") /\ calls'[s].pc = "ok" /\ k \in calls[s].keeps => rows'[Me][k] # None]_vars

\* Every save ends, lock cycles and losses included: a tab is always sooner or
\* later without one, and both its buttons work.
SavesEnd == \A t \in Tabs : []<>(screen[t].saving = {})
=============================================================================
