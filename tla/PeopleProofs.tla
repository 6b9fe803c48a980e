----------------------------- MODULE PeopleProofs -----------------------------
(***************************************************************************)
(* Theorems about the profile page, for any number of tabs, calls at once, *)
(* activities, users, attempts, losses and gestures.                       *)
(***************************************************************************)
EXTENDS ProfilePage, TLAPS

-----------------------------------------------------------------------------
(* Shapes *)

Bodies == {None} \cup Form \cup Selection \cup Int
CallSet ==
  [op : Ops \cup {None}, tab : Tabs \cup {None}, caller : {"page", "tab", "nobody"},
   pc : Pcs \cup {None}, attempt : 1..MaxAttempts, body : Bodies,
   targets : SUBSET Activities, held : SUBSET Activities, want : Activities \cup {None},
   theirs : Selection, keeps : SUBSET Activities, sole : BOOLEAN]
ScreenSet ==
  [at : {"profile", "activities", "ready"}, form : Form, sel : Selection,
   saving : SUBSET Sections, loc : {"idle", "saving", "saved", "error"},
   clean : SUBSET Sections, kept : SUBSET Activities]
SearchSet ==
  [by : Users \cup {None}, activity : Activities \cup {None},
   pc : {None, "check", "query", "shown"}, knew : SUBSET {"profile", "place", "block"},
   found : SUBSET Users]

\* Between statements a call holds no row, waits for none, and has none to delete.
Idle(c) == c.held = {} /\ c.targets = {} /\ c.want = None
\* What is true of a call by itself.
Sound(c) ==
  /\ c \in CallSet
  /\ c.op = None <=> c.pc = None
  /\ c.op # None => c.tab \in Tabs
  /\ c.op = "profile" => c.body \in Form
  /\ c.op = "activities" => c.body \in Selection /\ \A k \in c.keeps : c.body[k] # None
  /\ c.pc = "rows" => c.op = "activities"
  /\ c.pc = "geo" => c.op = "locate"
  /\ c.pc # "rows" => Idle(c)
\* What a page has loaded and not seen unticked is ticked.
Ticked(p) == p \in ScreenSet /\ \A k \in p.kept : p.sel[k] # None

Shapes ==
  /\ calls \in [Slots -> CallSet] /\ \A s \in Slots : Sound(calls[s])
  /\ screen \in [Tabs -> ScreenSet] /\ \A t \in Tabs : Ticked(screen[t])
  /\ search \in SearchSet /\ withdrawn \subseteq {"profile", "place"}
  /\ profile \in [Users -> Form \cup {None}] /\ rows \in [Users -> Selection]
  /\ place \in [Users -> Places \cup {None}]

\* A transaction waits for a row it is to write, and no two have the same.
Locks ==
  \A s \in Slots :
    /\ calls[s].want # None => calls[s].want \in ToDo(s)
    /\ \A g \in Slots \ {s} : calls[s].held \cap calls[g].held = {}

\* What a call has done is still there while nobody else has committed.
Stored(s) ==
  calls[s].sole =>
    /\ At(s, "ok") /\ calls[s].op = "profile" => profile[Me] = calls[s].body
    /\ At(s, "ok") /\ calls[s].op = "activities" => rows[Me] = calls[s].body
    /\ At(s, "ok") /\ calls[s].op = "clear" => place[Me] = None
    /\ At(s, "rows") => calls[s].theirs = NothingPicked
\* What a save has neither deleted nor written is as the others have left it.
Left(s) ==
  At(s, "rows") =>
    \A k \in Activities \ (Chosen(s) \cup calls[s].targets \cup calls[s].held) :
      rows[Me][k] = calls[s].theirs[k]

\* What Me has been told is so, and no call under way will undo it.
Known == withdrawn \cup search.knew
Gone ==
  /\ "profile" \in Known =>
       /\ ~(profile[Me] # None /\ Visible(profile[Me]))
       /\ \A s \in Slots : calls[s].op # "profile"
  /\ "place" \in Known =>
       /\ place[Me] = None
       /\ \A s \in Slots : calls[s].op = "locate" => At(s, "geo")

\* A search that began after that does not find her.
Unseen ==
  /\ "block" \in search.knew => BlockedEitherWay(search.by, Me)
  /\ search.knew # {} => Me \notin search.found

\* An unused slot.
LEMMA NoCallSound == Sound(NoCall) /\ NoCall.op = None /\ NoCall.pc = None /\ Idle(NoCall)
<1>1. NothingPicked \in Selection
  BY DEF NothingPicked, Selection
<1> QED
  BY <1>1, PeopleAssumption, PageAssumption DEF NoCall, Sound, CallSet, Bodies, Idle, Ops, Pcs

\* What a free slot is.
LEMMA NextSlotFree == Free # {} => NextSlot \in Slots /\ calls[NextSlot] = NoCall
  BY DEF Free, NextSlot

\* A request as it begins.
LEMMA NewCallIs ==
  ASSUME NEW t \in Tabs, NEW op \in Ops, NEW body \in Bodies
  PROVE  LET c == NewCall(t, op, body) IN
         /\ c \in CallSet /\ Idle(c)
         /\ c.op = op /\ c.tab = t /\ c.pc = "begin" /\ c.body = body /\ c.keeps = {}
<1>1. /\ NoCall.attempt \in 1..MaxAttempts /\ NoCall.sole \in BOOLEAN /\ NoCall.keeps = {}
      /\ NoCall \in CallSet /\ Idle(NoCall)
  BY NoCallSound DEF Sound, CallSet, NoCall
<1>2. "begin" \in Pcs
  BY DEF Pcs
<1> QED
  BY <1>1, <1>2 DEF NewCall, CallSet, Idle

\* The next attempt, or the last one's failure.
LEMMA AgainIs ==
  ASSUME NEW s \in Slots, Sound(calls[s]), Alive(s)
  PROVE  LET d == Again(s) IN
         /\ Sound(d) /\ Idle(d) /\ d.pc \in {"begin", "failed"} /\ d.op = calls[s].op
         /\ calls[s].pc # "geo"
<1> DEFINE c == calls[s]
<1>1. /\ c \in CallSet /\ c.op \in Ops /\ c.tab \in Tabs /\ c.body \in Bodies
      /\ c.pc \in {"begin", "rows", "ok", "no"}
  BY PeopleAssumption DEF Sound, Alive, CallSet, Pcs
<1>2. CASE c.attempt < MaxAttempts
  <2> DEFINE n == c.attempt + 1
             new == NewCall(c.tab, c.op, c.body)
             d == [new EXCEPT !.caller = c.caller, !.keeps = c.keeps, !.attempt = n]
  <2>1. n \in 1..MaxAttempts
    BY <1>1, <1>2, PageAssumption DEF CallSet
  <2>2. /\ new \in CallSet /\ Idle(new) /\ new.op = c.op /\ new.tab = c.tab /\ new.pc = "begin"
        /\ new.body = c.body
    BY <1>1, NewCallIs
  <2>3. Again(s) = d
    BY <1>2 DEF Again
  <2> HIDE DEF n, new
  <2>4. d \in CallSet
    BY <1>1, <2>1, <2>2 DEF CallSet
  <2>5. /\ d.op = c.op /\ d.tab = c.tab /\ d.pc = "begin" /\ d.body = c.body /\ d.keeps = c.keeps
        /\ Idle(d)
    BY <2>2 DEF CallSet, Idle
  <2> HIDE DEF d
  <2>6. Sound(d)
    BY <1>1, <2>4, <2>5, PeopleAssumption DEF Sound, Ops, Pcs
  <2> QED
    BY <1>1, <2>3, <2>5, <2>6
<1>3. CASE ~(c.attempt < MaxAttempts)
  <2> DEFINE d == [c EXCEPT !.pc = "failed", !.held = {}, !.targets = {}, !.want = None,
                            !.theirs = NothingPicked]
  <2>1. Again(s) = d
    BY <1>3 DEF Again
  <2>2. d \in CallSet
    BY <1>1 DEF CallSet, Pcs, Selection, NothingPicked
  <2>3. /\ d.op = c.op /\ d.tab = c.tab /\ d.pc = "failed" /\ d.body = c.body /\ d.keeps = c.keeps
        /\ Idle(d)
    BY <1>1 DEF CallSet, Idle
  <2> HIDE DEF d
  <2>4. Sound(d)
    BY <1>1, <2>2, <2>3, PeopleAssumption DEF Sound, Ops, Pcs
  <2> QED
    BY <1>1, <2>1, <2>3, <2>4
<1> QED
  BY <1>2, <1>3

-----------------------------------------------------------------------------
(* What the steps do to the calls. *)

\* The step changes at most who hears of the call.
Kept(g) ==
  /\ Sound(calls'[g])
  /\ calls'[g].op = calls[g].op /\ calls'[g].pc = calls[g].pc /\ calls'[g].body = calls[g].body
  /\ calls'[g].targets = calls[g].targets /\ calls'[g].held = calls[g].held
  /\ calls'[g].want = calls[g].want /\ calls'[g].keeps = calls[g].keeps
  /\ calls'[g].sole = calls[g].sole /\ calls'[g].theirs = calls[g].theirs
\* The call ends, begins, or begins again: nothing of it is done.
Reset(g) ==
  /\ Sound(calls'[g]) /\ Idle(calls'[g]) /\ calls'[g].pc \in {None, "geo", "begin", "failed"}
\* Who writes the profile or the place has asked for it.
Asked(g) ==
  calls'[g].op \in {"profile", "locate"} /\ calls'[g].pc # "geo" =>
    \/ Section(calls'[g].op) \notin Known'
    \/ \E s \in Slots : calls[s].op = calls'[g].op /\ calls[s].pc # "geo"
Quiet ==
  /\ UNCHANGED tables /\ calls' \in [Slots -> CallSet]
  /\ \A g \in Slots : Kept(g) \/ (Reset(g) /\ Asked(g))

\* A step that leaves the calls alone.
LEMMA CallsStand ==
  ASSUME Shapes, UNCHANGED <<tables, calls>>
  PROVE  Quiet
  BY DEF Shapes, Quiet, Kept

\* A call that ends.
LEMMA EndQuiet ==
  ASSUME Shapes, NEW s \in Slots, UNCHANGED tables, calls' = [calls EXCEPT ![s] = NoCall]
  PROVE  Quiet
<1>1. Reset(s) /\ Asked(s)
  BY NoCallSound, PeopleAssumption DEF Shapes, Reset, Asked, Ops
<1>2. \A g \in Slots : g # s => Kept(g)
  BY DEF Shapes, Kept
<1> QED
  BY <1>1, <1>2, NoCallSound DEF Quiet, Sound, Shapes

\* A button that sends a request.
LEMMA ClickQuiet ==
  ASSUME Shapes, NEW t \in Tabs, NEW after, NEW c, Click(t, c, after),
         Sound(c), Idle(c), c.pc \in {"geo", "begin"},
         c.op \in {"profile", "locate"} /\ c.pc # "geo" => Section(c.op) \notin Known'
  PROVE  Quiet
<1>1. /\ NextSlot \in Slots /\ calls' = [calls EXCEPT ![NextSlot] = c] /\ UNCHANGED tables
  BY NextSlotFree DEF Click
<1>2. Reset(NextSlot) /\ Asked(NextSlot)
  BY <1>1 DEF Shapes, Reset, Asked
<1>3. \A g \in Slots : g # NextSlot => Kept(g)
  BY <1>1 DEF Shapes, Kept
<1> QED
  BY <1>1, <1>2, <1>3 DEF Quiet, Sound, Shapes

\* The five buttons.
LEMMA ButtonsQuiet ==
  ASSUME Shapes, NEW t \in Tabs,
         \/ SaveProfile(t) \/ SaveActivities(t) \/ UseBrowserLocation(t) \/ ManualLocation(t)
         \/ ClearMyLocation(t)
  PROVE  Quiet
<1>1. /\ screen[t].form \in Form /\ screen[t].sel \in Selection /\ screen[t].kept \subseteq Activities
      /\ \A k \in screen[t].kept : screen[t].sel[k] # None
  BY DEF Shapes, ScreenSet, Ticked
<1>2. /\ screen[t].form \in Bodies /\ screen[t].sel \in Bodies /\ 0 \in Bodies /\ OutOfRange \in Bodies
      /\ None \in Bodies
  BY <1>1 DEF Bodies, OutOfRange
<1>3. CASE SaveProfile(t)
  <2> DEFINE c == NewCall(t, "profile", screen[t].form)
  <2>1. /\ c \in CallSet /\ Idle(c) /\ c.op = "profile" /\ c.tab = t /\ c.pc = "begin"
        /\ c.body = screen[t].form
    BY <1>2, NewCallIs DEF Ops
  <2>2. Click(t, c, [screen[t] EXCEPT !.saving = @ \cup {"profile"}])
    BY <1>3 DEF SaveProfile
  <2>3. "profile" \notin Known'
    BY <1>3 DEF SaveProfile, Undo, Known, Shapes, SearchSet
  <2> HIDE DEF c
  <2>4. Sound(c)
    BY <1>1, <2>1, PeopleAssumption DEF Sound, Ops, Pcs
  <2> QED
    BY <2>1, <2>2, <2>3, <2>4, ClickQuiet DEF Section
<1>4. CASE SaveActivities(t)
  <2> DEFINE new == NewCall(t, "activities", screen[t].sel)
             c == [new EXCEPT !.keeps = screen[t].kept]
  <2>1. /\ new \in CallSet /\ Idle(new) /\ new.op = "activities" /\ new.tab = t /\ new.pc = "begin"
        /\ new.body = screen[t].sel
    BY <1>2, NewCallIs DEF Ops
  <2>2. Click(t, c, [screen[t] EXCEPT !.saving = @ \cup {"activities"}])
    BY <1>4 DEF SaveActivities
  <2> HIDE DEF new
  <2>3. /\ c \in CallSet /\ Idle(c) /\ c.op = "activities" /\ c.tab = t /\ c.pc = "begin"
        /\ c.body = screen[t].sel /\ c.keeps = screen[t].kept
    BY <1>1, <2>1 DEF CallSet, Idle
  <2> HIDE DEF c
  <2>4. Sound(c)
    BY <1>1, <2>3, PeopleAssumption DEF Sound, Ops, Pcs
  <2> QED
    BY <2>2, <2>3, <2>4, ClickQuiet
<1>5. CASE UseBrowserLocation(t)
  <2> DEFINE new == NewCall(t, "locate", 0)
             c == [new EXCEPT !.pc = "geo"]
  <2>1. /\ new \in CallSet /\ Idle(new) /\ new.op = "locate" /\ new.tab = t
    BY <1>2, NewCallIs DEF Ops
  <2>2. Click(t, c, [screen[t] EXCEPT !.loc = "saving"])
    BY <1>5 DEF UseBrowserLocation
  <2> HIDE DEF new
  <2>3. c \in CallSet /\ Idle(c) /\ c.op = "locate" /\ c.tab = t /\ c.pc = "geo"
    BY <2>1 DEF CallSet, Idle, Pcs
  <2> HIDE DEF c
  <2>4. Sound(c)
    BY <2>3, PeopleAssumption DEF Sound, Ops, Pcs
  <2> QED
    BY <2>2, <2>3, <2>4, ClickQuiet
<1>6. CASE ManualLocation(t)
  <2>1. PICK at \in {0, OutOfRange} :
          Click(t, NewCall(t, "locate", at), [screen[t] EXCEPT !.loc = "saving"])
    BY <1>6 DEF ManualLocation
  <2> DEFINE c == NewCall(t, "locate", at)
  <2>2. c \in CallSet /\ Idle(c) /\ c.op = "locate" /\ c.tab = t /\ c.pc = "begin"
    BY <1>2, NewCallIs DEF Ops
  <2>3. "place" \notin Known'
    BY <1>6 DEF ManualLocation, Undo, Known, Shapes, SearchSet
  <2>4. Click(t, c, [screen[t] EXCEPT !.loc = "saving"])
    BY <2>1
  <2> HIDE DEF c
  <2>5. Sound(c)
    BY <2>2, PeopleAssumption DEF Sound, Ops, Pcs
  <2> QED
    BY <2>2, <2>3, <2>4, <2>5, ClickQuiet DEF Section
<1>7. CASE ClearMyLocation(t)
  <2> DEFINE c == NewCall(t, "clear", None)
  <2>1. c \in CallSet /\ Idle(c) /\ c.op = "clear" /\ c.tab = t /\ c.pc = "begin"
    BY <1>2, NewCallIs DEF Ops
  <2>2. Click(t, c, [screen[t] EXCEPT !.loc = "saving"])
    BY <1>7 DEF ClearMyLocation
  <2> HIDE DEF c
  <2>3. Sound(c)
    BY <2>1, PeopleAssumption DEF Sound, Ops, Pcs
  <2> QED
    BY <2>1, <2>2, <2>3, ClickQuiet
<1> QED
  BY <1>3, <1>4, <1>5, <1>6, <1>7

\* Leaving the page.
LEMMA VisitQuiet ==
  ASSUME Shapes, NEW t \in Tabs, Visit(t)
  PROVE  Quiet
<1>1. ASSUME NEW g \in Slots PROVE calls'[g] \in CallSet /\ Kept(g)
  <2>1. Sound(calls[g]) /\ calls[g] \in CallSet
    BY DEF Shapes
  <2>2. calls'[g] \in {calls[g], [calls[g] EXCEPT !.caller = "tab"]}
    BY DEF Visit
  <2>3. /\ calls'[g] \in CallSet /\ calls'[g].tab = calls[g].tab
        /\ calls'[g].op = calls[g].op /\ calls'[g].pc = calls[g].pc /\ calls'[g].body = calls[g].body
        /\ calls'[g].targets = calls[g].targets /\ calls'[g].held = calls[g].held
        /\ calls'[g].want = calls[g].want /\ calls'[g].keeps = calls[g].keeps
        /\ calls'[g].sole = calls[g].sole /\ calls'[g].theirs = calls[g].theirs
    BY <2>1, <2>2 DEF CallSet
  <2> QED
    BY <2>1, <2>3 DEF Kept, Sound, Idle
<1>2. calls' = [g \in Slots |-> calls'[g]]
  BY DEF Visit
<1> QED
  BY <1>1, <1>2 DEF Quiet, Visit

\* The browser's answer.
LEMMA PositionQuiet ==
  ASSUME Shapes, NEW s \in Slots, PositionFound(s) \/ PositionFails(s)
  PROVE  Quiet
<1>1. CASE PositionFound(s)
  <2> DEFINE c == calls[s]
             d == [c EXCEPT !.pc = "begin"]
  <2>1. c \in CallSet /\ Sound(c) /\ c.pc = "geo" /\ c.op = "locate" /\ Idle(c)
    BY <1>1 DEF Shapes, Sound, PositionFound, At
  <2>2. d \in CallSet /\ Idle(d) /\ d.op = "locate" /\ d.pc = "begin" /\ d.tab = c.tab
    BY <2>1 DEF CallSet, Idle, Pcs
  <2>3. calls' = [calls EXCEPT ![s] = d] /\ UNCHANGED tables
    BY <1>1 DEF PositionFound, Goto
  <2>4. Sound(d)
    BY <2>1, <2>2, PeopleAssumption DEF Sound, Ops, Pcs
  <2>5. "place" \notin Known'
    BY <1>1 DEF PositionFound, Undo, Known, Shapes, SearchSet
  <2> HIDE DEF d
  <2>6. Reset(s) /\ Asked(s)
    BY <2>2, <2>3, <2>4, <2>5 DEF Reset, Asked, Section, Shapes
  <2>7. \A g \in Slots : g # s => Kept(g)
    BY <2>3 DEF Shapes, Kept
  <2> QED
    BY <2>2, <2>3, <2>6, <2>7 DEF Quiet, Shapes
<1>2. CASE PositionFails(s)
  BY <1>2, EndQuiet DEF PositionFails
<1> QED
  BY <1>1, <1>2

\* Losses.
LEMMA LossQuiet ==
  ASSUME Shapes, NEW s \in Slots, Lose(s) \/ LoseRunning(s)
  PROVE  Quiet
<1> DEFINE d == Again(s)
<1>1. /\ Sound(d) /\ Idle(d) /\ d.pc \in {"begin", "failed"} /\ d.op = calls[s].op
      /\ calls[s].pc # "geo" /\ d \in CallSet
  BY AgainIs DEF Shapes, Lose, LoseRunning, Sound
<1> HIDE DEF d
<1>2. CASE Lose(s)
  <2>1. calls' = [calls EXCEPT ![s] = d] /\ UNCHANGED tables
    BY <1>2 DEF Lose, d
  <2>2. Reset(s) /\ Asked(s)
    BY <1>1, <2>1 DEF Reset, Asked, Shapes
  <2>3. \A g \in Slots : g # s => Kept(g)
    BY <2>1 DEF Shapes, Kept
  <2> QED
    BY <1>1, <2>1, <2>2, <2>3 DEF Quiet, Shapes
<1>3. CASE LoseRunning(s)
  <2> DEFINE n == NextSlot
             c == [calls[s] EXCEPT !.caller = "nobody"]
  <2>1. n \in Slots /\ calls[n] = NoCall
    BY <1>3, NextSlotFree DEF LoseRunning
  <2>2. n # s
    BY <1>3, <2>1, NoCallSound, PeopleAssumption DEF LoseRunning, Pcs
  <2>3. /\ c \in CallSet /\ c.tab = calls[s].tab
        /\ c.op = calls[s].op /\ c.pc = calls[s].pc /\ c.body = calls[s].body
        /\ c.targets = calls[s].targets /\ c.held = calls[s].held
        /\ c.want = calls[s].want /\ c.keeps = calls[s].keeps /\ c.sole = calls[s].sole
        /\ c.theirs = calls[s].theirs
    BY DEF Shapes, CallSet
  <2>4. calls' = [calls EXCEPT ![s] = c, ![n] = d] /\ UNCHANGED tables
    BY <1>3 DEF LoseRunning, d
  <2> HIDE DEF n, c
  <2>5. calls' \in [Slots -> CallSet] /\ calls'[n] = d /\ calls'[s] = c
        /\ \A g \in Slots \ {s, n} : calls'[g] = calls[g]
    BY <1>1, <2>1, <2>2, <2>3, <2>4 DEF Shapes
  <2>6. Kept(s)
    BY <2>3, <2>5 DEF Kept, Shapes, Sound, Idle
  <2>7. Reset(n) /\ Asked(n)
    BY <1>1, <2>5 DEF Reset, Asked
  <2>8. \A g \in Slots \ {s, n} : Kept(g)
    BY <2>5 DEF Shapes, Kept
  <2> QED
    BY <2>4, <2>5, <2>6, <2>7, <2>8 DEF Quiet
<1> QED
  BY <1>2, <1>3

\* All steps but the server's.
LEMMA Quiets ==
  ASSUME Shapes, [Next]_vars, \A s \in Slots : ~Served(s)
  PROVE  Quiet
<1>1. ASSUME NEW t \in Tabs, NEW section, NEW after, Edit(t, section, after) PROVE Quiet
  BY <1>1, CallsStand DEF Edit, people
<1>2. ASSUME NEW t \in Tabs, Load(t) \/ LoadFailed(t) PROVE Quiet
  BY <1>2, CallsStand DEF Load, LoadedProfile, LoadedActivities, ShowActivities, LoadFailed, people
<1>3. ASSUME NEW t \in Tabs, Gesture(t) PROVE Quiet
  BY <1>1, <1>3, VisitQuiet, ButtonsQuiet
     DEF Gesture, Toggle, SetAvailability, SetDiscoverable, SetHidden
<1>4. ASSUME NEW s \in Slots, Answered(s) \/ Refused(s) PROVE Quiet
  BY <1>4, EndQuiet DEF Answered, Refused, Ends
<1>5. ASSUME NEW s \in Slots, PositionFound(s) \/ Fault(s) PROVE Quiet
  BY <1>5, PositionQuiet, LossQuiet DEF Fault
<1>6. ASSUME Searching PROVE Quiet
  BY <1>6, CallsStand DEF Searching, Search, CheckLocation, Query, SearchFails, SearchAgain
<1>7. ASSUME UNCHANGED vars PROVE Quiet
  BY <1>7, CallsStand DEF vars, people
<1> QED
  BY <1>2, <1>3, <1>4, <1>5, <1>6, <1>7 DEF Next, Step

-----------------------------------------------------------------------------
(* What the server does to the calls. *)

\* A step of one call.
Moved(s, d) ==
  /\ calls' = [calls EXCEPT ![s] = d] /\ Sound(d)
  /\ d.op = calls[s].op /\ d.body = calls[s].body /\ d.keeps = calls[s].keeps

\* Only the call that moves changes.
LEMMA MovedIs ==
  ASSUME Shapes, NEW s \in Slots, NEW d, Moved(s, d)
  PROVE  /\ calls' \in [Slots -> CallSet] /\ \A g \in Slots : Sound(calls'[g])
         /\ calls'[s] = d /\ \A g \in Slots : g # s => calls'[g] = calls[g]
  BY DEF Shapes, Moved, Sound

\* The deletion's snapshot.
LEMMA ScanIs ==
  ASSUME Shapes, NEW s \in Slots, SetScan(s)
  PROVE  \E d : /\ Moved(s, d) /\ d.pc = "rows" /\ d.held = {} /\ d.want = None
                /\ d.theirs = NothingPicked
                /\ d.targets = {k \in Activities \ Chosen(s) : rows[Me][k] # None}
<1> DEFINE c == calls[s]
           T == {k \in Activities \ Chosen(s) : rows[Me][k] # None}
           d == [c EXCEPT !.pc = "rows", !.sole = TRUE, !.theirs = NothingPicked, !.targets = T]
<1>1. c \in CallSet /\ Sound(c) /\ c.pc = "begin" /\ c.op = "activities" /\ Idle(c)
  BY DEF Shapes, SetScan, Scan, At, Sound
<1>2. calls' = [calls EXCEPT ![s] = d]
  BY DEF SetScan, Scan
<1>3. T \in SUBSET Activities
  OBVIOUS
<1> HIDE DEF T
<1>4. d \in CallSet
  BY <1>1, <1>3 DEF CallSet, Pcs, Selection, NothingPicked
<1>5. /\ d.op = c.op /\ d.tab = c.tab /\ d.body = c.body /\ d.keeps = c.keeps /\ d.pc = "rows"
      /\ d.held = {} /\ d.want = None /\ d.targets = T /\ d.theirs = NothingPicked
  BY <1>1 DEF CallSet, Idle
<1> HIDE DEF d
<1>6. Sound(d)
  BY <1>1, <1>4, <1>5, PeopleAssumption DEF Sound, Ops, Pcs
<1> QED
  BY <1>2, <1>5, <1>6 DEF Moved, T

\* A row more is locked, or waited for.
LEMMA RowIs ==
  ASSUME Shapes, NEW s \in Slots, SetRow(s)
  PROVE  \E k, d :
           /\ k \in ToDo(s) /\ Moved(s, d) /\ d.pc = "rows" /\ calls[s].pc = "rows" /\ d.sole = calls[s].sole
           /\ d.theirs = calls[s].theirs /\ calls[s].want \in {None, k}
           /\ IF Locked(s, k) THEN d.want = k /\ d.held = calls[s].held /\ d.targets = calls[s].targets
              ELSE /\ d.want = None /\ d.held = calls[s].held \cup {k}
                   /\ d.targets = calls[s].targets \ {k}
<1> DEFINE c == calls[s]
<1>1. c \in CallSet /\ Sound(c) /\ c.pc = "rows" /\ c.op = "activities"
  BY DEF Shapes, SetRow, At, Sound
<1>2. PICK k \in ToDo(s) :
        /\ c.want \in {None, k}
        /\ calls' = IF Locked(s, k) THEN [calls EXCEPT ![s].want = k]
                    ELSE [calls EXCEPT ![s].held = @ \cup {k}, ![s].targets = @ \ {k}, ![s].want = None]
  BY DEF SetRow
<1>3. k \in Activities
  BY <1>1 DEF ToDo, Chosen, CallSet
<1> DEFINE d == IF Locked(s, k) THEN [c EXCEPT !.want = k]
                ELSE [c EXCEPT !.held = @ \cup {k}, !.targets = @ \ {k}, !.want = None]
<1>4. calls' = [calls EXCEPT ![s] = d]
  BY <1>1, <1>2 DEF CallSet
<1>5. d \in CallSet
  BY <1>1, <1>3 DEF CallSet
<1>6. /\ d.op = c.op /\ d.tab = c.tab /\ d.body = c.body /\ d.keeps = c.keeps /\ d.pc = "rows"
      /\ d.sole = c.sole /\ d.theirs = c.theirs
      /\ IF Locked(s, k) THEN d.want = k /\ d.held = c.held /\ d.targets = c.targets
         ELSE d.want = None /\ d.held = c.held \cup {k} /\ d.targets = c.targets \ {k}
  BY <1>1 DEF CallSet
<1> HIDE DEF d
<1>7. Sound(d)
  BY <1>1, <1>5, <1>6, PeopleAssumption DEF Sound, Ops, Pcs
<1> QED
  BY <1>1, <1>2, <1>4, <1>6, <1>7 DEF Moved

\* The loser of a lock cycle.
LEMMA VictimIs ==
  ASSUME Shapes, NEW s \in Slots, DeadlockVictim(s)
  PROVE  \E d : Moved(s, d) /\ d.pc = "no" /\ Idle(d)
<1> DEFINE c == calls[s]
           d == [c EXCEPT !.pc = "no", !.held = {}, !.targets = {}, !.want = None,
                          !.theirs = NothingPicked]
<1>1. \E h \in Slots : c.want \in calls[h].held
  BY DEF DeadlockVictim, Deadlocked
<1>2. c \in CallSet /\ Sound(c) /\ c.want # None
  BY <1>1, PeopleAssumption DEF Shapes, CallSet
<1>3. c.pc = "rows" /\ c.op = "activities"
  BY <1>2 DEF Sound, Idle
<1>4. calls' = [calls EXCEPT ![s] = d]
  BY DEF DeadlockVictim
<1>5. d \in CallSet
  BY <1>2 DEF CallSet, Pcs, Selection, NothingPicked
<1>6. /\ d.op = c.op /\ d.tab = c.tab /\ d.body = c.body /\ d.keeps = c.keeps /\ d.pc = "no" /\ Idle(d)
  BY <1>2 DEF CallSet, Idle
<1> HIDE DEF d
<1>7. Sound(d)
  BY <1>2, <1>3, <1>5, <1>6, PeopleAssumption DEF Sound, Ops, Pcs
<1> QED
  BY <1>4, <1>6, <1>7 DEF Moved

\* The call is told of the commit of s, and loses what that has deleted.
Learns(g, s) ==
  LET gone == calls[s].held \ Chosen(s) IN
  /\ Sound(calls'[g])
  /\ calls'[g].op = calls[g].op /\ calls'[g].pc = calls[g].pc /\ calls'[g].body = calls[g].body
  /\ calls'[g].keeps = calls[g].keeps /\ calls'[g].held = calls[g].held /\ ~calls'[g].sole
  /\ \A k \in Activities :
       calls'[g].theirs[k] = IF k \in calls[s].held THEN calls[s].body[k] ELSE calls[g].theirs[k]
  /\ calls'[g].targets = calls[g].targets \ gone
  /\ calls'[g].want = IF calls[g].want \in calls[g].targets \cap gone THEN None ELSE calls[g].want

\* A commit of setMyActivities.
LEMMA CommitIs ==
  ASSUME Shapes, NEW s \in Slots, SetCommit(s)
  PROVE  /\ calls' \in [Slots -> CallSet]
         /\ calls[s].pc = "rows" /\ calls[s].op = "activities"
         /\ ToDo(s) = {} => calls[s].targets = {} /\ Chosen(s) \subseteq calls[s].held
         /\ calls'[s].sole = calls[s].sole /\ calls'[s].op = "activities"
         /\ calls'[s].body = calls[s].body /\ calls'[s].pc = "ok" /\ calls'[s].held = {}
         /\ calls'[s].targets = calls[s].targets /\ calls'[s].want = calls[s].want
         /\ (calls[s].want = None /\ calls[s].targets = {} => Sound(calls'[s]))
         /\ \A g \in Slots : g # s =>
              IF Told(s, g) THEN Learns(g, s) ELSE calls'[g] = calls[g]
<1> DEFINE c == calls[s]
           d == [c EXCEPT !.pc = "ok", !.held = {}, !.theirs = NothingPicked]
           gone == c.held \ Chosen(s)
           after(g) == IF g = s THEN d ELSE IF Told(s, g) THEN Overtaken(calls[g], s) ELSE calls[g]
<1>1. c \in CallSet /\ Sound(c) /\ c.pc = "rows" /\ c.op = "activities"
  BY DEF Shapes, SetCommit, At, Sound
<1>2. calls' = [g \in Slots |-> after(g)]
  BY DEF SetCommit
<1>3. /\ d \in CallSet /\ d.op = c.op /\ d.tab = c.tab /\ d.body = c.body /\ d.keeps = c.keeps
      /\ d.pc = "ok" /\ d.held = {} /\ d.targets = c.targets /\ d.want = c.want /\ d.sole = c.sole
  BY <1>1 DEF CallSet, Pcs, Selection, NothingPicked
<1>4. calls'[s] = d
  BY <1>2
<1> HIDE DEF d, gone
<1>5. c.want = None /\ c.targets = {} => Sound(d)
  BY <1>1, <1>3, PeopleAssumption DEF Sound, Idle, Ops, Pcs
<1>6. ASSUME NEW g \in Slots, g # s, Told(s, g)
      PROVE  calls'[g] \in CallSet /\ Learns(g, s)
  <2> DEFINE b == calls[g]
             w == Written(s, b.theirs)
             e == [b EXCEPT !.sole = FALSE, !.theirs = w, !.targets = @ \ gone,
                            !.want = IF @ \in b.targets \cap gone THEN None ELSE @]
  <2>1. b \in CallSet /\ Sound(b) /\ b.theirs \in Selection /\ c.body \in Selection
    BY <1>1 DEF Shapes, CallSet, Sound
  <2>2. calls'[g] = e
    BY <1>2, <1>6, <2>1 DEF Overtaken, gone, CallSet
  <2>3. /\ w \in Selection
        /\ \A k \in Activities : w[k] = IF k \in c.held THEN c.body[k] ELSE b.theirs[k]
    BY <2>1 DEF Written, Selection
  <2> HIDE DEF w
  <2>4. /\ e \in CallSet /\ e.op = b.op /\ e.tab = b.tab /\ e.body = b.body /\ e.keeps = b.keeps
        /\ e.pc = b.pc /\ e.held = b.held /\ e.targets = b.targets \ gone /\ ~e.sole
        /\ e.want = (IF b.want \in b.targets \cap gone THEN None ELSE b.want) /\ e.theirs = w
    BY <2>1, <2>3 DEF CallSet
  <2> HIDE DEF e
  <2>5. Sound(e)
    BY <2>1, <2>4 DEF Sound, Idle
  <2> QED
    BY <2>2, <2>3, <2>4, <2>5 DEF Learns, gone
<1>7. \A g \in Slots : g # s /\ ~Told(s, g) => calls'[g] = calls[g]
  BY <1>2
<1>8. calls' \in [Slots -> CallSet]
  <2>1. \A g \in Slots : calls'[g] \in CallSet
    BY <1>3, <1>4, <1>6, <1>7 DEF Shapes
  <2> QED
    BY <1>2, <2>1
<1>9. ToDo(s) = {} => c.targets = {} /\ Chosen(s) \subseteq c.held
  BY DEF ToDo
<1> QED
  BY <1>1, <1>3, <1>4, <1>5, <1>6, <1>7, <1>8, <1>9 DEF gone

\* The rows a commit of setMyActivities leaves.
LEMMA CommittedRows ==
  ASSUME Shapes, Locks, NEW s \in Slots, SetCommit(s)
  PROVE  /\ ToDo(s) = {} /\ calls[s].want = None /\ UNCHANGED <<profile, place>>
         /\ rows' \in [Users -> Selection] /\ Chosen(s) \subseteq Activities
         /\ \A k \in Activities :
              rows'[Me][k] = IF k \in calls[s].held THEN calls[s].body[k] ELSE rows[Me][k]
<1>1. ToDo(s) = {} /\ UNCHANGED <<profile, place>>
  BY DEF SetCommit
<1>2. calls[s].want = None
  BY <1>1 DEF Locks
<1>3. calls[s].body \in Selection
  BY CommitIs DEF Shapes, Sound
<1> DEFINE after == [k \in Activities |-> IF k \in calls[s].held THEN calls[s].body[k] ELSE rows[Me][k]]
<1>4. Me \in Users /\ rows \in [Users -> Selection] /\ rows[Me] \in Selection
  BY PeopleAssumption DEF Shapes
<1>5. rows' = [rows EXCEPT ![Me] = after]
  BY <1>4 DEF SetCommit, Written
<1>6. after \in Selection
  BY <1>3, <1>4 DEF Selection
<1>7. rows' \in [Users -> Selection] /\ rows'[Me] = after
  BY <1>4, <1>5, <1>6
<1> QED
  BY <1>1, <1>2, <1>7 DEF Chosen

\* The routes of one statement.
LEMMA ExecutedIs ==
  ASSUME Shapes, NEW s \in Slots, NEW pc \in {"ok", "no"}, Executed(s, pc), At(s, "begin"),
         calls[s].op \in {"profile", "locate", "clear"}
  PROVE  /\ calls' \in [Slots -> CallSet] /\ \A g \in Slots : Sound(calls'[g])
         /\ calls'[s].pc = pc /\ \A g \in Slots : g # s => calls'[g].pc = calls[g].pc
         /\ \A g \in Slots :
              /\ calls'[g].op = calls[g].op /\ calls'[g].body = calls[g].body
              /\ calls'[g].targets = calls[g].targets /\ calls'[g].held = calls[g].held
              /\ calls'[g].want = calls[g].want /\ calls'[g].theirs = calls[g].theirs
              /\ g # s => calls'[g].sole = (calls[g].sole /\ ~(pc = "ok" /\ Told(s, g)))
<1> DEFINE after(g) == IF g = s THEN [calls[s] EXCEPT !.pc = pc, !.sole = TRUE]
                       ELSE IF pc = "ok" /\ Told(s, g) THEN [calls[g] EXCEPT !.sole = FALSE] ELSE calls[g]
<1>1. calls' = [g \in Slots |-> after(g)]
  BY DEF Executed
<1>2. ASSUME NEW g \in Slots
      PROVE  /\ after(g) \in CallSet /\ Sound(after(g))
             /\ after(g).pc = IF g = s THEN pc ELSE calls[g].pc
             /\ after(g).op = calls[g].op /\ after(g).body = calls[g].body
             /\ after(g).targets = calls[g].targets /\ after(g).held = calls[g].held
             /\ after(g).want = calls[g].want /\ after(g).theirs = calls[g].theirs
             /\ g # s => after(g).sole = (calls[g].sole /\ ~(pc = "ok" /\ Told(s, g)))
  <2> DEFINE b == calls[g]
             e == after(g)
  <2>1. b \in CallSet /\ Sound(b)
    BY DEF Shapes
  <2>2. /\ e \in CallSet /\ e.op = b.op /\ e.tab = b.tab /\ e.body = b.body /\ e.keeps = b.keeps
        /\ e.held = b.held /\ e.targets = b.targets /\ e.want = b.want
        /\ e.theirs = b.theirs
        /\ e.pc = IF g = s THEN pc ELSE b.pc
    BY <2>1, ZenonT(60) DEF CallSet, Pcs
  <2>3. g # s => e.sole = (b.sole /\ ~(pc = "ok" /\ Told(s, g)))
    <3>1. CASE g # s /\ pc = "ok" /\ Told(s, g)
      <4>1. e = [b EXCEPT !.sole = FALSE]
        BY <3>1
      <4>2. e.sole = FALSE
        BY <2>1, <4>1 DEF CallSet
      <4> QED
        BY <3>1, <4>2
    <3>2. CASE g # s /\ ~(pc = "ok" /\ Told(s, g))
      <4>1. e = b
        BY <3>2
      <4>2. b.sole \in BOOLEAN
        BY <2>1 DEF CallSet
      <4> QED
        BY <3>2, <4>1, <4>2
    <3> QED
      BY <3>1, <3>2
  <2> HIDE DEF e
  <2>4. Sound(e)
    <3>1. g = s => b.pc = "begin" /\ Idle(b) /\ b.op \in {"profile", "locate", "clear"}
      BY <2>1 DEF At, Sound
    <3>2. None \notin {"ok", "no", "profile", "locate", "clear"}
      BY PeopleAssumption DEF Ops, Pcs
    <3> QED
      BY <2>1, <2>2, <3>1, <3>2 DEF Sound, Idle
  <2> QED
    BY <2>2, <2>3, <2>4 DEF e
<1>3. \A g \in Slots : calls'[g] = after(g)
  BY <1>1
<1> HIDE DEF after
<1> QED
  BY <1>1, <1>2, <1>3

-----------------------------------------------------------------------------
(* Each step keeps each part of the invariant. *)

\* A route of one statement acts on a call that begins.
LEMMA RouteIs ==
  ASSUME Shapes, NEW s \in Slots, UpsertProfile(s) \/ SetLocation(s) \/ ClearLocation(s)
  PROVE  \E pc \in {"ok", "no"} :
           /\ Executed(s, pc) /\ At(s, "begin") /\ calls[s].op \in {"profile", "locate", "clear"}
           /\ pc = "no" => UNCHANGED tables
           /\ pc = "ok" =>
                CASE calls[s].op = "profile" ->
                       profile' = [profile EXCEPT ![Me] = calls[s].body] /\ UNCHANGED <<rows, place>>
                  [] calls[s].op = "locate" ->
                       /\ place' = [place EXCEPT ![Me] = calls[s].body] /\ calls[s].body \in Places
                       /\ UNCHANGED <<profile, rows>>
                  [] calls[s].op = "clear" ->
                       place' = [place EXCEPT ![Me] = None] /\ UNCHANGED <<profile, rows>>
  BY DEF UpsertProfile, SetLocation, LocationWritten, ClearLocation, tables

\* The calls.
LEMMA CallsStep ==
  ASSUME Shapes, Locks, [Next]_vars
  PROVE  calls' \in [Slots -> CallSet] /\ \A g \in Slots : Sound(calls'[g])
<1>1. CASE \A s \in Slots : ~Served(s)
  BY <1>1, Quiets DEF Quiet, Kept, Reset
<1>2. ASSUME NEW s \in Slots, SetScan(s) \/ SetRow(s) \/ DeadlockVictim(s)
      PROVE  calls' \in [Slots -> CallSet] /\ \A g \in Slots : Sound(calls'[g])
  <2>1. PICK d : Moved(s, d)
    BY <1>2, ScanIs, RowIs, VictimIs
  <2> QED
    BY <2>1, MovedIs
<1>3. ASSUME NEW s \in Slots, SetCommit(s)
      PROVE  calls' \in [Slots -> CallSet] /\ \A g \in Slots : Sound(calls'[g])
  BY <1>3, CommitIs, CommittedRows DEF Learns, Shapes
<1>4. ASSUME NEW s \in Slots, UpsertProfile(s) \/ SetLocation(s) \/ ClearLocation(s)
      PROVE  calls' \in [Slots -> CallSet] /\ \A g \in Slots : Sound(calls'[g])
  BY <1>4, RouteIs, ExecutedIs
<1> QED
  BY <1>1, <1>2, <1>3, <1>4 DEF Served, Serve

\* The tables.
LEMMA TablesStep ==
  ASSUME Shapes, Locks, [Next]_vars
  PROVE  /\ profile' \in [Users -> Form \cup {None}] /\ rows' \in [Users -> Selection]
         /\ place' \in [Users -> Places \cup {None}]
<1>1. ASSUME UNCHANGED tables
      PROVE  /\ profile' \in [Users -> Form \cup {None}] /\ rows' \in [Users -> Selection]
             /\ place' \in [Users -> Places \cup {None}]
  BY <1>1 DEF tables, Shapes
<1>2. CASE \A s \in Slots : ~Served(s)
  BY <1>1, <1>2, Quiets DEF Quiet
<1>3. ASSUME NEW s \in Slots, SetScan(s) \/ SetRow(s) \/ DeadlockVictim(s) PROVE UNCHANGED tables
  BY <1>3 DEF SetScan, Scan, SetRow, DeadlockVictim
<1>4. ASSUME NEW s \in Slots, SetCommit(s)
      PROVE  /\ profile' \in [Users -> Form \cup {None}] /\ rows' \in [Users -> Selection]
             /\ place' \in [Users -> Places \cup {None}]
  BY <1>4, CommittedRows DEF Shapes
<1>5. ASSUME NEW s \in Slots, UpsertProfile(s) \/ SetLocation(s) \/ ClearLocation(s)
      PROVE  /\ profile' \in [Users -> Form \cup {None}] /\ rows' \in [Users -> Selection]
             /\ place' \in [Users -> Places \cup {None}]
  <2>1. calls[s].op = "profile" => calls[s].body \in Form
    BY DEF Shapes, Sound
  <2> QED
    BY <1>1, <1>5, <2>1, RouteIs DEF Shapes
<1> QED
  BY <1>1, <1>2, <1>3, <1>4, <1>5 DEF Served, Serve

\* A tab's page becomes another one.
Turns(t, p) == screen' = [screen EXCEPT ![t] = p] /\ Ticked(p)

\* An input of a section changes its page.
LEMMA EditTurns ==
  ASSUME Shapes, NEW t \in Tabs, NEW section, NEW p, Edit(t, section, p), Ticked(p)
  PROVE  Turns(t, [p EXCEPT !.clean = @ \ {section}])
  BY DEF Edit, Turns, Ticked, ScreenSet

\* One of its inputs has changed.
Turned(t) ==
  \E section, p :
    /\ section \in Sections /\ Turns(t, p) /\ section \notin p.clean /\ p.clean \subseteq screen[t].clean
    /\ section = "profile" => p.sel = screen[t].sel
    /\ section = "activities" => p.form = screen[t].form
\* The inputs.
LEMMA InputsTurn ==
  ASSUME Shapes, NEW t \in Tabs,
         \/ \E k \in Activities : Toggle(t, k) \/ SetAvailability(t, k)
         \/ SetDiscoverable(t) \/ SetHidden(t)
  PROVE  Turned(t)
<1> DEFINE old == screen[t]
<1>1. old \in ScreenSet /\ Ticked(old)
  BY DEF Shapes
<1>2. ASSUME NEW section \in Sections, NEW p, Edit(t, section, p), Ticked(p), p.clean = old.clean,
             section = "profile" => p.sel = old.sel, section = "activities" => p.form = old.form
      PROVE  Turned(t)
  <2> DEFINE q == [p EXCEPT !.clean = @ \ {section}]
  <2>1. Turns(t, q)
    BY <1>2, EditTurns
  <2>2. q.clean = p.clean \ {section} /\ q.sel = p.sel /\ q.form = p.form
    BY <1>2 DEF Ticked, ScreenSet
  <2> QED
    BY <1>2, <2>1, <2>2 DEF Turned
<1>3. {"NOW", "TODAY"} \subseteq Availability /\ None \notin {"NOW", "TODAY"}
  BY PeopleAssumption DEF Availability
<1>4. ASSUME NEW k \in Activities, NEW v \in Availability \cup {None}, NEW kept \in SUBSET Activities,
             v # None \/ k \notin kept, kept \subseteq old.kept,
             Edit(t, "activities", [old EXCEPT !.sel[k] = v, !.kept = kept])
      PROVE  Turned(t)
  <2> DEFINE sel == [old.sel EXCEPT ![k] = v]
             p == [old EXCEPT !.sel = sel, !.kept = kept]
  <2>1. sel \in Selection /\ \A j \in kept : sel[j] # None
    BY <1>1, <1>4 DEF Selection, Ticked, ScreenSet
  <2>2. p = [old EXCEPT !.sel[k] = v, !.kept = kept]
    BY <1>1 DEF ScreenSet
  <2> HIDE DEF sel
  <2>3. p \in ScreenSet /\ p.sel = sel /\ p.kept = kept /\ p.form = old.form /\ p.clean = old.clean
    BY <1>1, <2>1 DEF ScreenSet
  <2>4. Edit(t, "activities", p)
    BY <1>4, <2>2
  <2> HIDE DEF p
  <2> QED
    BY <1>2, <2>1, <2>3, <2>4 DEF Ticked, Sections
<1>5. ASSUME NEW k \in Activities, Toggle(t, k)
      PROVE  Turned(t)
  <2>1. old.kept \in SUBSET Activities
    BY <1>1 DEF ScreenSet
  <2>2. CASE old.sel[k] = None
    <3>1. [old EXCEPT !.sel[k] = "NOW"] = [old EXCEPT !.sel[k] = "NOW", !.kept = old.kept]
      BY <1>1 DEF ScreenSet
    <3>2. Edit(t, "activities", [old EXCEPT !.sel[k] = "NOW", !.kept = old.kept])
      BY <1>5, <2>2, <3>1 DEF Toggle
    <3> QED
      BY <1>3, <1>4, <2>1, <3>2
  <2>3. CASE old.sel[k] # None
    <3>1. [old EXCEPT !.sel[k] = None, !.kept = @ \ {k}]
          = [old EXCEPT !.sel[k] = None, !.kept = old.kept \ {k}]
      BY <1>1 DEF ScreenSet
    <3> DEFINE kept == old.kept \ {k}
    <3>2. Edit(t, "activities", [old EXCEPT !.sel[k] = None, !.kept = kept])
      BY <1>5, <2>3, <3>1 DEF Toggle
    <3>3. kept \in SUBSET Activities /\ k \notin kept /\ kept \subseteq old.kept
      BY <2>1
    <3> HIDE DEF kept
    <3> QED
      BY <1>4, <3>2, <3>3
  <2> QED
    BY <2>2, <2>3
<1>6. ASSUME NEW k \in Activities, SetAvailability(t, k)
      PROVE  Turned(t)
  <2>1. old.kept \in SUBSET Activities
    BY <1>1 DEF ScreenSet
  <2>2. [old EXCEPT !.sel[k] = "TODAY"] = [old EXCEPT !.sel[k] = "TODAY", !.kept = old.kept]
    BY <1>1 DEF ScreenSet
  <2>3. Edit(t, "activities", [old EXCEPT !.sel[k] = "TODAY", !.kept = old.kept])
    BY <1>6, <2>2 DEF SetAvailability
  <2> QED
    BY <1>3, <1>4, <2>1, <2>3
<1>7. ASSUME NEW form \in Form, Edit(t, "profile", [old EXCEPT !.form = form])
      PROVE  Turned(t)
  <2> DEFINE p == [old EXCEPT !.form = form]
  <2>1. p \in ScreenSet /\ p.sel = old.sel /\ p.kept = old.kept /\ p.clean = old.clean
    BY <1>1, <1>7 DEF ScreenSet
  <2> QED
    BY <1>1, <1>2, <1>7, <2>1 DEF Ticked, Sections
<1>8. CASE SetDiscoverable(t)
  <2> DEFINE form == [old.form EXCEPT !.discoverable = ~@]
  <2>1. form \in Form
    BY <1>1 DEF ScreenSet, Form
  <2>2. [old EXCEPT !.form.discoverable = ~@] = [old EXCEPT !.form = form]
    BY <1>1 DEF ScreenSet
  <2> QED
    BY <1>7, <1>8, <2>1, <2>2 DEF SetDiscoverable
<1>9. CASE SetHidden(t)
  <2> DEFINE form == [old.form EXCEPT !.hidden = ~@]
  <2>1. form \in Form
    BY <1>1 DEF ScreenSet, Form
  <2>2. [old EXCEPT !.form.hidden = ~@] = [old EXCEPT !.form = form]
    BY <1>1 DEF ScreenSet
  <2> QED
    BY <1>7, <1>9, <2>1, <2>2 DEF SetHidden
<1> QED
  BY <1>5, <1>6, <1>8, <1>9

\* What the pages show, and what is stored.
Screens ==
  /\ screen \in [Tabs -> ScreenSet] /\ \A t \in Tabs : Ticked(screen[t])
  /\ SavedIsShown
\* A page that shows what is stored wherever it claims to.
Shows(p) ==
  /\ "profile" \in p.clean => profile[Me] = p.form
  /\ "activities" \in p.clean => rows[Me] = p.sel

\* A tab that turns to a page that shows what is stored.
LEMMA TurnsKeep ==
  ASSUME Screens, UNCHANGED tables, NEW t \in Tabs, NEW p, Turns(t, p), Shows(p)
  PROVE  Screens'
  BY DEF Screens, Turns, Shows, tables, SavedIsShown, Ticked

\* No page and no table changes.
LEMMA ScreenStands ==
  ASSUME Screens, UNCHANGED tables, screen' = screen
  PROVE  Screens'
  BY DEF Screens, tables, SavedIsShown, Ticked

\* A page as it opens.
LEMMA FreshTicked == Ticked(Fresh) /\ Shows(Fresh)
<1>1. EmptyForm \in Form /\ NothingPicked \in Selection
  BY DEF EmptyForm, Form, NothingPicked, Selection
<1> QED
  BY <1>1 DEF Fresh, Ticked, ScreenSet, Shows

\* The loading of a page.
LEMMA LoadScreens ==
  ASSUME Shapes, Screens, NEW t \in Tabs, Load(t) \/ LoadFailed(t)
  PROVE  Screens'
<1> DEFINE old == screen[t]
<1>1. old \in ScreenSet /\ Ticked(old) /\ Shows(old)
  BY DEF Screens, Shows, SavedIsShown
<1>2. UNCHANGED tables
  BY DEF Load, LoadedProfile, LoadedActivities, ShowActivities, LoadFailed, people
<1>3. Me \in Users /\ profile[Me] \in Form \cup {None} /\ rows[Me] \in Selection
  BY PeopleAssumption DEF Shapes
<1>4. CASE LoadedProfile(t)
  <2>1. CASE profile[Me] = None
    <3> DEFINE p == [old EXCEPT !.at = "activities"]
    <3>1. screen' = [screen EXCEPT ![t] = p]
      BY <1>4, <2>1 DEF LoadedProfile
    <3>2. Ticked(p) /\ Shows(p)
      BY <1>1 DEF Ticked, ScreenSet, Shows
    <3> QED
      BY <1>2, <3>1, <3>2, TurnsKeep DEF Turns
  <2>2. CASE profile[Me] # None
    <3> DEFINE p == [old EXCEPT !.at = "activities", !.form = profile[Me], !.clean = @ \cup {"profile"}]
    <3> DEFINE q == [old EXCEPT !.at = "activities"]
    <3>0. screen' = [screen EXCEPT ![t] = IF profile[Me] = None THEN q ELSE p]
      BY <1>4 DEF LoadedProfile
    <3>1. screen' = [screen EXCEPT ![t] = p]
      BY <2>2, <3>0
    <3>2. Ticked(p) /\ Shows(p)
      BY <1>1, <1>3, <2>2 DEF Ticked, ScreenSet, Shows, Sections
    <3> QED
      BY <1>2, <3>1, <3>2, TurnsKeep DEF Turns
  <2> QED
    BY <2>1, <2>2
<1>5. CASE LoadedActivities(t)
  <2> DEFINE kept == {k \in Activities : rows[Me][k] # None}
             p == [old EXCEPT !.at = "ready", !.sel = rows[Me], !.clean = @ \cup {"activities"},
                              !.kept = kept]
  <2>1. screen' = [screen EXCEPT ![t] = p]
    BY <1>5 DEF LoadedActivities, ShowActivities
  <2>2. kept \in SUBSET Activities /\ \A k \in kept : rows[Me][k] # None
    OBVIOUS
  <2> HIDE DEF kept
  <2>3. Ticked(p) /\ Shows(p)
    BY <1>1, <1>3, <2>2 DEF Ticked, ScreenSet, Shows, Sections
  <2> QED
    BY <1>2, <2>1, <2>3, TurnsKeep DEF Turns
<1>6. CASE LoadFailed(t)
  <2> DEFINE p == [old EXCEPT !.at = IF @ = "profile" THEN "activities" ELSE "ready"]
  <2>1. screen' = [screen EXCEPT ![t] = p]
    BY <1>6 DEF LoadFailed
  <2>2. Ticked(p) /\ Shows(p)
    BY <1>1 DEF Ticked, ScreenSet, Shows
  <2> QED
    BY <1>2, <2>1, <2>2, TurnsKeep DEF Turns
<1> QED
  BY <1>4, <1>5, <1>6 DEF Load

\* What the user does.
LEMMA GestureScreens ==
  ASSUME Shapes, Screens, NEW t \in Tabs, Gesture(t)
  PROVE  Screens'
<1> DEFINE old == screen[t]
<1>1. old \in ScreenSet /\ Ticked(old) /\ Shows(old)
  BY DEF Screens, Shows, SavedIsShown
<1>2. ASSUME NEW c, NEW saving \in SUBSET Sections, NEW loc \in {"idle", "saving", "saved", "error"},
             Click(t, c, [old EXCEPT !.saving = saving, !.loc = loc])
      PROVE  Screens'
  <2> DEFINE p == [old EXCEPT !.saving = saving, !.loc = loc]
  <2>1. screen' = [screen EXCEPT ![t] = p] /\ UNCHANGED tables
    BY <1>2 DEF Click
  <2>2. Ticked(p) /\ Shows(p)
    BY <1>1 DEF Ticked, ScreenSet, Shows
  <2> QED
    BY <2>1, <2>2, TurnsKeep DEF Turns
<1>3. ASSUME NEW x \in Sections, NEW c, Click(t, c, [old EXCEPT !.saving = @ \cup {x}]) PROVE Screens'
  <2> DEFINE saving == old.saving \cup {x}
  <2>1. [old EXCEPT !.saving = @ \cup {x}] = [old EXCEPT !.saving = saving, !.loc = old.loc]
    BY <1>1 DEF ScreenSet
  <2>2. saving \in SUBSET Sections /\ old.loc \in {"idle", "saving", "saved", "error"}
    BY <1>1 DEF ScreenSet
  <2>3. Click(t, c, [old EXCEPT !.saving = saving, !.loc = old.loc])
    BY <1>3, <2>1
  <2> HIDE DEF saving
  <2> QED
    BY <1>2, <2>2, <2>3
<1>4. CASE UseBrowserLocation(t) \/ ManualLocation(t) \/ ClearMyLocation(t)
  <2>1. PICK c : Click(t, c, [old EXCEPT !.loc = "saving"])
    BY <1>4 DEF UseBrowserLocation, ManualLocation, ClearMyLocation
  <2>2. [old EXCEPT !.loc = "saving"] = [old EXCEPT !.saving = old.saving, !.loc = "saving"]
    BY <1>1 DEF ScreenSet
  <2>3. old.saving \in SUBSET Sections
    BY <1>1 DEF ScreenSet
  <2>4. Click(t, c, [old EXCEPT !.saving = old.saving, !.loc = "saving"])
    BY <2>1, <2>2
  <2> QED
    BY <1>2, <2>3, <2>4
<1>5. CASE Visit(t)
  BY <1>5, FreshTicked, TurnsKeep DEF Visit, Turns
<1>6. CASE \/ \E k \in Activities : Toggle(t, k) \/ SetAvailability(t, k)
           \/ SetDiscoverable(t) \/ SetHidden(t)
  <2>1. UNCHANGED tables
    BY <1>6 DEF Toggle, SetAvailability, SetDiscoverable, SetHidden, Edit, people
  <2>2. PICK section, p :
          /\ section \in Sections /\ Turns(t, p) /\ section \notin p.clean /\ p.clean \subseteq old.clean
          /\ section = "profile" => p.sel = old.sel
          /\ section = "activities" => p.form = old.form
    BY <1>6, InputsTurn DEF Turned
  <2>3. Shows(p)
    BY <1>1, <2>2 DEF Shows, Sections
  <2> QED
    BY <2>1, <2>2, <2>3, TurnsKeep
<1>7. CASE SaveProfile(t) \/ SaveActivities(t)
  BY <1>3, <1>7 DEF SaveProfile, SaveActivities, Sections
<1> QED
  BY <1>4, <1>5, <1>6, <1>7 DEF Gesture

\* What the page hears.
LEMMA HeardScreens ==
  ASSUME Shapes, Screens, NEW s \in Slots, Stored(s),
         Answered(s) \/ Refused(s) \/ PositionFound(s) \/ Fault(s)
  PROVE  Screens'
<1> DEFINE t == calls[s].tab
           old == screen[t]
<1>1. UNCHANGED tables
  BY DEF Answered, Refused, Ends, PositionFound, Fault, PositionFails, Lose, LoseRunning
<1>2. CASE screen' = screen
  BY <1>1, <1>2, ScreenStands
<1>3. CASE screen' # screen
  <2>1. calls[s].caller = "page"
    BY <1>3 DEF Answered, Refused, Ends, PositionFound, Fault, PositionFails, Lose, LoseRunning
  <2>2. calls[s].op \in Ops /\ t \in Tabs
    <3>1. Answered(s) \/ Refused(s) \/ PositionFound(s) \/ PositionFails(s)
      BY <1>3 DEF Fault, Lose, LoseRunning
    <3>2. calls[s].pc # None
      BY <3>1, PeopleAssumption DEF Answered, Refused, PositionFound, PositionFails, At, Pcs
    <3> QED
      BY <3>2 DEF Shapes, Sound, CallSet
  <2>3. old \in ScreenSet /\ Ticked(old) /\ Shows(old)
    BY <2>2 DEF Screens, Shows, SavedIsShown
  <2>4. ASSUME NEW p, Ticked(p), Shows(p), screen' = [screen EXCEPT ![t] = p] PROVE Screens'
    BY <1>1, <2>2, <2>4, TurnsKeep DEF Turns
  <2>5. CASE Answered(s)
    <3> DEFINE op == calls[s].op
               true == IF calls[s].sole /\ calls[s].body = Shown(t, op) THEN {op} ELSE {}
    <3>1. screen' = [screen EXCEPT ![t] =
            CASE op = "locate" -> [old EXCEPT !.loc = "saved"]
              [] op = "clear" -> [old EXCEPT !.loc = "idle"]
              [] OTHER -> [old EXCEPT !.saving = @ \ {op}, !.clean = @ \cup true]]
      BY <2>1, <2>5 DEF Answered, Ends
    <3>2. CASE op \in {"locate", "clear"}
      <4> DEFINE p == [old EXCEPT !.loc = IF op = "locate" THEN "saved" ELSE "idle"]
      <4>1. screen' = [screen EXCEPT ![t] = p]
        BY <3>1, <3>2
      <4>2. Ticked(p) /\ Shows(p)
        BY <2>3 DEF Ticked, ScreenSet, Shows
      <4> QED
        BY <2>4, <4>1, <4>2
    <3>3. CASE op \in Sections
      <4> DEFINE p == [old EXCEPT !.saving = @ \ {op}, !.clean = @ \cup true]
      <4>1. screen' = [screen EXCEPT ![t] = p]
        BY <3>1, <3>3 DEF Sections
      <4>2. true \subseteq {op}
        OBVIOUS
      <4>3. op \in true => calls[s].sole /\ calls[s].body = IF op = "profile" THEN old.form ELSE old.sel
        BY DEF Shown
      <4> HIDE DEF true
      <4>4. Ticked(p)
        BY <2>3, <3>3, <4>2 DEF Ticked, ScreenSet
      <4>5. /\ op \in true /\ op = "profile" => profile[Me] = old.form
            /\ op \in true /\ op = "activities" => rows[Me] = old.sel
        BY <2>5, <4>3 DEF Answered, Stored
      <4>6. p.clean = old.clean \cup true /\ p.form = old.form /\ p.sel = old.sel
        BY <2>3 DEF ScreenSet
      <4>7. Shows(p)
        BY <2>3, <4>2, <4>5, <4>6 DEF Shows
      <4> QED
        BY <2>4, <4>1, <4>4, <4>7
    <3> QED
      BY <2>2, <3>2, <3>3 DEF Ops, Sections
  <2>6. CASE Refused(s)
    <3> DEFINE op == calls[s].op
               p == IF op \in Sections THEN [old EXCEPT !.saving = @ \ {op}] ELSE [old EXCEPT !.loc = "error"]
    <3>1. screen' = [screen EXCEPT ![t] = p]
      BY <2>1, <2>6 DEF Refused, Ends
    <3>2. Ticked(p) /\ Shows(p)
      BY <2>3 DEF Ticked, ScreenSet, Shows
    <3> QED
      BY <2>4, <3>1, <3>2
  <2>7. CASE PositionFound(s) \/ Fault(s)
    <3> DEFINE p(loc) == [old EXCEPT !.loc = loc]
    <3>1. PICK loc \in {"saving", "error"} : screen' = [screen EXCEPT ![t] = p(loc)]
      <4>1. \/ screen' = [screen EXCEPT ![t].loc = "saving"]
            \/ screen' = [screen EXCEPT ![t].loc = "error"]
        BY <1>3, <2>1, <2>7 DEF PositionFound, Fault, PositionFails, Lose, LoseRunning
      <4>2. ASSUME NEW loc PROVE [screen EXCEPT ![t].loc = loc] = [screen EXCEPT ![t] = p(loc)]
        BY DEF Screens
      <4> QED
        BY <4>1, <4>2
    <3>2. Ticked(p(loc)) /\ Shows(p(loc))
      BY <2>3 DEF Ticked, ScreenSet, Shows
    <3> QED
      BY <2>4, <3>1, <3>2
  <2> QED
    BY <2>5, <2>6, <2>7
<1> QED
  BY <1>2, <1>3

\* A commit of a section takes the mark from every page.
LEMMA ServedScreens ==
  ASSUME Shapes, Locks, Screens, NEW s \in Slots, Served(s)
  PROVE  Screens'
<1> DEFINE op == calls[s].op
<1>1. CASE Commits(s)
  <2>1. screen' = [t \in Tabs |-> [screen[t] EXCEPT !.clean = @ \ {op}]] /\ op \in Sections
    BY <1>1 DEF Served, Commits
  <2>2. \A t \in Tabs :
          /\ screen'[t] \in ScreenSet /\ screen'[t].clean = screen[t].clean \ {op}
          /\ screen'[t].form = screen[t].form /\ screen'[t].sel = screen[t].sel
          /\ screen'[t].kept = screen[t].kept
    BY <2>1 DEF Screens, ScreenSet
  <2>3. /\ op # "profile" => profile' = profile
        /\ op # "activities" => rows' = rows
    <3>1. SetScan(s) \/ SetRow(s) \/ DeadlockVictim(s) => UNCHANGED tables
      BY DEF SetScan, Scan, SetRow, DeadlockVictim
    <3>2. SetCommit(s) => op = "activities" /\ profile' = profile
      BY CommitIs, CommittedRows
    <3>3. UpsertProfile(s) => op = "profile" /\ rows' = rows
      BY DEF UpsertProfile
    <3>4. SetLocation(s) \/ ClearLocation(s) => profile' = profile /\ rows' = rows
      BY DEF SetLocation, LocationWritten, ClearLocation
    <3> QED
      BY <3>1, <3>2, <3>3, <3>4 DEF Served, Serve, tables
  <2>4. screen' \in [Tabs -> ScreenSet] /\ \A t \in Tabs : Ticked(screen'[t])
    BY <2>1, <2>2, ZenonT(60) DEF Screens, Ticked
  <2>5. ASSUME NEW t \in Tabs
        PROVE  /\ "profile" \in screen'[t].clean => profile'[Me] = screen'[t].form
               /\ "activities" \in screen'[t].clean => rows'[Me] = screen'[t].sel
    <3>1. /\ "profile" \in screen[t].clean => profile[Me] = screen[t].form
          /\ "activities" \in screen[t].clean => rows[Me] = screen[t].sel
      BY DEF Screens, SavedIsShown
    <3> QED
      BY <2>2, <2>3, <3>1
  <2> QED
    BY <2>4, <2>5 DEF Screens, SavedIsShown
<1>2. CASE ~Commits(s)
  <2>1. screen' = screen
    BY <1>2 DEF Served
  <2>2. profile' = profile /\ rows' = rows
    <3>1. SetScan(s) \/ SetRow(s) \/ DeadlockVictim(s) => UNCHANGED tables
      BY DEF SetScan, Scan, SetRow, DeadlockVictim
    <3>2. ~SetCommit(s)
      BY <1>2, CommitIs DEF Commits, Sections
    <3>3. SetLocation(s) \/ ClearLocation(s) => profile' = profile /\ rows' = rows
      BY DEF SetLocation, LocationWritten, ClearLocation
    <3>4. ~UpsertProfile(s)
      <4>1. SUFFICES ASSUME UpsertProfile(s) PROVE FALSE
        OBVIOUS
      <4>2. Executed(s, "ok") /\ At(s, "begin") /\ op = "profile"
        BY <4>1 DEF UpsertProfile
      <4>3. calls'[s].pc = "ok"
        BY <4>2, ExecutedIs
      <4> QED
        BY <1>2, <4>2, <4>3 DEF Commits, At, Sections
    <3> QED
      BY <3>1, <3>2, <3>3, <3>4 DEF Served, Serve, tables
  <2> QED
    BY <2>1, <2>2 DEF Screens, SavedIsShown, Ticked
<1> QED
  BY <1>1, <1>2

\* What is shown as saved is stored, kept by every step.
LEMMA ScreensStep ==
  ASSUME Shapes, Locks, Screens, \A s \in Slots : Stored(s), [Next]_vars
  PROVE  Screens'
<1>1. CASE Searching /\ screen' = screen
  BY <1>1, ScreenStands DEF Searching, Search, CheckLocation, Query, SearchFails, SearchAgain
<1>2. CASE UNCHANGED vars
  BY <1>2, ScreenStands DEF vars, people
<1> QED
  BY <1>1, <1>2, LoadScreens, GestureScreens, HeardScreens, ServedScreens DEF Next, Step

\* Rows are waited for and held as setMyActivities does.
LEMMA LocksStep ==
  ASSUME Shapes, Locks, [Next]_vars
  PROVE  Locks'
<1> DEFINE Waits(s) == calls'[s].want # None => calls'[s].want \in ToDo(s)'
           Apart == \A s \in Slots : \A g \in Slots \ {s} : calls'[s].held \cap calls'[g].held = {}
<1>1. ASSUME NEW s \in Slots, calls'[s].want = calls[s].want, calls'[s].targets = calls[s].targets,
             calls'[s].held = calls[s].held, calls'[s].body = calls[s].body
      PROVE  Waits(s)
  BY <1>1 DEF Locks, ToDo, Chosen
<1>2. ASSUME \A s \in Slots : calls'[s].held \subseteq calls[s].held PROVE Apart
  <2> SUFFICES ASSUME NEW s \in Slots, NEW g \in Slots \ {s} PROVE calls'[s].held \cap calls'[g].held = {}
    OBVIOUS
  <2>1. /\ calls[s].held \cap calls[g].held = {}
        /\ calls'[s].held \subseteq calls[s].held /\ calls'[g].held \subseteq calls[g].held
    BY <1>2 DEF Locks
  <2> QED
    BY <2>1
<1>3. CASE \A s \in Slots : ~Served(s)
  <2>1. \A g \in Slots : Kept(g) \/ Reset(g)
    BY <1>3, Quiets DEF Quiet
  <2>2. \A g \in Slots : Waits(g)
    BY <1>1, <2>1 DEF Kept, Reset, Idle
  <2>3. Apart
    BY <1>2, <2>1 DEF Kept, Reset, Idle
  <2> QED
    BY <2>2, <2>3 DEF Locks
<1>4. ASSUME NEW s \in Slots, NEW d, Moved(s, d), d.held = {}, d.want = None PROVE Locks'
  <2>1. calls'[s] = d /\ \A g \in Slots : g # s => calls'[g] = calls[g]
    BY <1>4, MovedIs
  <2>2. \A g \in Slots : Waits(g)
    BY <1>1, <1>4, <2>1
  <2>3. Apart
    BY <1>2, <1>4, <2>1
  <2> QED
    BY <2>2, <2>3 DEF Locks
<1>5. ASSUME NEW s \in Slots, SetRow(s) PROVE Locks'
  <2>1. PICK k, d :
          /\ k \in ToDo(s) /\ Moved(s, d) /\ calls[s].want \in {None, k}
          /\ IF Locked(s, k) THEN d.want = k /\ d.held = calls[s].held /\ d.targets = calls[s].targets
             ELSE d.want = None /\ d.held = calls[s].held \cup {k}
    BY <1>5, RowIs
  <2>2. calls'[s] = d /\ \A g \in Slots : g # s => calls'[g] = calls[g]
    BY <2>1, MovedIs
  <2>3. d.body = calls[s].body
    BY <2>1 DEF Moved
  <2>4. \A g \in Slots : Waits(g)
    <3>1. Waits(s)
      BY <2>1, <2>2, <2>3 DEF ToDo, Chosen
    <3> QED
      BY <1>1, <2>2, <3>1
  <2>5. CASE Locked(s, k)
    BY <1>2, <2>1, <2>2, <2>4, <2>5 DEF Locks
  <2>6. CASE ~Locked(s, k)
    <3>1. \A g \in Slots \ {s} : k \notin calls[g].held
      BY <2>6 DEF Locked
    <3>2. \A g \in Slots \ {s} : calls[s].held \cap calls[g].held = {}
      BY DEF Locks
    <3>3. calls'[s].held = calls[s].held \cup {k}
      BY <2>1, <2>2, <2>6
    <3>4. Apart
      <4> SUFFICES ASSUME NEW g \in Slots, NEW h \in Slots \ {g}
                   PROVE  calls'[g].held \cap calls'[h].held = {}
        OBVIOUS
      <4>1. CASE g = s
        BY <2>2, <3>1, <3>2, <3>3, <4>1
      <4>2. CASE h = s
        BY <2>2, <3>1, <3>2, <3>3, <4>2
      <4>3. CASE g # s /\ h # s
        BY <2>2, <4>3 DEF Locks
      <4> QED
        BY <4>1, <4>2, <4>3
    <3> QED
      BY <2>4, <3>4 DEF Locks
  <2> QED
    BY <2>5, <2>6
<1>6. ASSUME NEW s \in Slots, SetCommit(s) PROVE Locks'
  <2>1. /\ calls'[s].held = {} /\ calls'[s].want = None
        /\ \A g \in Slots : g # s =>
             IF Told(s, g) THEN Learns(g, s) ELSE calls'[g] = calls[g]
    BY <1>6, CommitIs, CommittedRows, ZenonT(60)
  <2>2. Apart
    <3>1. \A g \in Slots : calls'[g].held \subseteq calls[g].held
      BY <2>1 DEF Learns
    <3> QED
      BY <1>2, <3>1
  <2>3. ASSUME NEW g \in Slots, g # s, Learns(g, s) PROVE Waits(g)
    <3>1. calls[g].want # None => calls[g].want \in ToDo(g)
      BY DEF Locks
    <3> QED
      BY <2>3, <3>1 DEF Learns, ToDo, Chosen
  <2>4. \A g \in Slots : Waits(g)
    BY <1>1, <2>1, <2>3
  <2> QED
    BY <2>2, <2>4 DEF Locks
<1>7. ASSUME NEW s \in Slots, UpsertProfile(s) \/ SetLocation(s) \/ ClearLocation(s) PROVE Locks'
  <2>1. \A g \in Slots :
          /\ calls'[g].body = calls[g].body /\ calls'[g].targets = calls[g].targets
          /\ calls'[g].held = calls[g].held /\ calls'[g].want = calls[g].want
    BY <1>7, RouteIs, ExecutedIs
  <2> QED
    BY <1>1, <1>2, <2>1 DEF Locks
<1> QED
  BY <1>3, <1>4, <1>5, <1>6, <1>7, ScanIs, VictimIs DEF Served, Serve, Idle

\* What a call has stored stays until it is told of another commit.
LEMMA StoredStep ==
  ASSUME Shapes, Locks, \A s \in Slots : Stored(s) /\ Left(s), [Next]_vars
  PROVE  \A s \in Slots : Stored(s)'
<1>1. ASSUME NEW g \in Slots, Reset(g) PROVE Stored(g)'
  BY <1>1, PeopleAssumption DEF Reset, Stored, At, Pcs
<1>2. ASSUME NEW g \in Slots, profile'[Me] = profile[Me], rows'[Me] = rows[Me], place'[Me] = place[Me],
             calls'[g].op = calls[g].op, calls'[g].pc = calls[g].pc, calls'[g].body = calls[g].body,
             calls'[g].sole => calls[g].sole, calls'[g].theirs = calls[g].theirs
      PROVE  Stored(g)'
  BY <1>2 DEF Stored, At
<1>3. CASE \A s \in Slots : ~Served(s)
  <2>1. UNCHANGED tables /\ \A g \in Slots : Kept(g) \/ Reset(g)
    BY <1>3, Quiets DEF Quiet
  <2>2. profile'[Me] = profile[Me] /\ rows'[Me] = rows[Me] /\ place'[Me] = place[Me]
    BY <2>1 DEF tables
  <2> QED
    BY <1>1, <1>2, <2>1, <2>2 DEF Kept
<1>4. ASSUME NEW s \in Slots, SetScan(s) \/ SetRow(s) \/ DeadlockVictim(s)
      PROVE  \A g \in Slots : Stored(g)'
  <2>1. profile'[Me] = profile[Me] /\ rows'[Me] = rows[Me] /\ place'[Me] = place[Me]
    BY <1>4 DEF SetScan, Scan, SetRow, DeadlockVictim, tables
  <2>2. PICK d :
          /\ Moved(s, d)
          /\ \/ d.pc = "no"
             \/ d.pc = "rows" /\ d.theirs = NothingPicked
             \/ /\ d.pc = "rows" /\ calls[s].pc = "rows" /\ d.sole = calls[s].sole
                /\ d.theirs = calls[s].theirs
    BY <1>4, ScanIs, RowIs, VictimIs
  <2>3. calls'[s] = d /\ \A g \in Slots : g # s => calls'[g] = calls[g]
    BY <2>2, MovedIs
  <2>4. \A g \in Slots : g # s => Stored(g)'
    BY <1>2, <2>1, <2>3
  <2>5. Stored(s)'
    <3>1. CASE d.pc = "no"
      BY <2>3, <3>1 DEF Stored, At
    <3>2. CASE d.pc = "rows"
      BY <2>2, <2>3, <3>2 DEF Stored, At
    <3> QED
      BY <2>2, <3>1, <3>2
  <2> QED
    BY <2>4, <2>5
<1>5. ASSUME NEW s \in Slots, SetCommit(s) PROVE \A g \in Slots : Stored(g)'
  <2>1. /\ calls[s].pc = "rows" /\ calls[s].op = "activities" /\ calls[s].targets = {}
        /\ Chosen(s) \subseteq calls[s].held /\ Chosen(s) \subseteq Activities
        /\ calls'[s].sole = calls[s].sole /\ calls'[s].op = "activities"
        /\ calls'[s].body = calls[s].body /\ calls'[s].pc = "ok"
        /\ UNCHANGED <<profile, place>> /\ rows' \in [Users -> Selection]
        /\ \A k \in Activities :
             rows'[Me][k] = IF k \in calls[s].held THEN calls[s].body[k] ELSE rows[Me][k]
    BY <1>5, CommitIs, CommittedRows
  <2>2. Stored(s)'
    <3>1. calls[s].body \in Selection /\ rows'[Me] \in Selection
      BY <2>1, PeopleAssumption DEF Shapes, Sound
    <3>2. ASSUME calls[s].sole, NEW k \in Activities PROVE rows'[Me][k] = calls[s].body[k]
      BY <2>1, <3>2 DEF Stored, Left, At, Chosen, NothingPicked
    <3>3. calls[s].sole => rows'[Me] = calls[s].body
      BY <3>1, <3>2 DEF Selection
    <3> QED
      BY <2>1, <3>3 DEF Stored, At
  <2>3. ASSUME NEW g \in Slots, g # s, Told(s, g) PROVE Stored(g)'
    BY <1>5, <2>3, CommitIs DEF Learns, Stored
  <2>4. ASSUME NEW g \in Slots, g # s, ~Told(s, g) PROVE Stored(g)'
    <3>1. calls'[g] = calls[g]
      BY <1>5, <2>4, CommitIs
    <3>2. calls[g].op = "activities" => calls[g].pc \notin {"rows", "ok"}
      BY <2>1, <2>4, PeopleAssumption DEF Told, Section, Ops
    <3>3. calls[g].pc = "rows" => calls[g].op = "activities"
      BY DEF Shapes, Sound
    <3> QED
      BY <2>1, <3>1, <3>2, <3>3 DEF Stored, At
  <2> QED
    BY <2>2, <2>3, <2>4
<1>6. ASSUME NEW s \in Slots, UpsertProfile(s) \/ SetLocation(s) \/ ClearLocation(s)
      PROVE  \A g \in Slots : Stored(g)'
  <2>1. PICK pc \in {"ok", "no"} :
          /\ Executed(s, pc) /\ At(s, "begin") /\ calls[s].op \in {"profile", "locate", "clear"}
          /\ pc = "no" => UNCHANGED tables
          /\ pc = "ok" =>
               CASE calls[s].op = "profile" ->
                      profile' = [profile EXCEPT ![Me] = calls[s].body] /\ UNCHANGED <<rows, place>>
                 [] calls[s].op = "locate" ->
                      /\ place' = [place EXCEPT ![Me] = calls[s].body] /\ calls[s].body \in Places
                      /\ UNCHANGED <<profile, rows>>
                 [] calls[s].op = "clear" ->
                      place' = [place EXCEPT ![Me] = None] /\ UNCHANGED <<profile, rows>>
    BY <1>6, RouteIs
  <2>2. /\ calls'[s].pc = pc /\ \A g \in Slots : g # s => calls'[g].pc = calls[g].pc
        /\ \A g \in Slots :
             /\ calls'[g].op = calls[g].op /\ calls'[g].body = calls[g].body
             /\ calls'[g].theirs = calls[g].theirs
             /\ g # s => calls'[g].sole = (calls[g].sole /\ ~(pc = "ok" /\ Told(s, g)))
    BY <2>1, ExecutedIs
  <2>3. /\ Me \in Users /\ profile \in [Users -> Form \cup {None}] /\ place \in [Users -> Places \cup {None}]
        /\ "profile" \notin {"locate", "clear"} /\ "locate" # "clear"
    BY PeopleAssumption DEF Shapes
  <2>4. CASE pc = "no"
    <3>1. profile'[Me] = profile[Me] /\ rows'[Me] = rows[Me] /\ place'[Me] = place[Me]
      BY <2>1, <2>4 DEF tables
    <3>2. \A g \in Slots : g # s => calls'[g].sole = calls[g].sole
      BY <2>2, <2>4 DEF Shapes, CallSet
    <3>3. \A g \in Slots : g # s => Stored(g)'
      BY <1>2, <2>2, <3>1, <3>2
    <3>4. Stored(s)'
      BY <2>2, <2>4 DEF Stored, At
    <3> QED
      BY <3>3, <3>4
  <2>5. CASE pc = "ok"
    <3>1. Stored(s)'
      <4>1. calls[s].op = "profile" => profile'[Me] = calls[s].body
        BY <2>1, <2>3, <2>5
      <4>2. calls[s].op = "clear" => place'[Me] = None
        BY <2>1, <2>3, <2>5
      <4> QED
        BY <2>1, <2>2, <2>5, <4>1, <4>2 DEF Stored, At
    <3>2. ASSUME NEW g \in Slots, g # s, Told(s, g) PROVE Stored(g)'
      BY <2>2, <2>5, <3>2 DEF Stored
    <3>3. ASSUME NEW g \in Slots, g # s, ~Told(s, g) PROVE Stored(g)'
      <4>1. calls'[g].sole = calls[g].sole
        BY <2>2, <3>3 DEF Shapes, CallSet
      <4>2. rows' = rows
        BY <2>1, <2>5
      <4>3. calls[g].op = "profile" /\ calls[g].pc = "ok" => profile' = profile
        BY <2>1, <2>5, <3>3, PeopleAssumption DEF Told, Section, Ops
      <4>4. calls[g].op = "clear" /\ calls[g].pc = "ok" => place' = place
        BY <2>1, <2>5, <3>3, PeopleAssumption DEF Told, Section, Ops
      <4>5. CASE calls[g].pc = "ok"
        BY <2>2, <3>3, <4>1, <4>2, <4>3, <4>4, <4>5, ZenonT(60) DEF Stored, At
      <4>6. CASE calls[g].pc = "rows"
        BY <2>2, <3>3, <4>1, <4>6 DEF Stored, At
      <4>7. CASE calls[g].pc \notin {"ok", "rows"}
        BY <2>2, <3>3, <4>7 DEF Stored, At
      <4> QED
        BY <4>5, <4>6, <4>7
    <3> QED
      BY <3>1, <3>2, <3>3
  <2> QED
    BY <2>4, <2>5
<1> QED
  BY <1>3, <1>4, <1>5, <1>6 DEF Served, Serve

\* What a save leaves alone changes only as the others' commits say.
LEMMA LeftStep ==
  ASSUME Shapes, Locks, \A s \in Slots : Left(s), [Next]_vars
  PROVE  \A s \in Slots : Left(s)'
<1>1. ASSUME NEW g \in Slots, calls'[g].pc # "rows" PROVE Left(g)'
  BY <1>1 DEF Left, At
<1>2. ASSUME NEW g \in Slots, rows'[Me] = rows[Me], calls'[g].body = calls[g].body,
             calls'[g].pc = calls[g].pc, calls'[g].theirs = calls[g].theirs,
             calls[g].targets \cup calls[g].held \subseteq calls'[g].targets \cup calls'[g].held
      PROVE  Left(g)'
  <2>1. Chosen(g)' = Chosen(g)
    BY <1>2 DEF Chosen
  <2> SUFFICES ASSUME calls[g].pc = "rows",
                      NEW k \in Activities \ (Chosen(g) \cup calls'[g].targets \cup calls'[g].held)
               PROVE  rows[Me][k] = calls[g].theirs[k]
    BY <1>2, <2>1 DEF Left, At
  <2>2. k \notin calls[g].targets \cup calls[g].held
    BY <1>2
  <2> QED
    BY <2>2 DEF Left, At
<1>3. CASE \A s \in Slots : ~Served(s)
  <2>1. UNCHANGED tables /\ \A g \in Slots : Kept(g) \/ Reset(g)
    BY <1>3, Quiets DEF Quiet
  <2>2. rows'[Me] = rows[Me]
    BY <2>1 DEF tables
  <2>3. \A g \in Slots : Reset(g) => calls'[g].pc # "rows"
    BY PeopleAssumption DEF Reset, Pcs
  <2> QED
    BY <1>1, <1>2, <2>1, <2>2, <2>3 DEF Kept
<1>4. ASSUME NEW s \in Slots, SetScan(s) \/ SetRow(s) \/ DeadlockVictim(s)
      PROVE  \A g \in Slots : Left(g)'
  <2>1. rows'[Me] = rows[Me]
    BY <1>4 DEF SetScan, Scan, SetRow, DeadlockVictim, tables
  <2>2. PICK d :
          /\ Moved(s, d)
          /\ \/ d.pc = "no"
             \/ /\ d.theirs = NothingPicked
                /\ d.targets = {k \in Activities \ Chosen(s) : rows[Me][k] # None}
             \/ /\ d.pc = calls[s].pc /\ d.theirs = calls[s].theirs
                /\ calls[s].targets \cup calls[s].held \subseteq d.targets \cup d.held
    BY <1>4, ScanIs, RowIs, VictimIs
  <2>3. /\ calls'[s] = d /\ d.body = calls[s].body
        /\ \A g \in Slots : g # s => calls'[g] = calls[g]
    BY <2>2, MovedIs DEF Moved
  <2>4. \A g \in Slots : g # s => Left(g)'
    BY <1>2, <2>1, <2>3
  <2>5. ASSUME d.theirs = NothingPicked,
               d.targets = {k \in Activities \ Chosen(s) : rows[Me][k] # None}
        PROVE  Left(s)'
    <3>1. Chosen(s)' = Chosen(s)
      BY <2>3 DEF Chosen
    <3> QED
      BY <2>1, <2>3, <2>5, <3>1 DEF Left, NothingPicked
  <2>6. Left(s)'
    BY <1>1, <1>2, <2>1, <2>2, <2>3, <2>5
  <2> QED
    BY <2>4, <2>6
<1>5. ASSUME NEW s \in Slots, SetCommit(s), NEW g \in Slots PROVE Left(g)'
  <2>1. /\ calls[s].op = "activities" /\ calls'[s].pc = "ok"
        /\ \A k \in Activities :
             rows'[Me][k] = IF k \in calls[s].held THEN calls[s].body[k] ELSE rows[Me][k]
        /\ g # s => IF Told(s, g) THEN Learns(g, s) ELSE calls'[g] = calls[g]
    BY <1>5, CommitIs, CommittedRows, ZenonT(60)
  <2>2. CASE g = s
    BY <1>1, <2>1, <2>2
  <2>3. CASE g # s /\ ~Told(s, g)
    <3>1. calls[g].pc = "rows" => calls[g].op = "activities" /\ calls[g].op # None
      BY PeopleAssumption DEF Shapes, Sound, Ops
    <3>2. calls[g].pc # "rows"
      BY <2>1, <2>3, <3>1 DEF Told
    <3> QED
      BY <1>1, <2>1, <2>3, <3>2
  <2>4. CASE g # s /\ Told(s, g)
    <3>1. Learns(g, s) /\ Chosen(g)' = Chosen(g)
      BY <2>1, <2>4 DEF Learns, Chosen
    <3> SUFFICES ASSUME calls[g].pc = "rows",
                        NEW k \in Activities \ (Chosen(g) \cup calls'[g].targets \cup calls[g].held)
                 PROVE  rows'[Me][k] = calls'[g].theirs[k]
      BY <3>1 DEF Left, At, Learns
    <3>2. CASE k \in calls[s].held
      BY <2>1, <3>1, <3>2 DEF Learns
    <3>3. CASE k \notin calls[s].held
      <4>1. k \notin calls[g].targets
        BY <3>1, <3>3 DEF Learns
      <4>2. rows[Me][k] = calls[g].theirs[k]
        BY <4>1 DEF Left, At
      <4> QED
        BY <2>1, <3>1, <3>3, <4>2 DEF Learns
    <3> QED
      BY <3>2, <3>3
  <2> QED
    BY <2>2, <2>3, <2>4
<1>6. ASSUME NEW s \in Slots, UpsertProfile(s) \/ SetLocation(s) \/ ClearLocation(s), NEW g \in Slots
      PROVE  Left(g)'
  <2>1. PICK pc \in {"ok", "no"} :
          Executed(s, pc) /\ At(s, "begin") /\ calls[s].op \in {"profile", "locate", "clear"}
    BY <1>6, RouteIs
  <2>2. /\ calls'[s].pc = pc /\ (g # s => calls'[g].pc = calls[g].pc)
        /\ calls'[g].body = calls[g].body /\ calls'[g].theirs = calls[g].theirs
        /\ calls'[g].targets = calls[g].targets /\ calls'[g].held = calls[g].held
    BY <2>1, ExecutedIs
  <2>3. rows' = rows
    BY <1>6 DEF UpsertProfile, SetLocation, LocationWritten, ClearLocation
  <2> QED
    BY <1>1, <1>2, <2>2, <2>3
<1> QED
  BY <1>3, <1>4, <1>5, <1>6 DEF Served, Serve

-----------------------------------------------------------------------------
(* Searches *)

\* The block rows stand.
LEMMA BlocksStand ==
  ASSUME Shapes, [Next]_vars
  PROVE  blocks' = blocks
<1>1. CASE \A s \in Slots : ~Served(s)
  BY <1>1, Quiets DEF Quiet, tables
<1>2. CASE \E s \in Slots : Served(s)
  BY <1>2 DEF Served, Serve, SetScan, Scan, SetRow, DeadlockVictim, SetCommit,
              UpsertProfile, SetLocation, LocationWritten, ClearLocation, tables
<1> QED
  BY <1>1, <1>2

\* What is told is forgotten, or stays.
Forgets ==
  /\ withdrawn' \subseteq withdrawn
  /\ search' \in SearchSet /\ search'.knew \subseteq search.knew
  /\ search'.by = search.by /\ search'.found = search.found

\* A gesture that undoes what Me was told.
LEMMA UndoForgets ==
  ASSUME Shapes, NEW x, Undo(x)
  PROVE  Forgets
  BY DEF Shapes, SearchSet, Undo, Forgets

\* Nobody is told anything.
LEMMA StandForgets ==
  ASSUME Shapes, UNCHANGED <<search, withdrawn>>
  PROVE  Forgets
  BY DEF Shapes, Forgets

\* Only answers tell, and only searches search.
LEMMA Forgetful ==
  ASSUME Shapes, [Next]_vars, \A s \in Slots : ~Answered(s), ~Searching
  PROVE  Forgets
<1>1. ASSUME NEW s \in Slots, Served(s) PROVE Forgets
  BY <1>1, StandForgets
     DEF Served, Serve, SetScan, Scan, SetRow, DeadlockVictim, SetCommit,
         UpsertProfile, SetLocation, LocationWritten, ClearLocation
<1>2. ASSUME NEW t \in Tabs, Load(t) \/ LoadFailed(t) PROVE Forgets
  BY <1>2, StandForgets DEF Load, LoadedProfile, LoadedActivities, ShowActivities, LoadFailed, people
<1>3. ASSUME NEW t \in Tabs, Gesture(t) PROVE Forgets
  BY <1>3, StandForgets, UndoForgets
     DEF Gesture, Toggle, SetAvailability, SetDiscoverable, SetHidden, Edit, people,
         SaveProfile, SaveActivities, UseBrowserLocation, ManualLocation, ClearMyLocation, Visit
<1>4. ASSUME NEW s \in Slots, Refused(s) \/ PositionFound(s) \/ Fault(s) PROVE Forgets
  BY <1>4, StandForgets, UndoForgets
     DEF Refused, PositionFound, Fault, PositionFails, Lose, LoseRunning
<1>5. ASSUME UNCHANGED vars PROVE Forgets
  BY <1>5, StandForgets DEF vars, people
<1> QED
  BY <1>1, <1>2, <1>3, <1>4, <1>5 DEF Next, Step

\* No step undoes what is known while it stays known.
LEMMA QuietGone ==
  ASSUME Shapes, Gone, Quiet, Known' \subseteq Known
  PROVE  Gone'
<1>1. UNCHANGED <<profile, place>>
  BY DEF Quiet, tables
<1>2. ASSUME "profile" \in Known', NEW g \in Slots PROVE calls'[g].op # "profile"
  <2>1. \A s \in Slots : calls[s].op # "profile"
    BY <1>2 DEF Gone
  <2>2. CASE Kept(g)
    BY <2>1, <2>2 DEF Kept
  <2>3. CASE Reset(g) /\ Asked(g)
    <3>1. calls'[g].pc = "geo" => calls'[g].op = "locate"
      BY <2>3 DEF Reset, Sound
    <3> QED
      BY <1>2, <2>1, <2>3, <3>1 DEF Asked, Section
  <2> QED
    BY <2>2, <2>3 DEF Quiet
<1>3. ASSUME "place" \in Known', NEW g \in Slots, calls'[g].op = "locate" PROVE calls'[g].pc = "geo"
  <2>1. \A s \in Slots : calls[s].op = "locate" => calls[s].pc = "geo"
    BY <1>3 DEF Gone, At
  <2>2. CASE Kept(g)
    BY <1>3, <2>1, <2>2 DEF Kept
  <2>3. CASE Reset(g) /\ Asked(g)
    BY <1>3, <2>1, <2>3 DEF Asked, Section
  <2> QED
    BY <2>2, <2>3 DEF Quiet
<1> QED
  BY <1>1, <1>2, <1>3 DEF Gone, At

\* A statement undoes nothing Me was told.
LEMMA ServedGone ==
  ASSUME Shapes, Locks, Gone, NEW s \in Slots, Served(s), Known' \subseteq Known
  PROVE  Gone'
<1> SUFFICES /\ "profile" \in Known /\ (\A g \in Slots : calls[g].op # "profile") => profile' = profile
             /\ "place" \in Known /\ (\A g \in Slots : calls[g].op = "locate" => calls[g].pc = "geo")
                  => place' = place \/ place'[Me] = None
             /\ \A g \in Slots : calls'[g].op = calls[g].op
             /\ \A g \in Slots : calls[g].pc = "geo" => calls'[g].pc = "geo"
  BY DEF Gone, At
<1>1. CASE SetScan(s) \/ SetRow(s) \/ DeadlockVictim(s)
  <2>1. UNCHANGED <<profile, place>>
    BY <1>1 DEF SetScan, Scan, SetRow, DeadlockVictim, tables
  <2>2. PICK d : Moved(s, d)
    BY <1>1, ScanIs, RowIs, VictimIs
  <2>3. calls[s].pc # "geo"
    <3>1. CASE DeadlockVictim(s)
      <4>1. calls[s].want # None
        BY <3>1, PeopleAssumption DEF DeadlockVictim, Deadlocked, Shapes, CallSet
      <4> QED
        BY <4>1 DEF Shapes, Sound, Idle
    <3> QED
      BY <1>1, <3>1 DEF SetScan, Scan, SetRow, At
  <2> QED
    BY <2>1, <2>2, <2>3, MovedIs DEF Moved
<1>2. CASE SetCommit(s)
  BY <1>2, CommitIs, CommittedRows DEF Learns
<1>3. CASE UpsertProfile(s) \/ SetLocation(s) \/ ClearLocation(s)
  <2>1. /\ UpsertProfile(s) => place' = place /\ calls[s].op = "profile"
        /\ SetLocation(s) => profile' = profile /\ calls[s].op = "locate" /\ At(s, "begin")
        /\ ClearLocation(s) => profile' = profile /\ place' = [place EXCEPT ![Me] = None]
    BY DEF UpsertProfile, SetLocation, LocationWritten, ClearLocation
  <2>2. Me \in Users /\ place \in [Users -> Places \cup {None}]
    BY PeopleAssumption DEF Shapes
  <2>3. \A g \in Slots : calls'[g].op = calls[g].op /\ (calls[g].pc = "geo" => calls'[g].pc = "geo")
    <3>1. PICK pc \in {"ok", "no"} :
            Executed(s, pc) /\ At(s, "begin") /\ calls[s].op \in {"profile", "locate", "clear"}
      BY <1>3, RouteIs
    <3> QED
      BY <3>1, ExecutedIs DEF At
  <2> QED
    BY <1>3, <2>1, <2>2, <2>3 DEF At
<1> QED
  BY <1>1, <1>2, <1>3 DEF Served, Serve

\* An answer tells only what is so.
LEMMA AnsweredGone ==
  ASSUME Shapes, Gone, NEW s \in Slots, Stored(s), Answered(s)
  PROVE  Gone' /\ withdrawn' \subseteq {"profile", "place"} /\ search' = search
<1>1. /\ At(s, "ok") /\ calls' = [calls EXCEPT ![s] = NoCall] /\ UNCHANGED tables /\ search' = search
      /\ withdrawn' = IF calls[s].caller = "page" /\ Withdraws(s)
                      THEN withdrawn \cup {Section(calls[s].op)} ELSE withdrawn
  BY DEF Answered, Ends
<1>2. CASE withdrawn' = withdrawn
  BY <1>1, <1>2, EndQuiet, QuietGone DEF Known, Shapes
<1>3. CASE withdrawn' # withdrawn
  <2> DEFINE x == Section(calls[s].op)
  <2>1. Withdraws(s) /\ withdrawn' = withdrawn \cup {x} /\ calls[s].sole
    BY <1>1, <1>3 DEF Withdraws
  <2>2. \A g \in Slots : calls'[g] = IF g = s THEN NoCall ELSE calls[g]
    BY <1>1 DEF Shapes
  <2>3. NoCall.op \notin {"profile", "locate"}
    BY NoCallSound, PeopleAssumption DEF Ops
  <2>4. \A g \in Slots : g # s /\ calls[g].pc \notin {None, "geo"} => Section(calls[g].op) # x
    BY <2>1 DEF Withdraws, Others
  <2>5. \A g \in Slots : /\ calls[g].op = "profile" => calls[g].pc \notin {None, "geo"}
                         /\ calls[g].op = "locate" => calls[g].pc # None
    BY PeopleAssumption DEF Shapes, Sound, Ops
  <2>6. CASE calls[s].op = "profile" /\ ~Visible(calls[s].body)
    <3>1. x = "profile" /\ profile[Me] = calls[s].body
      BY <1>1, <2>1, <2>6 DEF Section, Stored
    <3>2. \A g \in Slots : calls'[g].op # "profile"
      BY <2>2, <2>3, <2>4, <2>5, <3>1 DEF Section
    <3>3. "place" \in Known' => "place" \in Known
      BY <1>1, <2>1, <3>1 DEF Known
    <3> QED
      BY <1>1, <2>1, <2>2, <2>3, <2>6, <3>1, <3>2, <3>3 DEF Gone, tables, At, Shapes
  <2>7. CASE calls[s].op = "clear"
    <3>1. x = "place" /\ place[Me] = None
      BY <1>1, <2>1, <2>7 DEF Section, Stored
    <3>2. \A g \in Slots : calls'[g].op = "locate" => calls'[g].pc = "geo"
      BY <2>2, <2>3, <2>4, <2>5, <3>1 DEF Section
    <3>3. "profile" \in Known' => "profile" \in Known
      BY <1>1, <2>1, <3>1 DEF Known
    <3> QED
      BY <1>1, <2>1, <2>2, <2>3, <3>1, <3>2, <3>3 DEF Gone, tables, At, Shapes
  <2> QED
    BY <2>1, <2>6, <2>7 DEF Withdraws
<1> QED
  BY <1>2, <1>3

\* Nobody finds who is hidden, nowhere, or blocked.
LEMMA NotAmongCandidates ==
  ASSUME Gone, NEW v, NEW x,
         \/ "profile" \in Known \/ "place" \in Known \/ BlockedEitherWay(v, Me)
  PROVE  Me \notin Candidates(v, x) /\ Me \notin MapCandidates(v, x)
  BY DEF Gone, Candidates, MapCandidates, Offers, Near, BlockedEitherWay

\* A search's own steps.
LEMMA SearchStep ==
  ASSUME Shapes, Gone, Unseen, Searching, blocks' = blocks
  PROVE  Unseen' /\ search' \in SearchSet /\ Known' \subseteq Known \cup {"block"}
<1>1. NoSearch \in SearchSet /\ NoSearch.knew = {} /\ NoSearch.found = {}
  BY DEF NoSearch, SearchSet
<1>2. ASSUME NEW who \in Searches, Search(who[1], who[2])
      PROVE  Unseen' /\ search' \in SearchSet /\ Known' \subseteq Known \cup {"block"}
  <2> DEFINE knew == withdrawn \cup IF BlockedEitherWay(who[1], Me) THEN {"block"} ELSE {}
             n == [NoSearch EXCEPT !.by = who[1], !.activity = who[2], !.pc = "check", !.knew = knew]
  <2>1. search' = n /\ withdrawn' = withdrawn
    BY <1>2 DEF Search
  <2>2. who[1] \in Users /\ who[2] \in Activities
    BY PageAssumption
  <2>3. knew \in SUBSET {"profile", "place", "block"}
    BY DEF Shapes
  <2>4. "block" \in knew => BlockedEitherWay(who[1], Me)
    BY DEF Shapes
  <2>5. knew \subseteq withdrawn \cup {"block"}
    OBVIOUS
  <2> HIDE DEF knew
  <2>6. n \in SearchSet /\ n.by = who[1] /\ n.knew = knew /\ n.found = {}
    BY <1>1, <2>2, <2>3 DEF SearchSet
  <2> QED
    BY <2>1, <2>4, <2>5, <2>6 DEF Unseen, Known, BlockedEitherWay
<1>3. CASE CheckLocation
  <2> DEFINE n == [search EXCEPT !.pc = "query"]
  <2>1. n \in SearchSet /\ n.knew = search.knew /\ n.found = search.found /\ n.by = search.by
    BY DEF Shapes, SearchSet
  <2>2. search' = NoSearch \/ search' = n
    BY <1>3 DEF CheckLocation
  <2>3. withdrawn' = withdrawn
    BY <1>3 DEF CheckLocation
  <2> QED
    BY <1>1, <2>1, <2>2, <2>3 DEF Unseen, Known, BlockedEitherWay
<1>4. CASE Query
  <2>1. PICK found \in {Candidates(search.by, search.activity), MapCandidates(search.by, search.activity)} :
          search' = [search EXCEPT !.pc = "shown", !.found = found]
    BY <1>4 DEF Query
  <2>2. found \in SUBSET Users
    BY DEF Candidates, MapCandidates
  <2>3. search.knew # {} => Me \notin found
    BY NotAmongCandidates DEF Known, Unseen, Shapes, SearchSet
  <2>4. search' \in SearchSet /\ search'.knew = search.knew /\ search'.found = found /\ search'.by = search.by
    BY <2>1, <2>2 DEF Shapes, SearchSet
  <2>5. withdrawn' = withdrawn
    BY <1>4 DEF Query
  <2> QED
    BY <2>3, <2>4, <2>5 DEF Unseen, Known, BlockedEitherWay
<1>5. CASE SearchAgain
  BY <1>1, <1>5 DEF SearchAgain, Unseen, Known
<1>6. CASE SearchFails
  <2>1. search' \in {NoSearch, [search EXCEPT !.pc = "check"]} /\ withdrawn' = withdrawn
    BY <1>6 DEF SearchFails
  <2>2. CASE search' = NoSearch
    BY <1>1, <2>1, <2>2 DEF Unseen, Known
  <2>3. CASE search' = [search EXCEPT !.pc = "check"]
    BY <2>1, <2>3 DEF Unseen, Known, Shapes, SearchSet, BlockedEitherWay
  <2> QED
    BY <2>1, <2>2, <2>3
<1> QED
  BY <1>2, <1>3, <1>4, <1>5, <1>6 DEF Searching

\* What is known, and the search.
LEMMA HiddenStep ==
  ASSUME Shapes, Locks, \A s \in Slots : Stored(s), Gone, Unseen, [Next]_vars
  PROVE  Gone' /\ Unseen' /\ search' \in SearchSet /\ withdrawn' \subseteq {"profile", "place"}
<1>1. blocks' = blocks
  BY BlocksStand
<1>2. ASSUME NEW s \in Slots, Answered(s)
      PROVE  Gone' /\ Unseen' /\ search' \in SearchSet /\ withdrawn' \subseteq {"profile", "place"}
  BY <1>1, <1>2, AnsweredGone DEF Unseen, BlockedEitherWay, Shapes
<1>3. ASSUME Searching
      PROVE  Gone' /\ Unseen' /\ search' \in SearchSet /\ withdrawn' \subseteq {"profile", "place"}
  <2>1. Unseen' /\ search' \in SearchSet /\ Known' \subseteq Known \cup {"block"}
    BY <1>1, <1>3, SearchStep
  <2>2. UNCHANGED <<tables, calls, withdrawn>>
    BY <1>3 DEF Searching, Search, CheckLocation, Query, SearchFails, SearchAgain
  <2>3. Gone'
    BY <2>1, <2>2 DEF Gone, tables, At
  <2> QED
    BY <2>1, <2>2, <2>3 DEF Shapes
<1>4. ASSUME Forgets
      PROVE  Gone' /\ Unseen' /\ search' \in SearchSet /\ withdrawn' \subseteq {"profile", "place"}
  <2>1. Known' \subseteq Known
    BY <1>4 DEF Forgets, Known
  <2>2. Gone'
    <3>1. CASE \A s \in Slots : ~Served(s)
      BY <2>1, <3>1, Quiets, QuietGone
    <3> QED
      BY <2>1, <3>1, ServedGone
  <2>3. Unseen'
    BY <1>1, <1>4 DEF Forgets, Unseen, BlockedEitherWay
  <2> QED
    BY <1>4, <2>2, <2>3 DEF Forgets, Shapes
<1> QED
  BY <1>2, <1>3, <1>4, Forgetful

-----------------------------------------------------------------------------
(* Who awaits a save. *)

\* A page hears of a call.
Hears(s, t, op) == calls[s].caller = "page" /\ calls[s].tab = t /\ calls[s].op = op
Awaits(t) ==
  /\ \A op \in Sections :
       /\ op \in screen[t].saving <=> \E s \in Slots : Hears(s, t, op)
       /\ \A s, g \in Slots : Hears(s, t, op) /\ Hears(g, t, op) => s = g
  /\ screen[t].loc = "saving" => \E s \in Slots : Hears(s, t, "locate") \/ Hears(s, t, "clear")
AllAwait == \A t \in Tabs : Awaits(t)

\* A call is heard by whom it was.
SameEar(g, h) ==
  calls'[h].caller = calls[g].caller /\ calls'[h].tab = calls[g].tab /\ calls'[h].op = calls[g].op
\* A page goes on saying what it is saving.
SameSaving(t) == screen'[t].saving = screen[t].saving /\ screen'[t].loc = screen[t].loc

\* Nothing changes for those who wait.
LEMMA AwaitsStand ==
  ASSUME AllAwait, \A g \in Slots : SameEar(g, g), \A t \in Tabs : SameSaving(t)
  PROVE  AllAwait'
  BY DEF AllAwait, Awaits, Hears, SameEar, SameSaving

\* Nobody hears of an unused slot.
LEMMA NoCallUnheard == NoCall.caller = "nobody"
  BY DEF NoCall

\* A call that is over leaves its page waiting for it no more.
LEMMA EndAwaits ==
  ASSUME Shapes, AllAwait, NEW s \in Slots, calls' = [calls EXCEPT ![s] = NoCall],
         calls[s].op # None,
         NEW p,
         screen' = (IF calls[s].caller = "page" THEN [screen EXCEPT ![calls[s].tab] = p] ELSE screen),
         calls[s].op \in Sections =>
           p.saving = screen[calls[s].tab].saving \ {calls[s].op} /\ p.loc = screen[calls[s].tab].loc,
         calls[s].op \notin Sections =>
           p.saving = screen[calls[s].tab].saving /\ p.loc # "saving"
  PROVE  AllAwait'
<1> DEFINE t == calls[s].tab
           op == calls[s].op
<1>1. t \in Tabs /\ screen \in [Tabs -> ScreenSet]
  BY DEF Shapes, Sound
<1>2. /\ \A g \in Slots : g # s => SameEar(g, g)
      /\ calls'[s].caller # "page"
  BY NoCallUnheard DEF Shapes, SameEar
<1>3. \A u \in Tabs : ~(calls[s].caller = "page" /\ u = t) => SameSaving(u)
  BY <1>1 DEF SameSaving
<1>4. ASSUME NEW u \in Tabs PROVE Awaits(u)'
  <2>1. Awaits(u)
    BY DEF AllAwait
  <2>2. \A x : \A g \in Slots : Hears(g, u, x)' <=> (g # s /\ Hears(g, u, x))
    BY <1>2 DEF Hears, SameEar
  <2>3. CASE ~(calls[s].caller = "page" /\ u = t)
    <3>1. \A x : ~Hears(s, u, x)
      BY <2>3 DEF Hears
    <3> QED
      BY <1>3, <2>1, <2>2, <2>3, <3>1 DEF Awaits, SameSaving
  <2>4. CASE calls[s].caller = "page" /\ u = t
    <3>1. screen'[u] = p
      BY <1>1, <2>4
    <3>2. \A x : Hears(s, u, x) <=> x = op
      BY <2>4 DEF Hears
    <3>3. CASE op \in Sections
      <4>1. p.saving = screen[u].saving \ {op} /\ p.loc = screen[u].loc /\ op \notin {"locate", "clear"}
        BY <2>4, <3>3 DEF Sections
      <4> QED
        BY <2>1, <2>2, <3>1, <3>2, <4>1 DEF Awaits
    <3>4. CASE op \notin Sections
      <4>1. p.saving = screen[u].saving /\ p.loc # "saving"
        BY <2>4, <3>4
      <4> QED
        BY <2>1, <2>2, <3>1, <3>2, <3>4, <4>1 DEF Awaits
    <3> QED
      BY <3>3, <3>4
  <2> QED
    BY <2>3, <2>4
<1> QED
  BY <1>4 DEF AllAwait

\* A button is pressed: the page waits for the new call.
LEMMA ClickAwaits ==
  ASSUME Shapes, AllAwait, NEW t \in Tabs, NEW c, NEW p, Click(t, c, p),
         c.caller = "page", c.tab = t,
         \/ /\ c.op \in Sections /\ c.op \notin screen[t].saving
            /\ p.saving = screen[t].saving \cup {c.op} /\ p.loc = screen[t].loc
         \/ c.op \in {"locate", "clear"} /\ p.saving = screen[t].saving
  PROVE  AllAwait'
<1>1. PICK n \in Slots : calls[n] = NoCall /\ calls' = [calls EXCEPT ![n] = c]
  BY NextSlotFree DEF Click
<1>2. screen' = [screen EXCEPT ![t] = p]
  BY DEF Click
<1>3. screen'[t] = p /\ \A u \in Tabs : u # t => screen'[u] = screen[u]
  BY <1>2 DEF Shapes
<1>4. calls'[n] = c /\ \A g \in Slots : g # n => calls'[g] = calls[g]
  BY <1>1, <1>2 DEF Shapes
<1>5. ASSUME NEW u \in Tabs PROVE Awaits(u)'
  <2>1. Awaits(u)
    BY DEF AllAwait
  <2>2. \A x : \A g \in Slots : g # n => (Hears(g, u, x)' <=> Hears(g, u, x))
    BY <1>4 DEF Hears
  <2>3. \A x : ~Hears(n, u, x)
    BY <1>1, NoCallUnheard DEF Hears
  <2>4. \A x : Hears(n, u, x)' <=> u = t /\ x = c.op
    BY <1>4 DEF Hears
  <2>5. CASE u # t
    BY <1>1, <1>3, <2>1, <2>2, <2>3, <2>4, <2>5 DEF Awaits
  <2>6. CASE u = t
    <3>1. "locate" \notin Sections /\ "clear" \notin Sections
      BY DEF Sections
    <3>2. ASSUME NEW x \in Sections PROVE x \in p.saving <=> \E g \in Slots : Hears(g, u, x)'
      <4>1. x \in p.saving <=> x \in screen[u].saving \/ x = c.op
        BY <2>6, <3>1
      <4>2. x \in screen[u].saving <=> \E g \in Slots : Hears(g, u, x)
        BY <2>1 DEF Awaits
      <4> QED
        BY <1>1, <2>2, <2>3, <2>4, <2>6, <4>1, <4>2
    <3>3. ASSUME NEW x \in Sections, NEW g \in Slots, NEW h \in Slots, Hears(g, u, x)', Hears(h, u, x)'
          PROVE  g = h
      <4>1. x = c.op => \A k \in Slots : ~Hears(k, u, x)
        BY <2>1, <2>6, <3>1, <3>3 DEF Awaits
      <4> QED
        BY <2>1, <2>2, <2>4, <3>3, <4>1 DEF Awaits
    <3>4. p.loc = "saving" => \E g \in Slots : Hears(g, u, "locate")' \/ Hears(g, u, "clear")'
      BY <1>1, <2>1, <2>2, <2>3, <2>4, <2>6 DEF Awaits
    <3> QED
      BY <1>3, <2>6, <3>2, <3>3, <3>4 DEF Awaits
  <2> QED
    BY <2>5, <2>6
<1> QED
  BY <1>5 DEF AllAwait

\* What the server does, nobody hears of yet.
LEMMA ServedAwaits ==
  ASSUME Shapes, Locks, AllAwait, NEW s \in Slots, Served(s)
  PROVE  AllAwait'
<1>1. ASSUME NEW t \in Tabs PROVE SameSaving(t)
  BY DEF Served, SameSaving, Shapes, ScreenSet
<1>2. ASSUME NEW g \in Slots PROVE SameEar(g, g)
  <2>1. calls[g] \in CallSet /\ calls \in [Slots -> CallSet]
    BY DEF Shapes
  <2>2. CASE SetScan(s)
    BY <2>1, <2>2 DEF SetScan, Scan, SameEar, CallSet
  <2>3. CASE SetRow(s)
    BY <2>1, <2>3 DEF SetRow, SameEar, CallSet
  <2>4. CASE DeadlockVictim(s)
    BY <2>1, <2>4 DEF DeadlockVictim, SameEar, CallSet
  <2>5. CASE SetCommit(s)
    BY <2>1, <2>5 DEF SetCommit, Overtaken, SameEar, CallSet
  <2>6. ASSUME NEW pc, Executed(s, pc) PROVE SameEar(g, g)
    BY <2>1, <2>6 DEF Executed, SameEar, CallSet
  <2>7. CASE UpsertProfile(s) \/ SetLocation(s) \/ ClearLocation(s)
    BY <2>6, <2>7 DEF UpsertProfile, SetLocation, LocationWritten, ClearLocation
  <2> QED
    BY <2>2, <2>3, <2>4, <2>5, <2>7 DEF Served, Serve
<1> QED
  BY <1>1, <1>2, AwaitsStand

\* The page hears how its call has ended.
LEMMA HeardAwaits ==
  ASSUME Shapes, AllAwait, NEW s \in Slots, Answered(s) \/ Refused(s) \/ PositionFails(s)
  PROVE  AllAwait'
<1> DEFINE t == calls[s].tab
           op == calls[s].op
           old == screen[t]
<1>1. calls[s].pc # None
  BY PeopleAssumption DEF Answered, Refused, PositionFails, At, Pcs
<1>2. op # None /\ op \in Ops /\ old \in ScreenSet /\ screen \in [Tabs -> ScreenSet] /\ t \in Tabs
  BY <1>1 DEF Shapes, Sound, CallSet
<1>3. CASE Answered(s)
  <2> DEFINE true == IF calls[s].sole /\ calls[s].body = Shown(t, op) THEN {op} ELSE {}
             p == CASE op = "locate" -> [old EXCEPT !.loc = "saved"]
                    [] op = "clear" -> [old EXCEPT !.loc = "idle"]
                    [] OTHER -> [old EXCEPT !.saving = @ \ {op}, !.clean = @ \cup true]
  <2>1. Ends(s, p)
    BY <1>3 DEF Answered
  <2>2. op \in Sections => p.saving = old.saving \ {op} /\ p.loc = old.loc
    BY <1>2 DEF Sections, ScreenSet
  <2>3. op \notin Sections => p.saving = old.saving /\ p.loc # "saving"
    BY <1>2 DEF Sections, ScreenSet, Ops
  <2> HIDE DEF p
  <2> QED
    BY <1>2, <2>1, <2>2, <2>3, EndAwaits DEF Ends
<1>4. CASE Refused(s)
  <2> DEFINE p == IF op \in Sections THEN [old EXCEPT !.saving = @ \ {op}] ELSE [old EXCEPT !.loc = "error"]
  <2>1. Ends(s, p)
    BY <1>4 DEF Refused
  <2>2. /\ op \in Sections => p.saving = old.saving \ {op} /\ p.loc = old.loc
        /\ op \notin Sections => p.saving = old.saving /\ p.loc # "saving"
    BY <1>2 DEF ScreenSet
  <2> HIDE DEF p
  <2> QED
    BY <1>2, <2>1, <2>2, EndAwaits DEF Ends
<1>5. CASE PositionFails(s)
  <2> DEFINE p == [old EXCEPT !.loc = "error"]
  <2>1. op \notin Sections
    BY <1>5 DEF PositionFails, At, Shapes, Sound, Sections
  <2>2. p.saving = old.saving /\ p.loc # "saving"
    BY <1>2 DEF ScreenSet
  <2>3. screen' = IF calls[s].caller = "page" THEN [screen EXCEPT ![t] = p] ELSE screen
    BY <1>2, <1>5 DEF PositionFails
  <2>4. calls' = [calls EXCEPT ![s] = NoCall]
    BY <1>5 DEF PositionFails
  <2> HIDE DEF p
  <2> QED
    BY <1>2, <2>1, <2>2, <2>3, <2>4, EndAwaits
<1> QED
  BY <1>3, <1>4, <1>5

\* The browser knows where it is: the page goes on waiting, now for the server.
LEMMA FoundAwaits ==
  ASSUME Shapes, AllAwait, NEW s \in Slots, PositionFound(s)
  PROVE  AllAwait'
<1>1. calls[s].op = "locate" /\ calls \in [Slots -> CallSet] /\ screen \in [Tabs -> ScreenSet]
  BY DEF PositionFound, At, Shapes, Sound
<1>2. \A g \in Slots : SameEar(g, g)
  BY <1>1 DEF PositionFound, Goto, SameEar, CallSet
<1>3. ASSUME NEW t \in Tabs
      PROVE  screen'[t].saving = screen[t].saving /\ (SameSaving(t) \/ Hears(s, t, "locate"))
  BY <1>1 DEF PositionFound, SameSaving, Hears, ScreenSet
<1> QED
  BY <1>2, <1>3 DEF AllAwait, Awaits, Hears, SameEar, SameSaving

\* Who awaits an attempt awaits the next one.
LEMMA AgainHeard ==
  ASSUME Shapes, NEW s \in Slots, Alive(s)
  PROVE  LET d == Again(s) IN d.caller = calls[s].caller /\ d.tab = calls[s].tab /\ d.op = calls[s].op
<1> DEFINE c == calls[s]
           new == NewCall(c.tab, c.op, c.body)
<1>1. c \in CallSet /\ c.op \in Ops /\ c.tab \in Tabs /\ c.body \in Bodies
  BY PeopleAssumption DEF Shapes, Sound, Alive, CallSet, Pcs
<1>2. new \in CallSet /\ new.op = c.op /\ new.tab = c.tab
  BY <1>1, NewCallIs
<1>3. Again(s) = IF c.attempt < MaxAttempts
                 THEN [new EXCEPT !.caller = c.caller, !.keeps = c.keeps, !.attempt = c.attempt + 1]
                 ELSE [c EXCEPT !.pc = "failed", !.held = {}, !.targets = {}, !.want = None,
                                !.theirs = NothingPicked]
  BY DEF Again
<1> HIDE DEF new
<1> QED
  BY <1>1, <1>2, <1>3 DEF CallSet

\* Losses: what a page awaits may move to another slot.
LEMMA LossAwaits ==
  ASSUME Shapes, AllAwait, NEW s \in Slots, Lose(s) \/ LoseRunning(s)
  PROVE  AllAwait'
<1>1. PICK d : d = Again(s) /\ d.caller = calls[s].caller /\ d.tab = calls[s].tab /\ d.op = calls[s].op
  BY AgainHeard DEF Lose, LoseRunning
<1>2. \A t \in Tabs : SameSaving(t)
  BY DEF Lose, LoseRunning, SameSaving
<1>3. CASE Lose(s)
  <2>1. \A g \in Slots : SameEar(g, g)
    BY <1>1, <1>3 DEF Lose, SameEar, Shapes
  <2> QED
    BY <1>2, <2>1, AwaitsStand
<1>4. CASE LoseRunning(s)
  <2>1. PICK n \in Slots : /\ calls[n] = NoCall
                           /\ calls' = [calls EXCEPT ![s].caller = "nobody", ![n] = d]
    BY <1>1, <1>4, NextSlotFree DEF LoseRunning
  <2>2. n # s
    BY <1>4, <2>1, NoCallSound, PeopleAssumption DEF LoseRunning, Pcs
  <2>3. /\ calls'[s].caller = "nobody" /\ SameEar(s, n)
        /\ \A g \in Slots \ {s, n} : SameEar(g, g)
    BY <1>1, <2>1, <2>2 DEF Shapes, CallSet, SameEar
  <2>4. \A t \in Tabs : \A op : ~Hears(n, t, op) /\ ~Hears(s, t, op)'
    BY <2>1, <2>3, NoCallUnheard DEF Hears
  <2>5. \A t \in Tabs : \A op :
          /\ Hears(n, t, op)' <=> Hears(s, t, op)
          /\ \A g \in Slots \ {s, n} : Hears(g, t, op)' <=> Hears(g, t, op)
    BY <2>3 DEF Hears, SameEar
  <2>6. ASSUME NEW t \in Tabs PROVE Awaits(t)'
    <3>1. Awaits(t) /\ SameSaving(t)
      BY <1>2 DEF AllAwait
    <3>2. \A op : (\E g \in Slots : Hears(g, t, op)') <=> \E g \in Slots : Hears(g, t, op)
      BY <2>1, <2>4, <2>5
    <3>3. ASSUME NEW op \in Sections, NEW g \in Slots, NEW h \in Slots,
                 Hears(g, t, op)', Hears(h, t, op)'
          PROVE  g = h
      BY <2>4, <2>5, <3>1, <3>3 DEF Awaits
    <3> QED
      BY <3>1, <3>2, <3>3 DEF Awaits, SameSaving
  <2> QED
    BY <2>6 DEF AllAwait
<1> QED
  BY <1>3, <1>4

\* A page that has been left awaits nothing any more.
LEMMA VisitAwaits ==
  ASSUME Shapes, AllAwait, NEW t \in Tabs, Visit(t)
  PROVE  AllAwait'
<1>1. screen'[t] = Fresh /\ \A u \in Tabs : u # t => screen'[u] = screen[u]
  BY DEF Visit, Shapes
<1>2. Fresh.saving = {} /\ Fresh.loc = "idle"
  BY DEF Fresh
<1>3. ASSUME NEW g \in Slots
      PROVE  /\ calls'[g].tab = calls[g].tab /\ calls'[g].op = calls[g].op
             /\ calls'[g].caller = IF calls[g].tab = t /\ calls[g].caller = "page" THEN "tab"
                                   ELSE calls[g].caller
  BY DEF Visit, Shapes, CallSet
<1>4. ASSUME NEW u \in Tabs PROVE Awaits(u)'
  <2>1. CASE u = t
    <3>1. \A g \in Slots : \A op : ~Hears(g, u, op)'
      BY <1>3, <2>1 DEF Hears
    <3> QED
      BY <1>1, <1>2, <2>1, <3>1 DEF Awaits
  <2>2. CASE u # t
    <3>1. \A g \in Slots : \A op : Hears(g, u, op)' <=> Hears(g, u, op)
      BY <1>3, <2>2 DEF Hears
    <3> QED
      BY <1>1, <2>2, <3>1 DEF AllAwait, Awaits
  <2> QED
    BY <2>1, <2>2
<1> QED
  BY <1>4 DEF AllAwait

\* The buttons: a section's is off while its save is under way.
LEMMA ButtonsAwait ==
  ASSUME Shapes, AllAwait, NEW t \in Tabs,
         \/ SaveProfile(t) \/ SaveActivities(t) \/ UseBrowserLocation(t) \/ ManualLocation(t)
         \/ ClearMyLocation(t)
  PROVE  AllAwait'
<1> DEFINE old == screen[t]
<1>1. old \in ScreenSet
  BY DEF Shapes
<1>2. ASSUME NEW op, NEW body
      PROVE  LET c == NewCall(t, op, body) IN c.caller = "page" /\ c.tab = t /\ c.op = op
  BY DEF NewCall, NoCall
<1>3. ASSUME NEW c, NEW op \in Sections, c.caller = "page", c.tab = t, c.op = op,
             op \notin old.saving, Click(t, c, [old EXCEPT !.saving = @ \cup {op}])
      PROVE  AllAwait'
  <2> DEFINE p == [old EXCEPT !.saving = @ \cup {op}]
  <2>1. p.saving = old.saving \cup {op} /\ p.loc = old.loc
    BY <1>1 DEF ScreenSet
  <2> HIDE DEF p
  <2> QED
    BY <1>3, <2>1, ClickAwaits DEF p
<1>4. ASSUME NEW c, c.caller = "page", c.tab = t, c.op \in {"locate", "clear"},
             Click(t, c, [old EXCEPT !.loc = "saving"])
      PROVE  AllAwait'
  <2> DEFINE p == [old EXCEPT !.loc = "saving"]
  <2>1. p.saving = old.saving
    BY <1>1 DEF ScreenSet
  <2> HIDE DEF p
  <2> QED
    BY <1>4, <2>1, ClickAwaits DEF p
<1>5. CASE SaveProfile(t)
  <2> DEFINE c == NewCall(t, "profile", old.form)
  <2>1. c.caller = "page" /\ c.tab = t /\ c.op = "profile"
    BY <1>2
  <2>2. Click(t, c, [old EXCEPT !.saving = @ \cup {"profile"}]) /\ "profile" \notin old.saving
    BY <1>5 DEF SaveProfile
  <2> HIDE DEF c
  <2> QED
    BY <1>3, <2>1, <2>2 DEF Sections
<1>6. CASE SaveActivities(t)
  <2> DEFINE new == NewCall(t, "activities", old.sel)
             c == [new EXCEPT !.keeps = old.kept]
  <2>1. c.caller = "page" /\ c.tab = t /\ c.op = "activities"
    BY DEF NewCall, NoCall
  <2>2. Click(t, c, [old EXCEPT !.saving = @ \cup {"activities"}]) /\ "activities" \notin old.saving
    BY <1>6 DEF SaveActivities
  <2> HIDE DEF c
  <2> QED
    BY <1>3, <2>1, <2>2 DEF Sections
<1>7. CASE UseBrowserLocation(t)
  <2> DEFINE new == NewCall(t, "locate", 0)
             c == [new EXCEPT !.pc = "geo"]
  <2>1. c.caller = "page" /\ c.tab = t /\ c.op = "locate"
    BY DEF NewCall, NoCall
  <2>2. Click(t, c, [old EXCEPT !.loc = "saving"])
    BY <1>7 DEF UseBrowserLocation
  <2> HIDE DEF c
  <2> QED
    BY <1>4, <2>1, <2>2
<1>8. CASE ManualLocation(t)
  BY <1>2, <1>4, <1>8 DEF ManualLocation
<1>9. CASE ClearMyLocation(t)
  BY <1>2, <1>4, <1>9 DEF ClearMyLocation
<1> QED
  BY <1>5, <1>6, <1>7, <1>8, <1>9

\* Loading and editing start and end no save.
LEMMA PageAwaits ==
  ASSUME Shapes, AllAwait, NEW t \in Tabs, Load(t) \/ LoadFailed(t) \/ Gesture(t)
  PROVE  AllAwait'
<1> DEFINE old == screen[t]
<1>1. old \in ScreenSet /\ screen \in [Tabs -> ScreenSet]
  BY DEF Shapes
<1>2. ASSUME NEW p, screen' = [screen EXCEPT ![t] = p], calls' = calls,
             p.saving = old.saving, p.loc = old.loc
      PROVE  AllAwait'
  <2>1. \A u \in Tabs : SameSaving(u)
    BY <1>1, <1>2 DEF SameSaving
  <2> QED
    BY <1>2, <2>1, AwaitsStand DEF SameEar
<1>3. CASE Load(t) \/ LoadFailed(t)
  <2>1. calls' = calls
    BY <1>3 DEF Load, LoadedProfile, LoadedActivities, ShowActivities, LoadFailed, people
  <2>2. CASE LoadedProfile(t)
    <3> DEFINE p == IF profile[Me] = None THEN [old EXCEPT !.at = "activities"]
                    ELSE [old EXCEPT !.at = "activities", !.form = profile[Me],
                                     !.clean = old.clean \cup {"profile"}]
    <3>1. p.saving = old.saving /\ p.loc = old.loc
      BY <1>1 DEF ScreenSet
    <3>2. screen' = [screen EXCEPT ![t] = p]
      BY <2>2 DEF LoadedProfile
    <3> HIDE DEF p
    <3> QED
      BY <1>2, <2>1, <3>1, <3>2
  <2>3. CASE LoadedActivities(t)
    <3> DEFINE p == [old EXCEPT !.at = "ready", !.sel = rows[Me], !.clean = @ \cup {"activities"},
                                !.kept = {k \in Activities : rows[Me][k] # None}]
    <3>1. p.saving = old.saving /\ p.loc = old.loc
      BY <1>1 DEF ScreenSet
    <3>2. screen' = [screen EXCEPT ![t] = p]
      BY <2>3 DEF LoadedActivities, ShowActivities
    <3> HIDE DEF p
    <3> QED
      BY <1>2, <2>1, <3>1, <3>2
  <2>4. CASE LoadFailed(t)
    <3> DEFINE p == [old EXCEPT !.at = IF @ = "profile" THEN "activities" ELSE "ready"]
    <3>1. p.saving = old.saving /\ p.loc = old.loc
      BY <1>1 DEF ScreenSet
    <3>2. screen' = [screen EXCEPT ![t] = p]
      BY <2>4 DEF LoadFailed
    <3> HIDE DEF p
    <3> QED
      BY <1>2, <2>1, <3>1, <3>2
  <2> QED
    BY <1>3, <2>2, <2>3, <2>4 DEF Load
<1>4. CASE \/ \E k \in Activities : Toggle(t, k) \/ SetAvailability(t, k)
           \/ SetDiscoverable(t) \/ SetHidden(t)
  <2>1. calls' = calls
    BY <1>4 DEF Toggle, SetAvailability, SetDiscoverable, SetHidden, Edit, people
  <2>2. ASSUME NEW section, NEW p, Edit(t, section, p), p.saving = old.saving, p.loc = old.loc,
               "clean" \in DOMAIN p, DOMAIN p = DOMAIN old
        PROVE  AllAwait'
    <3> DEFINE q == [p EXCEPT !.clean = @ \ {section}]
    <3>1. screen' = [screen EXCEPT ![t] = q]
      BY <2>2 DEF Edit
    <3>2. q.saving = old.saving /\ q.loc = old.loc
      BY <1>1, <2>2 DEF ScreenSet
    <3> HIDE DEF q
    <3> QED
      BY <1>2, <2>1, <3>1, <3>2
  <2>3. ASSUME NEW k \in Activities, Toggle(t, k) \/ SetAvailability(t, k) PROVE AllAwait'
    <3>1. CASE SetAvailability(t, k)
      <4>1. Edit(t, "activities", [old EXCEPT !.sel[k] = "TODAY"])
        BY <3>1 DEF SetAvailability
      <4> QED
        BY <1>1, <2>2, <4>1 DEF ScreenSet
    <3>2. CASE Toggle(t, k) /\ old.sel[k] = None
      <4>1. Edit(t, "activities", [old EXCEPT !.sel[k] = "NOW"])
        BY <3>2 DEF Toggle
      <4> QED
        BY <1>1, <2>2, <4>1 DEF ScreenSet
    <3>3. CASE Toggle(t, k) /\ old.sel[k] # None
      <4> DEFINE p == [old EXCEPT !.sel[k] = None, !.kept = @ \ {k}]
      <4>1. Edit(t, "activities", p)
        BY <3>3 DEF Toggle
      <4>2. p.saving = old.saving /\ p.loc = old.loc /\ "clean" \in DOMAIN p /\ DOMAIN p = DOMAIN old
        BY <1>1 DEF ScreenSet
      <4> HIDE DEF p
      <4> QED
        BY <2>2, <4>1, <4>2
    <3> QED
      BY <2>3, <3>1, <3>2, <3>3
  <2> QED
    BY <1>1, <1>4, <2>2, <2>3 DEF SetDiscoverable, SetHidden, ScreenSet
<1> QED
  BY <1>3, <1>4, VisitAwaits, ButtonsAwait DEF Gesture

\* Every step keeps a page's waits and its calls together.
LEMMA AwaitsStep ==
  ASSUME Shapes, Locks, AllAwait, [Next]_vars
  PROVE  AllAwait'
<1>1. CASE Searching /\ UNCHANGED screen
  <2>1. calls' = calls /\ screen' = screen
    BY <1>1 DEF Searching, Search, CheckLocation, Query, SearchFails, SearchAgain
  <2> QED
    BY <2>1, AwaitsStand DEF SameEar, SameSaving
<1>2. CASE UNCHANGED vars
  BY <1>2, AwaitsStand DEF vars, people, SameEar, SameSaving
<1> QED
  BY <1>1, <1>2, PageAwaits, ServedAwaits, HeardAwaits, FoundAwaits, LossAwaits
     DEF Next, Step, Fault

-----------------------------------------------------------------------------
(* Theorems *)

Inv ==
  /\ Shapes /\ Locks /\ Screens /\ \A s \in Slots : Stored(s) /\ Left(s)
  /\ Gone /\ Unseen
  /\ AllAwait

\* The pages loaded and edited, and nothing under way, are a good beginning.
LEMMA Beginning == Init => Inv
<1> SUFFICES ASSUME Init PROVE Inv
  OBVIOUS
<1>1. /\ calls = [s \in Slots |-> NoCall] /\ search = NoSearch /\ withdrawn = {}
      /\ rows = StartRows /\ place = StartPlaces
  BY DEF Init
<1>2. \A s \in Slots : calls[s] = NoCall
  BY <1>1
<1>3. profile \in [Users -> Form \cup {None}]
  <2>1. EmptyForm \in Form
    BY DEF EmptyForm, Form
  <2> QED
    BY <2>1 DEF Init
<1>4. Ticked(Edited) /\ Edited.clean = {}
  <2> DEFINE kept == {k \in Activities : OpenSel[k] # None /\ StartRows[Me][k] # None}
  <2>1. Fresh \in ScreenSet /\ Fresh.clean = {}
    BY FreshTicked DEF Ticked, Fresh
  <2>2. Edited = [Fresh EXCEPT !.at = "ready", !.form = OpenForm, !.sel = OpenSel, !.kept = kept]
    BY DEF Edited
  <2>3. kept \in SUBSET Activities /\ \A k \in kept : OpenSel[k] # None
    OBVIOUS
  <2> HIDE DEF kept
  <2> QED
    BY <2>1, <2>2, <2>3, PageAssumption DEF Ticked, ScreenSet
<1>5. Screens
  <2>1. Ticked(Fresh) /\ Fresh.clean = {} /\ Ticked(Edited) /\ Edited.clean = {}
    BY <1>4, FreshTicked DEF Fresh
  <2>2. screen = [t \in Tabs |-> IF t \in Opened THEN Edited ELSE Fresh]
    BY DEF Init
  <2> HIDE DEF Fresh, Edited
  <2> QED
    BY <2>1, <2>2 DEF Screens, SavedIsShown, Ticked
<1>6. Shapes
  <2>1. NoSearch \in SearchSet
    BY DEF NoSearch, SearchSet
  <2> QED
    BY <1>1, <1>3, <1>5, <2>1, NoCallSound, PageAssumption DEF Shapes, Screens, Sound
<1>7. Locks /\ \A s \in Slots : Stored(s) /\ Left(s)
  BY <1>2, NoCallSound, PeopleAssumption DEF Locks, Stored, Left, Idle, At, Pcs
<1>8. Gone /\ Unseen
  <2>1. Known = {} /\ search.knew = {}
    BY <1>1 DEF Known, NoSearch
  <2> QED
    BY <2>1 DEF Gone, Unseen
<1>9. AllAwait
  <2>1. Fresh.saving = {} /\ Fresh.loc = "idle"
    BY DEF Fresh
  <2>2. Edited.saving = {} /\ Edited.loc = "idle"
    BY DEF Edited, Fresh
  <2>3. \A t \in Tabs : screen[t].saving = {} /\ screen[t].loc = "idle"
    BY <2>1, <2>2 DEF Init
  <2> QED
    BY <1>2, <2>3, NoCallUnheard DEF AllAwait, Awaits, Hears
<1> QED
  BY <1>5, <1>6, <1>7, <1>8, <1>9 DEF Inv

\* The invariant is inductive.
LEMMA Always == Spec => []Inv
<1>1. Inv /\ [Next]_vars => Inv'
  <2> SUFFICES ASSUME Inv, [Next]_vars PROVE Inv'
    OBVIOUS
  <2>1. Shapes /\ Locks /\ Screens /\ (\A s \in Slots : Stored(s) /\ Left(s)) /\ Gone /\ Unseen
    BY DEF Inv
  <2>2. Locks' /\ Screens' /\ (\A s \in Slots : Stored(s)' /\ Left(s)')
    BY <2>1, LocksStep, ScreensStep, StoredStep, LeftStep
  <2>3. Gone' /\ Unseen' /\ search' \in SearchSet /\ withdrawn' \subseteq {"profile", "place"}
    BY <2>1, HiddenStep
  <2>4. Shapes'
    BY <2>1, <2>2, <2>3, CallsStep, TablesStep DEF Shapes, Screens
  <2>5. AllAwait'
    BY <2>1, AwaitsStep DEF Inv
  <2> QED
    BY <2>2, <2>3, <2>4, <2>5 DEF Inv
<1> QED
  BY <1>1, Beginning, PTL DEF Spec

\* The rows, calls and pages are what the code keeps, and a transaction waits
\* only for a row it is to write (profile.service.ts:106).
THEOREM PeopleTypes == Spec => []TypeOK
<1>1. Inv => TypeOK
  <2> SUFFICES ASSUME Inv PROVE TypeOK
    OBVIOUS
  <2>1. Shapes /\ Locks
    BY DEF Inv
  <2>2. withdrawn \cup search.knew \subseteq {"profile", "place", "block"}
    BY <2>1 DEF Shapes, SearchSet
  <2>3. \A s \in Slots :
          /\ calls[s].caller \in {"page", "tab", "nobody"} /\ calls[s].attempt \in 1..MaxAttempts
          /\ calls[s].targets \cup calls[s].held \subseteq Activities
    BY <2>1 DEF Shapes, CallSet
  <2>4. \A t \in Tabs :
          /\ screen[t].at \in {"profile", "activities", "ready"}
          /\ screen[t].form \in Form /\ screen[t].sel \in Selection
    BY <2>1 DEF Shapes, ScreenSet
  <2> QED
    BY <2>1, <2>2, <2>3, <2>4 DEF TypeOK, Locks, Shapes
<1> QED
  BY <1>1, Always, PTL

\* However saves of several tabs overlap, are lost or repeated, a page that has
\* heard that its section is saved shows what is stored, until somebody else
\* stores something (profile/page.tsx:132, 167).
THEOREM SavedStaysShown == Spec => []SavedIsShown
<1>1. Inv => SavedIsShown
  BY DEF Inv, Screens
<1> QED
  BY <1>1, Always, PTL

\* However answers, refusals, losses, repeats, visits and positions fall, a page
\* that says it is saving awaits an answer, and a section's button is off for
\* exactly one request (profile/page.tsx:345, 384, 402).
THEOREM SavesAreAnswerable == Spec => []SavingIsAwaited
<1>1. Inv => SavingIsAwaited
  BY DEF Inv, AllAwait, Awaits, Hears, SavingIsAwaited, Awaited
<1> QED
  BY <1>1, Always, PTL

\* Who has been told that she is hidden, or without location, is in no later
\* search; neither is who is blocked (discovery.repository.ts:82).
THEOREM WithdrawnStaysUnseen == Spec => []WithdrawnUnseen
<1>1. Inv => WithdrawnUnseen
  BY DEF Inv, Unseen, WithdrawnUnseen
<1> QED
  BY <1>1, Always, PTL

\* A commit is one call's, and leaves its rows.
LEMMA CommitOf ==
  ASSUME Inv, [Next]_vars, NEW s \in Slots, At(s, "rows"), calls'[s].pc = "ok"
  PROVE  SetCommit(s)
<1>1. Shapes /\ Locks
  BY DEF Inv
<1>2. CASE \A g \in Slots : ~Served(g)
  <2>1. Kept(s) \/ Reset(s)
    BY <1>1, <1>2, Quiets DEF Quiet
  <2> QED
    BY <2>1, PeopleAssumption DEF Kept, Reset, At, Pcs
<1>3. ASSUME NEW g \in Slots, Served(g), ~SetCommit(s) PROVE FALSE
  <2>1. CASE SetScan(g) \/ SetRow(g) \/ DeadlockVictim(g)
    <3>1. PICK d : Moved(g, d) /\ d.pc # "ok"
      BY <1>1, <2>1, ScanIs, RowIs, VictimIs
    <3> QED
      BY <1>1, <3>1, MovedIs DEF At
  <2>2. CASE SetCommit(g)
    <3>1. s # g
      BY <1>3, <2>2
    <3> QED
      BY <1>1, <2>2, <3>1, CommitIs DEF Learns, At
  <2>3. CASE UpsertProfile(g) \/ SetLocation(g) \/ ClearLocation(g)
    <3>1. PICK pc \in {"ok", "no"} :
            Executed(g, pc) /\ At(g, "begin") /\ calls[g].op \in {"profile", "locate", "clear"}
      BY <1>1, <2>3, RouteIs
    <3>2. s # g
      BY <3>1 DEF At
    <3>3. calls'[s].pc = calls[s].pc
      BY <1>1, <3>1, <3>2, ExecutedIs
    <3> QED
      BY <3>3 DEF At
  <2> QED
    BY <1>3, <2>1, <2>2, <2>3 DEF Served, Serve
<1> QED
  BY <1>2, <1>3

\* What a commit leaves of what its call had listed.
LEMMA CommitLeaves ==
  ASSUME Inv, [Next]_vars, NEW s \in Slots, At(s, "rows"), calls'[s].pc = "ok", NEW k \in Activities
  PROVE  \/ rows'[Me][k] = calls[s].body[k]
         \/ calls[s].body[k] = None /\ rows'[Me][k] = calls[s].theirs[k]
<1>1. SetCommit(s) /\ Shapes /\ Locks /\ Left(s)
  BY CommitOf DEF Inv
<1>2. /\ calls[s].targets = {} /\ Chosen(s) \subseteq calls[s].held
      /\ rows'[Me][k] = IF k \in calls[s].held THEN calls[s].body[k] ELSE rows[Me][k]
  BY <1>1, CommitIs, CommittedRows, ZenonT(60)
<1> QED
  BY <1>1, <1>2 DEF Left, At, Chosen

\* When a save commits, what is stored is the set it listed, as API.md:56 says,
\* but for what a save that committed after this one's deleteMany began has
\* listed, and then exactly as that one listed it (profile.service.ts:106).
THEOREM SavesReplaceAll == Spec => ReplacesAll
<1>1. Inv /\ [Next]_vars =>
        [\A s \in Slots :
           At(s, "rows") /\ calls'[s].pc = "ok" =>
             \A k \in Activities :
               \/ rows'[Me][k] = calls[s].body[k]
               \/ calls[s].body[k] = None /\ rows'[Me][k] = calls[s].theirs[k]]_vars
  BY CommitLeaves
<1> QED
  BY <1>1, Always, PTL DEF Spec, ReplacesAll

\* A save removes nothing its page had loaded and the user left ticked
\* (profile/page.tsx:104).
THEOREM SavesKeepTicked == Spec => KeepsTicked
<1>1. Inv /\ [Next]_vars =>
        [\A s \in Slots, k \in Activities :
           At(s, "rows") /\ calls'[s].pc = "ok" /\ k \in calls[s].keeps => rows'[Me][k] # None]_vars
  <2> SUFFICES ASSUME Inv, [Next]_vars, NEW s \in Slots, NEW k \in Activities,
                      At(s, "rows"), calls'[s].pc = "ok", k \in calls[s].keeps
               PROVE  rows'[Me][k] # None
    OBVIOUS
  <2>1. calls[s].body[k] # None
    BY DEF Inv, Shapes, Sound, At
  <2> QED
    BY <2>1, CommitLeaves
<1> QED
  BY <1>1, Always, PTL DEF Spec, KeepsTicked
=============================================================================
