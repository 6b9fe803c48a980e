-------------------------------- MODULE Pages --------------------------------
(***************************************************************************)
(* The connections and safety pages and the companion cards, in the tabs   *)
(* of one logged-in user, over ApiClient.  The services answer in one      *)
(* step: what goes on inside them is Relationships'.                       *)
(***************************************************************************)
EXTENDS ApiClient

CONSTANTS
  Peers,      \* the users on screen
  FirstPage,  \* the page a tab is on at first
  MaxGestures \* bound: buttons pressed, reports submitted, pages opened

ASSUME PagesAssumption ==
  /\ MaxGestures \in Nat /\ None \notin Peers
  /\ FirstPage \in [Tabs -> {"connections", "safety", "discover"}]

VARIABLES
  db,      \* my requests, connections and blocks, as the list routes show them
  filed,   \* the reports I have filed
  screen,
  gestures, reports  \* gestures so far, and the submitted reports among them

vars == <<client, db, filed, screen, gestures, reports>>
bounds == <<gestures, reports>>

Lists == {"incoming", "outgoing", "connections", "blocks"}
Between == Lists \ {"blocks"}
PageLists == [connections |-> Between, safety |-> {"blocks"}, discover |-> {}]

\* A service call: the lists a user has to be in and must not be in, and the
\* lists it puts the user into and takes the user from.
Service(needs, bars, adds, drops) ==
  [needs |-> needs, bars |-> bars, adds |-> adds, drops |-> drops]
Ops ==
  [accept  |-> Service({"incoming"}, {}, {"connections"}, {"incoming"}),
   decline |-> Service({"incoming"}, {}, {}, {"incoming"}),
   cancel  |-> Service({"outgoing"}, {}, {}, {"outgoing"}),
   unmatch |-> Service({"connections"}, {}, {}, {"connections"}),
   unblock |-> Service({"blocks"}, {}, {}, {"blocks"}),
   connect |-> Service({}, {"outgoing", "connections", "blocks"}, {"outgoing"}, {}),
   block   |-> Service({}, {"blocks"}, {"blocks"}, Between),
   report  |-> Service({}, {}, {}, {})]
\* The buttons of a list's rows, each disabled while busyId is the row's.
RowOps == {"accept", "decline", "cancel", "unmatch", "unblock"}
ListOf(op) == CHOOSE l \in Lists : l \in Ops[op].needs

NewPage(k) ==
  [page |-> k, shown |-> [l \in Lists |-> {}], loading |-> k # "discover", busy |-> None,
   asked |-> [p \in Peers |-> "idle"], hidden |-> {},
   modal |-> None, submitting |-> FALSE, done |-> FALSE]

\* The page once its lists are there.
Read(scr) == [scr EXCEPT !.loading = FALSE,
                         !.shown = [l \in Lists |-> IF l \in PageLists[scr.page] THEN db[l] ELSE {}]]

\* At first the pages are loaded; the peers and I have asked each other, or are
\* connected, or I have blocked them.
Init ==
  /\ ClientInit /\ filed = 0
  /\ \E begun \in {{"incoming", "outgoing"}, {"connections"}, {"blocks"}} :
       db = [l \in Lists |-> IF l \in begun THEN Peers ELSE {}]
  /\ screen = [t \in Tabs |-> Read(NewPage(FirstPage[t]))]
  /\ gestures = 0 /\ reports = 0

Gestured == gestures < MaxGestures /\ gestures' = gestures + 1 /\ UNCHANGED reports

-----------------------------------------------------------------------------
(* Opening a page *)

Mount(t, k, left) ==
  /\ Gestured /\ (k = "discover" \/ Free # {})
  /\ screen' = [screen EXCEPT ![t] = NewPage(k)]
  /\ calls' = IF k = "discover" THEN left
              ELSE [left EXCEPT ![NextSlot] =
                      [NoCall EXCEPT !.op = "load", !.tab = t, !.live = TRUE,
                                     !.pc = "loading", !.attempt = 1]]
  /\ UNCHANGED <<jar, losses, db, filed>>

\* Within the app: requests of the page before go on, nobody looks at their
\* answers, and the token stays.
Open(t, k) ==
  /\ k # screen[t].page
  /\ Mount(t, k, [s \in Slots |->
       IF calls[s].tab # t THEN calls[s]
       ELSE IF At(s, "loading") THEN NoCall ELSE [calls[s] EXCEPT !.live = FALSE]])
  /\ UNCHANGED cache

\* The module state and the calls of the tab are gone.
Reload(t) ==
  /\ Mount(t, screen[t].page, [s \in Slots |-> IF calls[s].tab = t THEN NoCall ELSE calls[s]])
  /\ cache' = [cache EXCEPT ![t] = None]

-----------------------------------------------------------------------------
(* loadAll and load: Promise.all of the GETs of a page *)

GetServed(s, l) ==
  /\ At(s, "loading") /\ l \in PageLists[screen[calls[s].tab].page] \ DOMAIN calls[s].got
  /\ calls' = [calls EXCEPT ![s].got = [k \in DOMAIN @ \cup {l} |-> IF k = l THEN db[l] ELSE @[k]]]
  /\ UNCHANGED <<jar, cache, losses, db, filed, screen, bounds>>

LoadEnds(s, shown, lost) ==
  LET t == calls[s].tab IN
  /\ screen' = [screen EXCEPT ![t].shown = shown, ![t].loading = FALSE,
                              ![t].busy = IF calls[s].op = "load" THEN @ ELSE None]
  /\ calls' = [calls EXCEPT ![s] = NoCall]
  /\ losses' = losses + lost
  /\ UNCHANGED <<jar, cache, db, filed, bounds>>

\* setIncoming forgotten.
LoadedInPart(s) ==
  LET scr == screen[calls[s].tab] IN
  /\ At(s, "loading") /\ DOMAIN calls[s].got = PageLists[scr.page]
  /\ LoadEnds(s, [l \in Lists |-> IF l \in DOMAIN calls[s].got \ {"incoming"}
                                  THEN calls[s].got[l] ELSE scr.shown[l]], 0)

Loaded(s) ==
  LET t == calls[s].tab
      got == calls[s].got
  IN
  /\ At(s, "loading") /\ DOMAIN got = PageLists[screen[t].page]
  /\ LoadEnds(s, [l \in Lists |-> IF l \in DOMAIN got THEN got[l] ELSE screen[t].shown[l]], 0)

\* One GET fails: the lists stay, the error is shown.
LoadFailed(s) ==
  At(s, "loading") /\ losses < MaxLosses /\ LoadEnds(s, screen[calls[s].tab].shown, 1)

-----------------------------------------------------------------------------
(* Buttons *)

Click(t, op, p, after) ==
  /\ Gestured
  /\ Send(t, op, p)
  /\ screen' = [screen EXCEPT ![t] = after]
  /\ UNCHANGED <<db, filed>>

\* act and handleUnblock.
Act(t, op, p) ==
  LET row == <<ListOf(op), p>> IN
  /\ ~screen[t].loading /\ screen[t].busy # row /\ p \in screen[t].shown[ListOf(op)]
  /\ Click(t, op, p, [screen[t] EXCEPT !.busy = row])

Card(t, p) == screen[t].page = "discover" /\ screen[t].modal = None /\ p \notin screen[t].hidden

Connect(t, p) ==
  /\ Card(t, p) /\ screen[t].asked[p] \notin {"sending", "sent"}
  /\ Click(t, "connect", p, [screen[t] EXCEPT !.asked[p] = "sending"])

Block(t, p) == Card(t, p) /\ Click(t, "block", p, screen[t])

\* ReportModal, opened on a card and submitted, or submitted again.
Submit(t, p) ==
  /\ \/ Card(t, p)
     \/ screen[t].modal = p /\ ~screen[t].submitting /\ ~screen[t].done
  /\ gestures < MaxGestures /\ gestures' = gestures + 1 /\ reports' = reports + 1
  /\ Send(t, "report", p)
  /\ screen' = [screen EXCEPT ![t].modal = p, ![t].submitting = TRUE, ![t].done = FALSE]
  /\ UNCHANGED <<db, filed>>

\* A modal that is gone is not told of its answer.
Orphaned(t) ==
  [s \in Slots |-> IF calls[s].tab = t /\ calls[s].op = "report"
                   THEN [calls[s] EXCEPT !.live = FALSE] ELSE calls[s]]
CloseReport(t) ==
  /\ screen[t].modal # None
  /\ screen' = [screen EXCEPT ![t].modal = None]
  /\ calls' = Orphaned(t)
  /\ UNCHANGED <<jar, cache, losses, db, filed, bounds>>

-----------------------------------------------------------------------------
(* The services *)

Serve(s) ==
  LET op == Ops[calls[s].op]
      p == calls[s].peer
      can == (\A l \in op.needs : p \in db[l]) /\ (\A l \in op.bars : p \notin db[l])
      moved(l) == IF l \in op.adds THEN db[l] \cup {p}
                  ELSE IF l \in op.drops THEN db[l] \ {p} ELSE db[l]
  IN
  /\ At(s, "admitted")
  /\ calls' = [calls EXCEPT ![s].pc = IF can THEN "ok" ELSE "no"]
  /\ db' = IF can THEN [l \in Lists |-> moved(l)] ELSE db
  /\ filed' = IF calls[s].op = "report" THEN filed + 1 ELSE filed
  /\ UNCHANGED <<jar, cache, losses, screen, bounds>>

-----------------------------------------------------------------------------
(* Answers *)

Settled(s) == calls[s].pc \in {"no", "failed"} \/ (At(s, "denied") /\ ~calls[s].allow)

Ends(s, after) ==
  /\ screen' = IF calls[s].live THEN [screen EXCEPT ![calls[s].tab] = after] ELSE screen
  /\ calls' = [calls EXCEPT ![s] = NoCall]
  /\ UNCHANGED <<jar, cache, losses, db, filed, bounds>>

\* act: the lists are loaded anew before busyId is cleared.
ActAnswered(s) ==
  LET t == calls[s].tab IN
  /\ At(s, "ok") /\ calls[s].op \in RowOps \ {"unblock"} /\ calls[s].live
  /\ screen' = [screen EXCEPT ![t].loading = TRUE]
  /\ calls' = [calls EXCEPT ![s] = [@ EXCEPT !.pc = "loading", !.header = 0, !.since = 0]]
  /\ UNCHANGED <<jar, cache, losses, db, filed, bounds>>

\* The list without the row, the card, the modal.
Answered(s) ==
  LET scr == screen[calls[s].tab]
      p == calls[s].peer
  IN
  /\ At(s, "ok")
  /\ \/ calls[s].op \in RowOps \ {"unblock"} /\ ~calls[s].live /\ Ends(s, scr)
     \/ /\ calls[s].op = "unblock"
        /\ Ends(s, [scr EXCEPT !.shown["blocks"] = @ \ {p}, !.busy = None])
     \/ calls[s].op = "connect" /\ Ends(s, [scr EXCEPT !.asked[p] = "sent"])
     \/ calls[s].op = "report" /\ Ends(s, [scr EXCEPT !.done = TRUE, !.submitting = FALSE])

\* The card disappears, with the modal that may be open on it.
BlockAnswered(s) ==
  LET t == calls[s].tab
      p == calls[s].peer
      over == screen[t].modal = p
  IN
  /\ At(s, "ok") /\ calls[s].op = "block"
  /\ screen' = IF calls[s].live
               THEN [screen EXCEPT ![t].hidden = @ \cup {p}, ![t].modal = IF over THEN None ELSE @]
               ELSE screen
  /\ calls' = [(IF calls[s].live /\ over THEN Orphaned(t) ELSE calls) EXCEPT ![s] = NoCall]
  /\ UNCHANGED <<jar, cache, losses, db, filed, bounds>>

\* Without the finally.
RefusedForGood(s) == Settled(s) /\ Ends(s, screen[calls[s].tab])

\* The error is shown, the button works again.
Refused(s) ==
  LET scr == screen[calls[s].tab]
      op == calls[s].op
  IN
  /\ Settled(s)
  /\ Ends(s, CASE op \in RowOps -> [scr EXCEPT !.busy = None]
               [] op = "connect" -> [scr EXCEPT !.asked[calls[s].peer] = "error"]
               [] op = "report" -> [scr EXCEPT !.submitting = FALSE]
               [] OTHER -> scr)

-----------------------------------------------------------------------------
(* Specification *)

Page(s) == ActAnswered(s) \/ Answered(s) \/ BlockAnswered(s) \/ Refused(s) \/ Loaded(s)
Step(s) ==
  \/ ClientStep(s) /\ UNCHANGED <<db, filed, screen, bounds>>
  \/ Serve(s) \/ Page(s) \/ \E l \in Lists : GetServed(s, l)
Gesture(t) ==
  \/ \E k \in DOMAIN PageLists : Open(t, k)
  \/ \E p \in Peers : Connect(t, p) \/ Block(t, p) \/ Submit(t, p)
  \/ \E p \in Peers, op \in RowOps : Act(t, op, p)
  \/ CloseReport(t) \/ Reload(t)
Fault(s) == LoadFailed(s) \/ (ClientFault(s) /\ UNCHANGED <<db, filed, screen, bounds>>)

Next ==
  \/ \E t \in Tabs : Gesture(t)
  \/ \E s \in Slots : Step(s) \/ Fault(s)

Spec == Init /\ [][Next]_vars
\* The server answers, or the browser gives up: fetch settles in the end.
Fairness == \A s \in Slots : WF_vars(Step(s))
FairSpec == Spec /\ Fairness

-----------------------------------------------------------------------------
(* Properties *)

\* An accept or decline that ends on screen has left the list, for the reload
\* it awaits was read after the answer (connections/page.tsx:61).  Peers ask
\* nothing anew here.
AnsweredLeavesList ==
  [][\A s \in Slots :
       calls[s].op \in {"accept", "decline"} /\ Loaded(s)
         => calls[s].peer \notin screen'[calls[s].tab].shown["incoming"]]_vars

\* The transparent retry never repeats a report: more reports than submissions
\* are filed only when a response was lost (api.ts:149).
OneReportPerSubmit == filed <= reports + losses

\* No spinner and no disabled button is for ever, whatever token refreshes,
\* losses and navigations do to the request behind it.
Waiting(t) ==
  \/ screen[t].loading \/ screen[t].busy # None
  \/ screen[t].submitting /\ screen[t].modal # None
  \/ \E p \in Peers : screen[t].asked[p] = "sending"
NothingHangs == \A t \in Tabs : []<>~Waiting(t)

\* Every spinner and disabled button has its own request, which will still
\* report to this page: a refusal, a late answer, a closed modal or a page left
\* never takes the one without the other.
Live(t, op, p) ==
  \E s \in Slots :
    calls[s].tab = t /\ calls[s].live /\ calls[s].op = op /\ calls[s].peer = p
WaitingIsAwaited ==
  \A t \in Tabs :
    /\ screen[t].loading => \E s \in Slots : At(s, "loading") /\ calls[s].tab = t
    /\ screen[t].busy # None =>
         \E op \in RowOps, p \in Peers : screen[t].busy = <<ListOf(op), p>> /\ Live(t, op, p)
    /\ screen[t].submitting /\ screen[t].modal # None => Live(t, "report", screen[t].modal)
    /\ \A p \in Peers : screen[t].asked[p] = "sending" => Live(t, "connect", p)
=============================================================================
