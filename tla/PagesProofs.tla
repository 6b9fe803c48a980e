------------------------------ MODULE PagesProofs ------------------------------
(***************************************************************************)
(* Theorems about the API client under the pages, for any number of tabs,  *)
(* requests at once, peers, attempts and losses.                           *)
(***************************************************************************)
EXTENDS Pages, FiniteSetTheorems, TLAPS

-----------------------------------------------------------------------------
(* Shapes *)

OpNames == {"accept", "decline", "cancel", "unmatch", "unblock", "connect", "block", "report", "load"}
Gots == {<<>>} \cup UNION {[D -> SUBSET (Peers \cup {None})] : D \in SUBSET Lists}
CallSet ==
  [op : OpNames \cup {None}, tab : Tabs \cup {None}, peer : Peers \cup {None}, live : BOOLEAN,
   pc : Pc \cup {None}, allow : BOOLEAN, awaits : Slots \cup {None},
   header : Nat, attempt : Nat, since : Nat, got : Gots]
Holds == {None} \cup Slots \cup Nat

Shapes ==
  /\ calls \in [Slots -> CallSet] /\ cache \in [Tabs -> Holds]
  /\ db \in [Lists -> SUBSET (Peers \cup {None})]

\* An unused slot is a call of no tab.
LEMMA NoCallShape == NoCall \in CallSet /\ NoCall.tab \notin Tabs
  BY ClientAssumption DEF NoCall, CallSet, Gots

\* What a free slot is.
LEMMA NextSlotFree == Free # {} => NextSlot \in Slots /\ calls[NextSlot] = NoCall
  BY DEF Free, NextSlot

\* What ensureCsrfToken makes of a call.
LEMMA EnsuredIs ==
  ASSUME NEW c \in CallSet, NEW s \in Slots, NEW held \in Holds
  PROVE  LET d == Ensured(c, s, held) IN
         /\ d \in CallSet
         /\ d.op = c.op /\ d.tab = c.tab /\ d.allow = c.allow /\ d.since = c.since
         /\ held \in Nat => d.pc = "ready" /\ d.awaits = None /\ d.header = held /\ d.attempt = 1
         /\ held \notin Nat =>
              /\ d.pc = "token" /\ d.header = c.header /\ d.attempt = c.attempt
              /\ d.awaits = IF held = None THEN s ELSE held
<1> DEFINE d == Ensured(c, s, held)
<1>1. CASE held \in Nat
  <2>1. d = [c EXCEPT !.pc = "ready", !.header = held, !.awaits = None, !.attempt = 1]
    BY <1>1 DEF Ensured
  <2> HIDE DEF d
  <2>2. d \in CallSet
    BY <1>1, <2>1 DEF CallSet, Pc
  <2>3. /\ d.op = c.op /\ d.tab = c.tab /\ d.allow = c.allow /\ d.since = c.since
        /\ d.pc = "ready" /\ d.awaits = None /\ d.header = held /\ d.attempt = 1
    BY <2>1 DEF CallSet
  <2> QED
    BY <1>1, <2>2, <2>3 DEF d
<1>2. CASE held \notin Nat
  <2>1. d = [c EXCEPT !.pc = "token", !.awaits = IF held = None THEN s ELSE held]
    BY <1>2 DEF Ensured
  <2> QED
    BY <1>2, <2>1 DEF CallSet, Pc, Holds
<1> QED
  BY <1>1, <1>2

\* A request as it begins.
NewRequest(t, op, p) ==
  [NoCall EXCEPT !.op = op, !.tab = t, !.peer = p, !.live = TRUE, !.allow = TRUE,
                 !.attempt = 1, !.since = jar]
\* What a request knows of itself as it begins.
LEMMA NewRequestIs ==
  ASSUME jar \in Nat, NEW t \in Tabs, NEW op \in OpNames, NEW p \in Peers
  PROVE  LET c == NewRequest(t, op, p) IN
         /\ c \in CallSet
         /\ c.op = op /\ c.tab = t /\ c.allow /\ c.attempt = 1 /\ c.since = jar /\ c.header = 0
  BY NoCallShape DEF NewRequest, NoCall, CallSet

\* One field more of a call.
LEMMA SetPc ==
  ASSUME Shapes, NEW s \in Slots, NEW pc \in Pc
  PROVE  [calls EXCEPT ![s].pc = pc] \in [Slots -> CallSet]
  BY DEF Shapes, CallSet
\* A request whose token did not come.
LEMMA FailedShape ==
  ASSUME NEW c \in CallSet
  PROVE  [c EXCEPT !.pc = "failed", !.awaits = None] \in CallSet
  BY DEF CallSet, Pc
\* A call nobody looks at is otherwise what it was.
LEMMA SetLive ==
  ASSUME NEW c \in CallSet
  PROVE  LET d == [c EXCEPT !.live = FALSE] IN
         /\ d \in CallSet
         /\ d.op = c.op /\ d.tab = c.tab /\ d.pc = c.pc /\ d.allow = c.allow /\ d.awaits = c.awaits
         /\ d.header = c.header /\ d.attempt = c.attempt /\ d.since = c.since
  BY DEF CallSet

\* The next attempt, or the last one's failure.
LEMMA AgainIs ==
  ASSUME NEW c \in CallSet
  PROVE  LET d == Again(c) IN
         /\ d \in CallSet
         /\ d.op = c.op /\ d.tab = c.tab /\ d.allow = c.allow /\ d.awaits = c.awaits
         /\ d.header = c.header /\ d.since = c.since
         /\ \/ d.pc = "ready" /\ c.attempt < MaxAttempts /\ d.attempt = c.attempt + 1
            \/ d.pc = "failed" /\ d.attempt = c.attempt
<1>1. CASE c.attempt < MaxAttempts
  <2> DEFINE n == c.attempt + 1
  <2>1. n \in Nat
    BY DEF CallSet
  <2> HIDE DEF n
  <2>2. Again(c) = [c EXCEPT !.pc = "ready", !.attempt = n]
    BY <1>1 DEF Again, n
  <2>3. [c EXCEPT !.pc = "ready", !.attempt = n] \in CallSet
    BY <2>1 DEF CallSet, Pc
  <2> QED
    BY <1>1, <2>2, <2>3 DEF CallSet, n
<1>2. CASE ~(c.attempt < MaxAttempts)
  BY <1>2 DEF Again, CallSet, Pc
<1> QED
  BY <1>1, <1>2

-----------------------------------------------------------------------------
(* What the steps do to the calls. *)

\* The step leaves what the client knows of the call.
Same(s) ==
  /\ calls'[s].op = calls[s].op /\ calls'[s].tab = calls[s].tab /\ calls'[s].pc = calls[s].pc
  /\ calls'[s].allow = calls[s].allow /\ calls'[s].awaits = calls[s].awaits
  /\ calls'[s].header = calls[s].header /\ calls'[s].attempt = calls[s].attempt
  /\ calls'[s].since = calls[s].since
  /\ calls[s] = NoCall => calls'[s] = NoCall
\* It ends the call, or begins the loading of a page.
Loads(s) ==
  /\ calls'[s].pc = "loading" /\ calls'[s].op \notin {"report", "connect"} /\ calls'[s].awaits = None
  /\ calls'[s].tab \in Tabs /\ calls'[s].attempt \in 1..MaxAttempts
  /\ calls'[s].header = 0 /\ calls'[s].since = 0
Quits(s) == calls[s].awaits = None /\ (calls'[s] = NoCall \/ Loads(s))
Passive ==
  /\ UNCHANGED <<jar, cache, filed>> /\ losses' \in losses..MaxLosses
  /\ reports' = reports /\ \A s \in Slots : Same(s) \/ Quits(s)

\* What an unused slot holds.
LEMMA NoCallIs ==
  /\ NoCall.awaits = None /\ NoCall.pc = None /\ NoCall.op = None /\ NoCall.tab = None
  /\ NoCall.header = 0 /\ NoCall.since = 0
  BY DEF NoCall

Waits ==
  \A s \in Slots :
    /\ calls[s].awaits # None <=> calls[s].pc \in {"token", "refresh"}
    /\ At(s, "refresh") => calls[s].awaits = s

Wiped(t) ==
  /\ cache' = [cache EXCEPT ![t] = None]
  /\ \A s \in Slots :
       IF calls[s].tab = t THEN calls'[s] = NoCall \/ Loads(s) ELSE Same(s) \/ Quits(s)
  /\ UNCHANGED <<jar, losses, filed, reports>>
Begins ==
  \E t \in Tabs, op \in OpNames, p \in Peers :
    Send(t, op, p) /\ filed' = filed /\ reports' = IF op = "report" THEN reports + 1 ELSE reports

\* A new page of a tab, over what is left of the calls.
LEMMA MountLoads ==
  ASSUME Shapes, TypeOK, NEW t \in Tabs, NEW k, NEW left \in [Slots -> CallSet], Mount(t, k, left),
         \A s \in Slots : calls[s] = NoCall => left[s] = NoCall
  PROVE  /\ calls' \in [Slots -> CallSet]
         /\ \A s \in Slots : calls'[s] = left[s] \/ (calls[s] = NoCall /\ Loads(s))
<1> DEFINE l == [NoCall EXCEPT !.op = "load", !.tab = t, !.live = TRUE, !.pc = "loading", !.attempt = 1]
<1>1. CASE k = "discover"
  BY <1>1 DEF Mount
<1>2. CASE k # "discover"
  <2>1. NextSlot \in Slots /\ calls[NextSlot] = NoCall
    BY <1>2, NextSlotFree DEF Mount
  <2>2. calls' = [left EXCEPT ![NextSlot] = l]
    BY <1>2 DEF Mount
  <2>3. /\ l \in CallSet /\ l.op = "load" /\ l.tab = t /\ l.pc = "loading" /\ l.awaits = None
        /\ l.attempt = 1 /\ l.header = 0 /\ l.since = 0
    <3>1. l \in CallSet
      BY NoCallShape DEF CallSet, Pc, OpNames
    <3>2. /\ l.op = "load" /\ l.tab = t /\ l.pc = "loading" /\ l.awaits = NoCall.awaits
          /\ l.attempt = 1 /\ l.header = NoCall.header /\ l.since = NoCall.since
      BY NoCallShape DEF CallSet
    <3> QED
      BY <3>1, <3>2, NoCallIs
  <2> HIDE DEF l
  <2>4. Loads(NextSlot)
    BY <2>1, <2>2, <2>3, ClientAssumption DEF Loads
  <2> QED
    BY <2>1, <2>2, <2>3, <2>4
<1> QED
  BY <1>1, <1>2

\* Opening a page, reloading it.
LEMMA OpenPassive ==
  ASSUME Shapes, TypeOK, Waits, NEW t \in Tabs, NEW k, Open(t, k)
  PROVE  calls' \in [Slots -> CallSet] /\ Passive
<1> DEFINE left == [s \in Slots |->
             IF calls[s].tab # t THEN calls[s]
             ELSE IF At(s, "loading") THEN NoCall ELSE [calls[s] EXCEPT !.live = FALSE]]
<1>1. Mount(t, k, left) /\ cache' = cache
  BY DEF Open
<1>2. left \in [Slots -> CallSet] /\ \A s \in Slots : calls[s] = NoCall => left[s] = NoCall
  BY NoCallShape, SetLive DEF Shapes
<1>3. \A s \in Slots : calls'[s] = left[s] \/ (calls[s] = NoCall /\ Loads(s))
  BY <1>1, <1>2, MountLoads, ZenonT(60)
<1>4. ASSUME NEW s \in Slots PROVE Same(s) \/ Quits(s)
  <2>1. CASE calls'[s] = calls[s]
    BY <2>1 DEF Same
  <2>2. CASE calls'[s] = [calls[s] EXCEPT !.live = FALSE] /\ calls[s].tab = t
    BY <2>2, NoCallShape DEF Same, Shapes, CallSet
  <2>3. CASE calls'[s] = NoCall /\ At(s, "loading")
    BY <2>3 DEF Quits, Waits, At
  <2>4. CASE calls[s] = NoCall /\ Loads(s)
    BY <2>4, NoCallIs DEF Quits
  <2> QED
    BY <1>2, <1>3, <2>1, <2>2, <2>3, <2>4
<1>5. calls' \in [Slots -> CallSet]
  BY <1>1, <1>2, MountLoads
<1>6. losses' \in losses..MaxLosses
  BY <1>1, ClientAssumption DEF Mount, TypeOK
<1> QED
  BY <1>1, <1>4, <1>5, <1>6 DEF Mount, Passive, Gestured

\* A reload leaves nothing of the tab's calls and of its promise.
LEMMA ReloadWipes ==
  ASSUME Shapes, TypeOK, NEW t \in Tabs, Reload(t)
  PROVE  calls' \in [Slots -> CallSet] /\ Wiped(t)
<1> DEFINE left == [s \in Slots |-> IF calls[s].tab = t THEN NoCall ELSE calls[s]]
<1>1. Mount(t, screen[t].page, left) /\ cache' = [cache EXCEPT ![t] = None]
  BY DEF Reload
<1>2. left \in [Slots -> CallSet] /\ \A s \in Slots : calls[s] = NoCall => left[s] = NoCall
  BY NoCallShape DEF Shapes
<1>3. /\ calls' \in [Slots -> CallSet]
      /\ \A s \in Slots : calls'[s] = left[s] \/ (calls[s] = NoCall /\ Loads(s))
  BY <1>1, <1>2, MountLoads
<1> QED
  BY <1>1, <1>2, <1>3, NoCallIs DEF Mount, Wiped, Gestured, Same, Quits

\* Sending a request.
LEMMA SendShape ==
  ASSUME Shapes, TypeOK, NEW t \in Tabs, NEW op \in OpNames, NEW p \in Peers, Send(t, op, p)
  PROVE  /\ NextSlot \in Slots /\ calls[NextSlot] = NoCall
         /\ calls' = [calls EXCEPT ![NextSlot] = Ensured(NewRequest(t, op, p), NextSlot, cache[t])]
         /\ cache' = [cache EXCEPT ![t] = Held(NextSlot, cache[t])]
         /\ calls' \in [Slots -> CallSet] /\ cache' \in [Tabs -> Holds]
<1>1. NextSlot \in Slots /\ calls[NextSlot] = NoCall
  BY NextSlotFree DEF Send
<1>2. calls' = [calls EXCEPT ![NextSlot] = Ensured(NewRequest(t, op, p), NextSlot, cache[t])]
  BY DEF Send, Request, NewRequest
<1>3. cache' = [cache EXCEPT ![t] = Held(NextSlot, cache[t])]
  BY DEF Send
<1>4. NewRequest(t, op, p) \in CallSet
  BY NewRequestIs DEF TypeOK
<1>5. cache[t] \in Holds
  BY DEF Shapes
<1>6. Ensured(NewRequest(t, op, p), NextSlot, cache[t]) \in CallSet
  BY <1>1, <1>4, <1>5, EnsuredIs
<1>7. Held(NextSlot, cache[t]) \in Holds
  BY <1>1, <1>5 DEF Held, Holds
<1> QED
  BY <1>1, <1>2, <1>3, <1>6, <1>7 DEF Shapes

\* A promise settles, one way or the other.
LEMMA ResumedShape ==
  ASSUME Shapes, TypeOK, NEW s \in Slots, FetchAnswered(s), calls[s].tab \in Tabs
  PROVE  calls' \in [Slots -> CallSet] /\ cache' \in [Tabs -> Holds]
<1> DEFINE t == calls[s].tab
           held == IF cache[t] = s THEN jar + 1 ELSE cache[t]
           resumed(w) == IF At(w, "token") THEN Ensured(calls[w], w, jar + 1)
                         ELSE Ensured([calls[w] EXCEPT !.allow = FALSE], w, held)
<1>1. /\ calls' = [w \in Slots |-> IF w \in Waiters(s) THEN resumed(w) ELSE calls[w]]
      /\ cache' = [cache EXCEPT ![t] = IF At(s, "refresh") THEN Held(s, held) ELSE held]
  BY DEF FetchAnswered, Resumed
<1>2. jar + 1 \in Holds /\ held \in Holds
  BY DEF TypeOK, Shapes, Holds
<1>3. \A w \in Slots : resumed(w) \in CallSet
  <2> SUFFICES ASSUME NEW w \in Slots PROVE resumed(w) \in CallSet
    OBVIOUS
  <2>1. calls[w] \in CallSet /\ [calls[w] EXCEPT !.allow = FALSE] \in CallSet
    BY DEF Shapes, CallSet
  <2> QED
    BY <1>2, <2>1, EnsuredIs
<1>4. Held(s, held) \in Holds
  BY <1>2 DEF Held, Holds
<1> HIDE DEF resumed, held
<1> QED
  BY <1>1, <1>2, <1>3, <1>4 DEF Shapes

\* Calls and promises keep their shapes, and every step is one of a few kinds.
Client(s) == ClientStep(s) \/ ClientFault(s)

\* What the kinds of steps are, and that the shapes are kept.
LEMMA Moves ==
  ASSUME Shapes, TypeOK, Waits, [Next]_vars
  PROVE  /\ Shapes'
         /\ \/ Passive \/ (\E t \in Tabs : Wiped(t)) \/ Begins
            \/ \E s \in Slots : Client(s) /\ UNCHANGED <<filed, reports>>
            \/ \E s \in Slots : Serve(s)
<1> DEFINE Kinds == \/ Passive \/ (\E t \in Tabs : Wiped(t)) \/ Begins
                    \/ \E s \in Slots : Client(s) /\ UNCHANGED <<filed, reports>>
                    \/ \E s \in Slots : Serve(s)
<1>1. ASSUME NEW t \in Tabs, NEW k, Open(t, k) PROVE Shapes' /\ Passive
  BY <1>1, OpenPassive DEF Open, Mount, Shapes
<1>2. ASSUME NEW t \in Tabs, Reload(t) PROVE Shapes' /\ Wiped(t)
  BY <1>2, ReloadWipes DEF Reload, Mount, Shapes, Holds
<1>3. ASSUME NEW t \in Tabs, NEW p \in Peers, NEW op \in OpNames, NEW after, Click(t, op, p, after),
             op # "report"
      PROVE  Shapes' /\ Begins
  BY <1>3, SendShape DEF Click, Gestured, Shapes, Begins
<1>4. ASSUME NEW t \in Tabs, NEW p \in Peers, Submit(t, p) PROVE Shapes' /\ Begins
  <2>1. "report" \in OpNames
    BY DEF OpNames
  <2> QED
    BY <1>4, <2>1, SendShape DEF Submit, Shapes, Begins
<1>5. ASSUME NEW t \in Tabs, CloseReport(t) PROVE Shapes' /\ Passive
  <2>1. calls' = Orphaned(t)
    BY <1>5 DEF CloseReport
  <2>2. calls' \in [Slots -> CallSet] /\ \A s \in Slots : Same(s)
    BY <2>1, NoCallIs, NoCallShape, SetLive DEF Orphaned, Shapes, CallSet, Same
  <2> QED
    BY <1>5, <2>2, ClientAssumption DEF CloseReport, Shapes, Passive, bounds, TypeOK
<1>6. ASSUME NEW t \in Tabs, Gesture(t) PROVE Shapes' /\ (Passive \/ Wiped(t) \/ Begins)
  <2>1. ASSUME NEW p \in Peers, Connect(t, p) \/ Block(t, p) PROVE Shapes' /\ Begins
    BY <1>3, <2>1 DEF Connect, Block, OpNames
  <2>2. ASSUME NEW p \in Peers, NEW op \in RowOps, Act(t, op, p) PROVE Shapes' /\ Begins
    BY <1>3, <2>2 DEF Act, OpNames, RowOps
  <2> QED
    BY <1>1, <1>2, <1>4, <1>5, <1>6, <2>1, <2>2 DEF Gesture
<1>7. ASSUME NEW s \in Slots, NEW l \in Lists, GetServed(s, l) PROVE Shapes' /\ Passive
  <2> DEFINE got == [k \in DOMAIN calls[s].got \cup {l} |-> IF k = l THEN db[l] ELSE calls[s].got[k]]
  <2>1. calls' = [calls EXCEPT ![s].got = got]
    BY <1>7 DEF GetServed
  <2>2. got \in Gots
    <3>1. calls[s].got \in Gots /\ db[l] \in SUBSET (Peers \cup {None})
      BY DEF Shapes, CallSet
    <3>2. \E D \in SUBSET Lists : DOMAIN calls[s].got = D /\ \A k \in D : calls[s].got[k] \in SUBSET (Peers \cup {None})
      BY <3>1 DEF Gots
    <3>3. PICK D \in SUBSET Lists : DOMAIN calls[s].got = D /\ \A k \in D : calls[s].got[k] \in SUBSET (Peers \cup {None})
      BY <3>2
    <3>4. got \in [D \cup {l} -> SUBSET (Peers \cup {None})]
      BY <3>1, <3>3
    <3> QED
      BY <3>4 DEF Gots
  <2> HIDE DEF got
  <2>3. calls' \in [Slots -> CallSet]
    BY <2>1, <2>2 DEF Shapes, CallSet
  <2>4. \A w \in Slots : Same(w)
    <3>1. calls[s] # NoCall
      BY <1>7, NoCallIs, ClientAssumption DEF GetServed, At, Pc
    <3> QED
      BY <2>1, <3>1 DEF Shapes, CallSet, Same
  <2> QED
    BY <1>7, <2>3, <2>4, ClientAssumption DEF GetServed, bounds, Passive, TypeOK, Shapes
<1>8. ASSUME NEW s \in Slots, Loaded(s) \/ LoadFailed(s) PROVE Shapes' /\ Passive
  <2>1. /\ At(s, "loading") /\ calls' = [calls EXCEPT ![s] = NoCall]
        /\ losses' \in losses..MaxLosses /\ UNCHANGED <<jar, cache, db, filed, reports>>
    <3>1. CASE Loaded(s)
      <4>1. At(s, "loading") /\ LoadEnds(s, [l \in Lists |-> IF l \in DOMAIN calls[s].got
              THEN calls[s].got[l] ELSE screen[calls[s].tab].shown[l]], 0)
        BY <3>1 DEF Loaded
      <4>2. /\ calls' = [calls EXCEPT ![s] = NoCall] /\ losses' = losses + 0
            /\ UNCHANGED <<jar, cache, db, filed, reports>>
        BY <4>1 DEF LoadEnds, bounds
      <4> QED
        BY <4>1, <4>2, ClientAssumption DEF TypeOK
    <3>2. CASE LoadFailed(s)
      BY <3>2, ClientAssumption DEF LoadFailed, LoadEnds, bounds, TypeOK
    <3> QED
      BY <1>8, <3>1, <3>2
  <2>2. calls[s].awaits = None
    BY <2>1 DEF Waits, At
  <2>3. \A w \in Slots : Same(w) \/ Quits(w)
    BY <2>1, <2>2 DEF Shapes, Same, Quits
  <2> QED
    BY <2>1, <2>3, NoCallShape DEF Passive, Shapes
<1>9. ASSUME NEW s \in Slots, Serve(s) PROVE Shapes'
  <2>1. db' \in [Lists -> SUBSET (Peers \cup {None})]
    <3>1. calls[s].peer \in Peers \cup {None}
      BY DEF Shapes, CallSet
    <3>2. db' = db \/ \E A, D \in SUBSET Lists :
            db' = [l \in Lists |-> IF l \in A THEN db[l] \cup {calls[s].peer}
                                  ELSE IF l \in D THEN db[l] \ {calls[s].peer} ELSE db[l]]
      <4> DEFINE A == {l \in Lists : l \in Ops[calls[s].op].adds}
                 D == {l \in Lists : l \in Ops[calls[s].op].drops}
      <4>1. db' = db \/
            db' = [l \in Lists |-> IF l \in A THEN db[l] \cup {calls[s].peer}
                                  ELSE IF l \in D THEN db[l] \ {calls[s].peer} ELSE db[l]]
        BY <1>9 DEF Serve
      <4>2. A \in SUBSET Lists /\ D \in SUBSET Lists
        OBVIOUS
      <4> HIDE DEF A, D
      <4> QED
        BY <4>1, <4>2
    <3> QED
      BY <3>1, <3>2 DEF Shapes
  <2>2. calls' \in [Slots -> CallSet]
    BY <1>9, SetPc DEF Serve, Pc
  <2> QED
    BY <1>9, <2>1, <2>2 DEF Serve, Shapes
<1>10. ASSUME NEW s \in Slots, ActAnswered(s) PROVE Shapes' /\ Passive
  <2>1. /\ calls' = [calls EXCEPT ![s] = [calls[s] EXCEPT !.pc = "loading", !.header = 0, !.since = 0]]
        /\ At(s, "ok") /\ calls[s].op \in RowOps
        /\ UNCHANGED <<jar, cache, losses, db, filed, reports>>
    BY <1>10 DEF ActAnswered, bounds
  <2>2. calls[s] \in CallSet /\ calls[s] # NoCall /\ calls[s].awaits = None
    BY <2>1, NoCallIs, ClientAssumption DEF Shapes, Waits, At, Pc
  <2>3. calls' \in [Slots -> CallSet]
    BY <2>1, <2>2 DEF Shapes, CallSet, Pc
  <2>4. Loads(s)
    BY <2>1, <2>2 DEF Loads, Shapes, CallSet, TypeOK, RowOps
  <2>5. \A w \in Slots : Same(w) \/ Quits(w)
    BY <2>1, <2>2, <2>4 DEF Same, Quits, Shapes
  <2> QED
    BY <2>1, <2>3, <2>5, ClientAssumption DEF Passive, Shapes, TypeOK
<1>11. ASSUME NEW s \in Slots, Answered(s) \/ BlockAnswered(s) \/ Refused(s) PROVE Shapes' /\ Passive
  <2>1. /\ calls[s].pc \in {"ok", "no", "failed", "denied"}
        /\ \E f \in {calls, Orphaned(calls[s].tab)} : calls' = [f EXCEPT ![s] = NoCall]
        /\ UNCHANGED <<jar, cache, losses, db, filed, reports>>
    <3>1. CASE Answered(s)
      BY <3>1 DEF Answered, Ends, At, bounds
    <3>2. CASE BlockAnswered(s)
      BY <3>2 DEF BlockAnswered, At, bounds
    <3>3. CASE Refused(s)
      BY <3>3 DEF Refused, Settled, Ends, At, bounds
    <3> QED
      BY <1>11, <3>1, <3>2, <3>3
  <2>2. calls[s].awaits = None
    BY <2>1 DEF Waits
  <2>3. PICK f \in {calls, Orphaned(calls[s].tab)} : calls' = [f EXCEPT ![s] = NoCall]
    BY <2>1
  <2>4. \A w \in Slots : f[w] = calls[w] \/ (calls[w] # NoCall /\ f[w] = [calls[w] EXCEPT !.live = FALSE])
    <3>1. calls[s].tab \in Tabs
      BY <2>1, NoCallIs, ClientAssumption DEF TypeOK, Pc
    <3> QED
      BY <3>1, NoCallShape DEF Orphaned
  <2>5. f \in [Slots -> CallSet]
    BY <2>3, SetLive DEF Shapes, Orphaned
  <2>6. \A w \in Slots : Same(w) \/ Quits(w)
    <3> SUFFICES ASSUME NEW w \in Slots, w # s PROVE Same(w)
      BY <2>2, <2>3, <2>5 DEF Quits
    <3>1. calls'[w] = f[w]
      BY <2>3, <2>5
    <3>2. CASE calls[w] = NoCall
      BY <2>4, <3>1, <3>2 DEF Same
    <3>3. CASE calls[w] # NoCall
      <4>1. calls[w] \in CallSet
        BY DEF Shapes
      <4>2. calls'[w] = calls[w] \/ calls'[w] = [calls[w] EXCEPT !.live = FALSE]
        BY <2>4, <3>1
      <4> QED
        BY <3>3, <4>1, <4>2, SetLive DEF Same
    <3> QED
      BY <3>2, <3>3
  <2>7. calls' \in [Slots -> CallSet]
    BY <2>3, <2>5, NoCallShape
  <2> QED
    BY <2>1, <2>6, <2>7, ClientAssumption DEF Passive, Shapes, TypeOK
<1>12. ASSUME NEW s \in Slots, Client(s), UNCHANGED db PROVE Shapes'
  <2>1. CASE FetchAnswered(s)
    <3>1. calls[s].tab \in Tabs
      BY <2>1, NoCallIs, ClientAssumption DEF FetchAnswered, Resumed, TypeOK
    <3> QED
      BY <1>12, <2>1, <3>1, ResumedShape DEF Shapes
  <2>2. CASE Dispatch(s)
    BY <1>12, <2>2, SetPc DEF Dispatch, Shapes, Pc
  <2>3. CASE Refresh(s)
    <3>1. [calls[s] EXCEPT !.pc = "refresh", !.awaits = s] \in CallSet
      BY ZenonT(60) DEF Shapes, CallSet, Pc
    <3>2. calls' = [calls EXCEPT ![s] = [calls[s] EXCEPT !.pc = "refresh", !.awaits = s]]
      BY <2>3 DEF Refresh, Shapes
    <3>3. cache' \in [Tabs -> Holds]
      BY <2>3 DEF Refresh, Shapes, Holds
    <3> QED
      BY <1>12, <3>1, <3>2, <3>3 DEF Shapes
  <2>4. CASE FetchFailed(s)
    <3>1. \A w \in Slots : [calls[w] EXCEPT !.pc = "failed", !.awaits = None] \in CallSet
      BY FailedShape DEF Shapes
    <3>2. calls' = [w \in Slots |-> IF w \in Waiters(s)
                                    THEN [calls[w] EXCEPT !.pc = "failed", !.awaits = None] ELSE calls[w]]
      BY <2>4 DEF FetchFailed, Rejected
    <3>3. cache' \in [Tabs -> Holds]
      BY <2>4 DEF FetchFailed, Rejected, Shapes, Holds
    <3> QED
      BY <1>12, <3>1, <3>2, <3>3 DEF Shapes
  <2>5. CASE Lose(s)
    <3>1. Again(calls[s]) \in CallSet
      BY AgainIs DEF Shapes
    <3> QED
      BY <1>12, <2>5, <3>1 DEF Lose, Shapes
  <2> QED
    BY <1>12, <2>1, <2>2, <2>3, <2>4, <2>5 DEF Client, ClientStep, ClientFault
<1>13. ASSUME NEW s \in Slots, Step(s) \/ Fault(s) PROVE Shapes' /\ Kinds
  <2>1. CASE Client(s) /\ UNCHANGED <<db, filed, screen, bounds>>
    BY <1>12, <2>1 DEF bounds
  <2>2. CASE Serve(s)
    BY <1>9, <2>2
  <2>3. CASE Page(s) \/ LoadFailed(s)
    BY <1>8, <1>10, <1>11, <2>3 DEF Page
  <2>4. CASE \E l \in Lists : GetServed(s, l)
    BY <1>7, <2>4
  <2> QED
    BY <1>13, <2>1, <2>2, <2>3, <2>4 DEF Step, Fault, Client
<1>14. CASE UNCHANGED vars
  <2>1. Passive
    BY <1>14, ClientAssumption DEF vars, client, Passive, Same, TypeOK
  <2> QED
    BY <1>14, <2>1 DEF vars, client, Shapes
<1> QED
  BY <1>6, <1>13, <1>14 DEF Next

-----------------------------------------------------------------------------
(* Promises *)

Tries == {"ready", "admitted", "denied", "ok", "no"}

\* Whom the response of a token fetch wakes, and what the tab holds then.
LEMMA AnsweredIs ==
  ASSUME Shapes, TypeOK, Waits, NEW s \in Slots, FetchAnswered(s)
  PROVE  LET t == calls[s].tab IN
         /\ t \in Tabs /\ jar' = jar + 1 /\ losses' = losses
         /\ \A w \in Slots : calls[w].awaits # s => calls'[w] = calls[w]
         /\ \A w \in Slots : calls[w].awaits = s =>
              /\ calls'[w].op = calls[w].op /\ calls'[w].tab = calls[w].tab
              /\ calls'[w].since = calls[w].since
              /\ calls[w].pc \in {"token", "refresh"}
              /\ \/ /\ calls'[w].pc = "ready" /\ calls'[w].awaits = None /\ calls'[w].attempt = 1
                    /\ \/ calls'[w].header = jar + 1 /\ (At(w, "token") \/ cache[t] = s)
                       \/ w = s /\ At(s, "refresh") /\ cache[t] \in Nat /\ calls'[w].header = cache[t]
                 \/ /\ w = s /\ At(s, "refresh") /\ cache[t] # s /\ cache[t] \notin Nat
                    /\ calls'[w].pc = "token" /\ calls'[w].awaits = Held(s, cache[t])
                    /\ calls'[w].header = calls[w].header /\ calls'[w].attempt = calls[w].attempt
         /\ \A u \in Tabs : u # t => cache'[u] = cache[u]
         /\ cache'[t] = IF cache[t] = s THEN jar + 1
                        ELSE IF At(s, "refresh") THEN Held(s, cache[t]) ELSE cache[t]
<1> DEFINE t == calls[s].tab
           held == IF cache[t] = s THEN jar + 1 ELSE cache[t]
           resumed(w) == IF At(w, "token") THEN Ensured(calls[w], w, jar + 1)
                         ELSE Ensured([calls[w] EXCEPT !.allow = FALSE], w, held)
<1>1. /\ calls' = [w \in Slots |-> IF w \in Waiters(s) THEN resumed(w) ELSE calls[w]]
      /\ cache' = [cache EXCEPT ![t] = IF At(s, "refresh") THEN Held(s, held) ELSE held]
      /\ calls[s].awaits = s /\ jar' = jar + 1 /\ losses' = losses
  BY DEF FetchAnswered, Resumed
<1>2. t \in Tabs
  BY <1>1, NoCallIs, ClientAssumption DEF TypeOK
<1>3. jar + 1 \in Nat /\ held \in Holds /\ jar + 1 \in Holds /\ jar + 1 # None
  <2>1. jar + 1 \in Nat
    BY DEF TypeOK
  <2> QED
    BY <1>2, <2>1, ClientAssumption DEF Shapes, Holds
<1>4. \A u \in Tabs : u # t => cache'[u] = cache[u]
  BY <1>1, <1>2 DEF Shapes
<1>5. cache'[t] = IF cache[t] = s THEN jar + 1 ELSE IF At(s, "refresh") THEN Held(s, cache[t]) ELSE cache[t]
  BY <1>1, <1>2, <1>3 DEF Shapes, Held
<1>6. ASSUME NEW w \in Slots, calls[w].awaits = s
      PROVE  /\ calls[w].pc \in {"token", "refresh"}
             /\ calls[w].pc = "refresh" => w = s
             /\ calls'[w] = resumed(w)
  BY <1>1, <1>6, ClientAssumption DEF Waits, Waiters, At
<1>7. ASSUME NEW w \in Slots, calls[w].awaits = s, At(w, "token")
      PROVE  /\ calls'[w].op = calls[w].op /\ calls'[w].tab = calls[w].tab
             /\ calls'[w].since = calls[w].since
             /\ calls'[w].pc = "ready" /\ calls'[w].awaits = None /\ calls'[w].attempt = 1
             /\ calls'[w].header = jar + 1
  <2>1. calls'[w] = Ensured(calls[w], w, jar + 1)
    BY <1>6, <1>7
  <2>2. calls[w] \in CallSet
    BY DEF Shapes
  <2> QED
    BY <1>3, <2>1, <2>2, EnsuredIs
<1>8. ASSUME calls[s].awaits = s, At(s, "refresh")
      PROVE  /\ calls'[s].op = calls[s].op /\ calls'[s].tab = calls[s].tab
             /\ calls'[s].since = calls[s].since
             /\ held \in Nat => calls'[s].pc = "ready" /\ calls'[s].awaits = None
                                /\ calls'[s].attempt = 1 /\ calls'[s].header = held
             /\ held \notin Nat => calls'[s].pc = "token" /\ calls'[s].awaits = Held(s, held)
                  /\ calls'[s].header = calls[s].header /\ calls'[s].attempt = calls[s].attempt
  <2> DEFINE c == [calls[s] EXCEPT !.allow = FALSE]
  <2>1. calls'[s] = Ensured(c, s, held)
    BY <1>6, <1>8 DEF At
  <2>2. /\ c \in CallSet /\ c.op = calls[s].op /\ c.tab = calls[s].tab /\ c.since = calls[s].since
        /\ c.header = calls[s].header /\ c.attempt = calls[s].attempt
    BY DEF Shapes, CallSet
  <2> HIDE DEF c, held
  <2> QED
    BY <1>3, <2>1, <2>2, EnsuredIs DEF Held
<1>9. \A w \in Slots : calls[w].awaits # s => calls'[w] = calls[w]
  BY <1>1 DEF Waiters
<1>10. ASSUME NEW w \in Slots, calls[w].awaits = s, At(w, "refresh")
       PROVE  /\ w = s
              /\ \/ /\ calls'[s].pc = "ready" /\ calls'[s].awaits = None /\ calls'[s].attempt = 1
                    /\ \/ calls'[s].header = jar + 1 /\ cache[t] = s
                       \/ cache[t] \in Nat /\ calls'[s].header = cache[t]
                 \/ /\ cache[t] # s /\ cache[t] \notin Nat
                    /\ calls'[s].pc = "token" /\ calls'[s].awaits = Held(s, cache[t])
                    /\ calls'[s].header = calls[s].header /\ calls'[s].attempt = calls[s].attempt
  BY <1>3, <1>6, <1>8, <1>10 DEF At
<1> HIDE DEF resumed
<1> QED
  <2>1. \A w \in Slots : calls[w].awaits = s => At(w, "token") \/ At(w, "refresh")
    BY <1>6 DEF At
  <2> QED
    BY <1>1, <1>2, <1>4, <1>5, <1>6, <1>7, <1>8, <1>9, <1>10, <2>1 DEF At

\* Whom its failure ends.
LEMMA FailedIs ==
  ASSUME Shapes, TypeOK, NEW s \in Slots, FetchFailed(s)
  PROVE  LET t == calls[s].tab IN
         /\ t \in Tabs /\ jar' = jar /\ losses' = losses + 1 /\ losses' \in 0..MaxLosses
         /\ \A w \in Slots : calls[w].awaits # s => calls'[w] = calls[w]
         /\ \A w \in Slots : calls[w].awaits = s =>
              /\ calls'[w].op = calls[w].op /\ calls'[w].tab = calls[w].tab
              /\ calls'[w].since = calls[w].since /\ calls'[w].header = calls[w].header
              /\ calls'[w].attempt = calls[w].attempt /\ calls'[w].allow = calls[w].allow
              /\ calls'[w].pc = "failed" /\ calls'[w].awaits = None
         /\ cache' = [cache EXCEPT ![t] = None]
<1>1. /\ calls' = [w \in Slots |-> IF w \in Waiters(s)
                                   THEN [calls[w] EXCEPT !.pc = "failed", !.awaits = None] ELSE calls[w]]
      /\ cache' = [cache EXCEPT ![calls[s].tab] = None]
      /\ calls[s].awaits = s /\ jar' = jar /\ losses < MaxLosses /\ losses' = losses + 1
  BY DEF FetchFailed, Rejected, Lost
<1>2. calls[s].tab \in Tabs
  BY <1>1, NoCallIs, ClientAssumption DEF TypeOK
<1>3. losses' \in 0..MaxLosses
  <2>1. losses \in 0..MaxLosses /\ MaxLosses \in Nat
    BY ClientAssumption DEF TypeOK
  <2>2. losses' = losses + 1 /\ losses < MaxLosses
    BY <1>1
  <2> QED
    BY <2>1, <2>2
<1>4. ASSUME NEW w \in Slots, calls[w].awaits = s
      PROVE  /\ calls'[w].op = calls[w].op /\ calls'[w].tab = calls[w].tab
             /\ calls'[w].since = calls[w].since /\ calls'[w].header = calls[w].header
             /\ calls'[w].attempt = calls[w].attempt /\ calls'[w].allow = calls[w].allow
             /\ calls'[w].pc = "failed" /\ calls'[w].awaits = None
  BY <1>1, <1>4, ZenonT(60) DEF Shapes, CallSet, Waiters
<1> QED
  BY <1>1, <1>2, <1>3, <1>4 DEF Waiters

\* The other steps of the client and the handlers' move one call.
LEMMA OneMoves ==
  ASSUME Shapes, NEW s \in Slots, Dispatch(s) \/ Refresh(s) \/ Lose(s) \/ Serve(s)
  PROVE  /\ \A w \in Slots : w # s => calls'[w] = calls[w]
         /\ calls[s].pc \in Tries /\ jar' = jar
         /\ calls'[s].op = calls[s].op /\ calls'[s].tab = calls[s].tab
         /\ calls'[s].since = calls[s].since /\ calls'[s].header = calls[s].header
         /\ calls'[s].allow = calls[s].allow
         /\ Refresh(s) \/ (cache' = cache /\ calls'[s].awaits = calls[s].awaits)
         /\ Lose(s) \/ (calls'[s].attempt = calls[s].attempt /\ losses' = losses)
<1>1. calls[s] \in CallSet
  BY DEF Shapes
<1>2. CASE Dispatch(s)
  BY <1>1, <1>2 DEF Dispatch, At, Tries, Shapes, CallSet
<1>3. CASE Refresh(s)
  BY <1>1, <1>3 DEF Refresh, At, Tries, Shapes, CallSet
<1>4. CASE Lose(s)
  BY <1>1, <1>4, AgainIs DEF Lose, At, Tries, Shapes
<1>5. CASE Serve(s)
  BY <1>1, <1>5 DEF Serve, At, Tries, Shapes, CallSet
<1> QED
  BY <1>2, <1>3, <1>4, <1>5

\* Whoever waits for a token is at a line that awaits one, and the reverse.
LEMMA WaitsStep ==
  ASSUME Shapes, TypeOK, Waits, [Next]_vars
  PROVE  Waits'
<1> DEFINE W(w) == /\ calls'[w].awaits # None <=> calls'[w].pc \in {"token", "refresh"}
                   /\ calls'[w].pc = "refresh" => calls'[w].awaits = w
<1>1. ASSUME NEW w \in Slots, Same(w) \/ Quits(w) \/ calls'[w] = NoCall \/ Loads(w) PROVE W(w)
  BY <1>1, NoCallIs, ClientAssumption DEF Same, Quits, Loads, Waits, At, Pc
<1>2. CASE Passive
  BY <1>1, <1>2 DEF Passive, Waits, At
<1>3. CASE \E t \in Tabs : Wiped(t)
  BY <1>1, <1>3 DEF Wiped, Waits, At
<1>4. CASE Begins
  <2>1. PICK t \in Tabs, op \in OpNames, p \in Peers : Send(t, op, p)
    BY <1>4 DEF Begins
  <2>2. NewRequest(t, op, p) \in CallSet /\ NextSlot \in Slots /\ cache[t] \in Holds
    BY <2>1, NewRequestIs, SendShape DEF TypeOK, Shapes
  <2>3. calls' = [calls EXCEPT ![NextSlot] = Ensured(NewRequest(t, op, p), NextSlot, cache[t])]
    BY <2>1, SendShape
  <2>4. W(NextSlot)
    BY <2>2, <2>3, EnsuredIs, ClientAssumption, SMTT(30) DEF Shapes, Holds
  <2> QED
    BY <2>2, <2>3, <2>4 DEF Shapes, Waits, At
<1>5. ASSUME NEW s \in Slots, FetchAnswered(s) PROVE Waits'
  <2> SUFFICES ASSUME NEW w \in Slots PROVE W(w)
    BY DEF Waits, At
  <2>1. CASE calls[w].awaits # s
    BY <1>5, <2>1, AnsweredIs DEF Waits, At
  <2>2. CASE calls[w].awaits = s
    BY <1>5, <2>2, AnsweredIs, ClientAssumption DEF Held
  <2> QED
    BY <2>1, <2>2
<1>6. ASSUME NEW s \in Slots, FetchFailed(s) PROVE Waits'
  <2> SUFFICES ASSUME NEW w \in Slots PROVE W(w)
    BY DEF Waits, At
  <2>1. CASE calls[w].awaits # s
    BY <1>6, <2>1, FailedIs DEF Waits, At
  <2>2. CASE calls[w].awaits = s
    BY <1>6, <2>2, FailedIs
  <2> QED
    BY <2>1, <2>2
<1>7. ASSUME NEW s \in Slots, Dispatch(s) \/ Refresh(s) \/ Lose(s) \/ Serve(s) PROVE Waits'
  <2>1. W(s)
    <3>1. calls[s] \in CallSet /\ calls[s].awaits = None
      BY <1>7, OneMoves DEF Shapes, Waits, Tries
    <3>2. CASE Refresh(s)
      BY <3>1, <3>2, ClientAssumption DEF Refresh, Shapes, CallSet
    <3>3. CASE Dispatch(s) \/ Serve(s)
      BY <3>1, <3>3 DEF Dispatch, Serve, Shapes, CallSet
    <3>4. CASE Lose(s)
      BY <3>1, <3>4, AgainIs DEF Lose, Shapes
    <3> QED
      BY <1>7, <3>2, <3>3, <3>4
  <2>2. \A w \in Slots : w # s => calls'[w] = calls[w]
    BY <1>7, OneMoves
  <2> QED
    BY <2>1, <2>2 DEF Waits, At
<1> HIDE DEF W
<1> QED
  BY <1>2, <1>3, <1>4, <1>5, <1>6, <1>7, Moves DEF Client, ClientStep, ClientFault

\* The promise a tab holds is that of a call of the tab which fetches it.
Owners ==
  \A t \in Tabs : cache[t] \in Slots =>
    calls[cache[t]].awaits = cache[t] /\ calls[cache[t]].tab = t

\* It stays so, whoever begins, ends, fails or forgets a fetch.
LEMMA OwnersStep ==
  ASSUME Shapes, TypeOK, Waits, Owners, [Next]_vars
  PROVE  Owners'
<1> SUFFICES ASSUME NEW u \in Tabs, cache'[u] \in Slots
             PROVE  calls'[cache'[u]].awaits = cache'[u] /\ calls'[cache'[u]].tab = u
  BY DEF Owners
<1> DEFINE x == cache'[u]
<1>1. CASE Passive
  <2>1. x \in Slots /\ x # None /\ calls[x].awaits = x /\ calls[x].tab = u
    BY <1>1, ClientAssumption DEF Passive, Owners
  <2> QED
    BY <1>1, <2>1 DEF Passive, Same, Quits
<1>2. CASE \E t \in Tabs : Wiped(t)
  <2>1. PICK t \in Tabs : Wiped(t)
    BY <1>2
  <2>2. u # t /\ x = cache[u]
    BY <2>1, ClientAssumption DEF Wiped, Shapes
  <2>3. x \in Slots /\ x # None /\ calls[x].awaits = x /\ calls[x].tab = u
    BY <2>2, ClientAssumption DEF Owners
  <2> QED
    BY <2>1, <2>2, <2>3 DEF Wiped, Same, Quits
<1>3. CASE Begins
  <2>1. PICK t \in Tabs, op \in OpNames, p \in Peers : Send(t, op, p)
    BY <1>3 DEF Begins
  <2>2. /\ NextSlot \in Slots /\ calls[NextSlot].awaits = None /\ cache[t] \in Holds
        /\ calls' = [calls EXCEPT ![NextSlot] = Ensured(NewRequest(t, op, p), NextSlot, cache[t])]
        /\ cache' = [cache EXCEPT ![t] = Held(NextSlot, cache[t])]
    BY <2>1, SendShape, NoCallIs DEF Shapes
  <2>3. CASE x = cache[u] /\ x \in Slots
    <3>1. calls[x].awaits = x /\ calls[x].tab = u /\ x # NextSlot
      BY <2>2, <2>3, ClientAssumption DEF Owners
    <3> QED
      BY <2>2, <2>3, <3>1
  <2>4. CASE u = t /\ cache[t] = None /\ x = NextSlot
    <3>1. NewRequest(t, op, p) \in CallSet /\ NewRequest(t, op, p).tab = t
      BY NewRequestIs DEF TypeOK
    <3>2. LET d == Ensured(NewRequest(t, op, p), NextSlot, None) IN d.awaits = NextSlot /\ d.tab = t
      BY <2>2, <2>4, <3>1, EnsuredIs, ClientAssumption
    <3> QED
      BY <2>2, <2>4, <3>2 DEF Shapes
  <2> QED
    BY <2>2, <2>3, <2>4 DEF Shapes, Held
<1>4. ASSUME NEW s \in Slots, FetchAnswered(s)
      PROVE  calls'[x].awaits = x /\ calls'[x].tab = u
  <2> DEFINE t == calls[s].tab
  <2>1. calls[s].awaits = s
    BY <1>4 DEF FetchAnswered, Resumed
  <2>2. CASE x = cache[u] /\ x # s
    <3>1. calls[x].awaits = x /\ calls[x].tab = u
      BY <2>2 DEF Owners
    <3> QED
      BY <1>4, <2>2, <3>1, AnsweredIs
  <2>3. CASE u = t /\ x = s /\ At(s, "refresh") /\ cache[t] = None
    <3>1. cache[t] # s /\ cache[t] \notin Nat /\ ~At(s, "token")
      BY <2>3, ClientAssumption DEF At
    <3>2. calls'[s].awaits = Held(s, cache[t]) /\ calls'[s].tab = t
      BY <1>4, <2>1, <3>1, AnsweredIs
    <3> QED
      BY <2>3, <3>2 DEF Held
  <2>4. x = cache[u] => x # s
    <3>1. CASE u # t
      BY <3>1 DEF Owners
    <3>2. CASE u = t
      <4>1. cache[t] = s => x = jar + 1
        BY <1>4, <3>2, AnsweredIs
      <4>2. jar + 1 \in Nat
        BY DEF TypeOK
      <4> QED
        BY <3>2, <4>1, <4>2, ClientAssumption
    <3> QED
      BY <3>1, <3>2
  <2>5. x = cache[u] \/ (u = t /\ x = s /\ At(s, "refresh") /\ cache[t] = None)
    <3>1. jar + 1 \in Nat
      BY DEF TypeOK
    <3> QED
      BY <1>4, <3>1, AnsweredIs, ClientAssumption DEF Held
  <2> QED
    BY <2>2, <2>3, <2>4, <2>5
<1>5. ASSUME NEW s \in Slots, FetchFailed(s)
      PROVE  calls'[x].awaits = x /\ calls'[x].tab = u
  <2>1. calls[s].awaits = s /\ u # calls[s].tab /\ x = cache[u]
    BY <1>5, FailedIs, ClientAssumption DEF FetchFailed, Rejected, Shapes
  <2>2. calls[x].awaits = x /\ calls[x].tab = u /\ x # s
    BY <2>1 DEF Owners
  <2> QED
    BY <1>5, <2>2, FailedIs
<1>6. ASSUME NEW s \in Slots, Dispatch(s) \/ Refresh(s) \/ Lose(s) \/ Serve(s)
      PROVE  calls'[x].awaits = x /\ calls'[x].tab = u
  <2>1. calls[s].awaits = None /\ \A w \in Slots : w # s => calls'[w] = calls[w]
    BY <1>6, OneMoves DEF Waits, Tries
  <2>2. CASE x = cache[u]
    <3>1. calls[x].awaits = x /\ calls[x].tab = u /\ x # s
      BY <2>1, <2>2, ClientAssumption DEF Owners
    <3> QED
      BY <2>1, <3>1
  <2>3. CASE Refresh(s) /\ x # cache[u]
    <3>1. u = calls[s].tab /\ x = s
      BY <2>3 DEF Refresh, Shapes
    <3>2. calls'[s].awaits = s
      BY <2>3 DEF Refresh, Shapes, CallSet
    <3> QED
      BY <1>6, <3>1, <3>2, OneMoves
  <2> QED
    BY <1>6, <2>2, <2>3, OneMoves
<1> HIDE DEF x
<1>7. (\E s \in Slots : Client(s) \/ Serve(s)) => calls'[x].awaits = x /\ calls'[x].tab = u
  BY <1>4, <1>5, <1>6 DEF Client, ClientStep, ClientFault
<1> QED
  BY <1>1, <1>2, <1>3, <1>7, Moves DEF x

-----------------------------------------------------------------------------
(* Tokens *)

\* A retry carries a token of its request's own time, a refused one besides a
\* token that is no longer the cookie; and so does the tab's while it refreshes.
Retry(c) ==
  /\ c.pc \in Tries /\ ~c.allow => c.since < c.header
  /\ c.pc = "denied" => c.header < jar
Overtaken ==
  \A s \in Slots :
    /\ Retry(calls[s])
    /\ At(s, "refresh") /\ cache[calls[s].tab] \in Nat => calls[s].since < cache[calls[s].tab]

\* It stays so, whichever tokens the tabs fetch meanwhile.
LEMMA OvertakenStep ==
  ASSUME Shapes, TypeOK, Waits, Overtaken, [Next]_vars
  PROVE  Overtaken'
<1> DEFINE Holds1(w) == /\ calls'[w].pc \in Tries /\ ~calls'[w].allow => calls'[w].since < calls'[w].header
                        /\ calls'[w].pc = "denied" => calls'[w].header < jar'
                        /\ calls'[w].pc = "refresh" /\ cache'[calls'[w].tab] \in Nat =>
                             calls'[w].since < cache'[calls'[w].tab]
<1> USE DEF Tries
<1>1. jar \in Nat /\ \A w \in Slots : calls[w].header \in Nat /\ calls[w].since \in Nat
                                      /\ calls[w].header <= jar /\ calls[w].since <= jar
  BY NoCallIs DEF TypeOK
<1>2. ASSUME NEW w \in Slots, calls'[w] = NoCall \/ Loads(w) PROVE Holds1(w)
  BY <1>2, NoCallIs, ClientAssumption DEF Loads, Pc
<1>3. ASSUME NEW w \in Slots, Same(w), jar' = jar, cache'[calls[w].tab] = cache[calls[w].tab]
      PROVE  Holds1(w)
  BY <1>3 DEF Same, Overtaken, Retry, At
<1>4. CASE Passive
  BY <1>2, <1>3, <1>4 DEF Passive, Overtaken, Retry, At, Quits
<1>5. CASE \E t \in Tabs : Wiped(t)
  <2>1. PICK t \in Tabs : Wiped(t)
    BY <1>5
  <2>2. \A w \in Slots : calls[w].tab # t => cache'[calls[w].tab] = cache[calls[w].tab]
    BY <2>1 DEF Wiped, Shapes
  <2>3. jar' = jar /\ \A w \in Slots : IF calls[w].tab = t THEN calls'[w] = NoCall \/ Loads(w) ELSE Same(w) \/ Quits(w)
    BY <2>1 DEF Wiped
  <2>4. \A w \in Slots : Holds1(w)
    BY <1>2, <1>3, <2>2, <2>3 DEF Quits
  <2> QED
    BY <2>4 DEF Overtaken, Retry, At
<1>6. CASE Begins
  <2>1. PICK t \in Tabs, op \in OpNames, p \in Peers : Send(t, op, p)
    BY <1>6 DEF Begins
  <2>2. /\ NextSlot \in Slots /\ cache[t] \in Holds /\ cache \in [Tabs -> Holds]
        /\ calls' = [calls EXCEPT ![NextSlot] = Ensured(NewRequest(t, op, p), NextSlot, cache[t])]
        /\ cache' = [cache EXCEPT ![t] = Held(NextSlot, cache[t])] /\ jar' = jar
    BY <2>1, SendShape DEF Shapes, Send
  <2>3. NewRequest(t, op, p) \in CallSet /\ NewRequest(t, op, p).allow
    BY NewRequestIs DEF TypeOK
  <2>4. LET d == Ensured(NewRequest(t, op, p), NextSlot, cache[t]) IN d.allow /\ d.pc \in {"token", "ready"}
    BY <2>2, <2>3, EnsuredIs
  <2>5. Holds1(NextSlot)
    BY <2>2, <2>4 DEF Shapes
  <2>6. ASSUME NEW w \in Slots, w # NextSlot PROVE Holds1(w)
    <3>1. calls'[w] = calls[w]
      BY <2>2, <2>6
    <3>2. \A u \in Tabs : cache'[u] \in Nat => cache'[u] = cache[u]
      BY <2>2, ClientAssumption DEF Held
    <3>3. calls[w].pc = "refresh" => calls[w].tab \in Tabs
      BY NoCallIs, ClientAssumption DEF TypeOK, Pc
    <3> QED
      BY <2>2, <3>1, <3>2, <3>3 DEF Overtaken, Retry, At
  <2> QED
    BY <2>5, <2>6 DEF Overtaken, Retry, At
<1>7. ASSUME NEW s \in Slots, FetchAnswered(s) PROVE Overtaken'
  <2> SUFFICES ASSUME NEW w \in Slots PROVE Holds1(w)
    BY DEF Overtaken, Retry, At
  <2>1. jar' = jar + 1 /\ calls[s].tab \in Tabs /\ \A u \in Tabs : u # calls[s].tab => cache'[u] = cache[u]
    BY <1>7, AnsweredIs
  <2>2. cache'[calls[s].tab] \in Nat =>
          cache'[calls[s].tab] = jar + 1 \/ cache'[calls[s].tab] = cache[calls[s].tab]
    BY <1>7, AnsweredIs, ClientAssumption DEF Held
  <2>3. CASE calls[w].awaits # s
    <3>1. calls'[w] = calls[w]
      BY <1>7, <2>3, AnsweredIs
    <3>2. calls[w].pc = "refresh" => calls[w].tab \in Tabs
      BY NoCallIs, ClientAssumption DEF TypeOK, Pc
    <3> QED
      BY <1>1, <2>1, <2>2, <3>1, <3>2 DEF Overtaken, Retry, At
  <2>4. CASE calls[w].awaits = s
    <3>1. /\ calls'[w].since = calls[w].since /\ calls'[w].pc \in {"token", "ready"}
          /\ calls'[w].pc = "ready" =>
               \/ calls'[w].header = jar + 1
               \/ At(w, "refresh") /\ w = s /\ cache[calls[s].tab] \in Nat /\ calls'[w].header = cache[calls[s].tab]
      BY <1>7, <2>4, AnsweredIs
    <3> QED
      BY <1>1, <3>1 DEF Overtaken, At
  <2> QED
    BY <2>3, <2>4
<1>8. ASSUME NEW s \in Slots, FetchFailed(s) PROVE Overtaken'
  <2> SUFFICES ASSUME NEW w \in Slots PROVE Holds1(w)
    BY DEF Overtaken, Retry, At
  <2>1. jar' = jar /\ calls[s].tab \in Tabs /\ cache' = [cache EXCEPT ![calls[s].tab] = None]
    BY <1>8, FailedIs
  <2>2. CASE calls[w].awaits # s
    <3>1. calls'[w] = calls[w]
      BY <1>8, <2>2, FailedIs
    <3>2. calls[w].pc = "refresh" => calls[w].tab \in Tabs
      BY NoCallIs, ClientAssumption DEF TypeOK, Pc
    <3>3. \A u \in Tabs : cache'[u] \in Nat => cache'[u] = cache[u]
      BY <2>1, ClientAssumption DEF Shapes
    <3> QED
      BY <2>1, <3>1, <3>2, <3>3 DEF Overtaken, Retry, At
  <2>3. CASE calls[w].awaits = s
    BY <1>8, <2>3, FailedIs
  <2> QED
    BY <2>2, <2>3
<1>9. ASSUME NEW s \in Slots, Dispatch(s) \/ Refresh(s) \/ Lose(s) \/ Serve(s) PROVE Overtaken'
  <2> DEFINE t == calls[s].tab
  <2>1. t \in Tabs
    BY <1>9, OneMoves, NoCallIs, ClientAssumption DEF TypeOK, Pc
  <2>2. \A u \in Tabs : cache'[u] \in Nat => cache'[u] = cache[u]
    <3>1. CASE Refresh(s)
      BY <3>1, ClientAssumption DEF Refresh, Shapes
    <3> QED
      BY <1>9, <3>1, OneMoves
  <2>3. ASSUME NEW w \in Slots, w # s PROVE Holds1(w)
    <3>1. calls'[w] = calls[w] /\ jar' = jar
      BY <1>9, <2>3, OneMoves
    <3>2. calls[w].pc = "refresh" => calls[w].tab \in Tabs
      BY NoCallIs, ClientAssumption DEF TypeOK, Pc
    <3> QED
      BY <2>2, <3>1, <3>2 DEF Overtaken, Retry, At
  <2>4. Holds1(s)
    <3>1. CASE Refresh(s)
      <4>1. calls'[s].pc = "refresh" /\ calls'[s].tab = t /\ cache'[t] = s
        BY <2>1, <3>1 DEF Refresh, Shapes, CallSet
      <4> QED
        BY <4>1, ClientAssumption
    <3>2. CASE Dispatch(s)
      <4>1. /\ calls'[s].pc = IF calls[s].header = jar THEN "admitted" ELSE "denied"
            /\ calls[s].pc = "ready" /\ jar' = jar
            /\ calls'[s].allow = calls[s].allow /\ calls'[s].since = calls[s].since
            /\ calls'[s].header = calls[s].header
        BY <3>2 DEF Dispatch, At, Shapes, CallSet
      <4> QED
        BY <1>1, <4>1 DEF Overtaken, Retry
    <3>3. CASE Lose(s)
      <4>1. calls'[s].pc \in {"ready", "failed"}
        BY <3>3, AgainIs DEF Lose, Shapes
      <4> QED
        BY <1>9, <4>1, OneMoves DEF Overtaken, Retry
    <3>4. CASE Serve(s)
      <4>1. calls'[s].pc \in {"ok", "no"}
        BY <3>4 DEF Serve, Shapes, CallSet
      <4> QED
        BY <1>9, <4>1, OneMoves DEF Overtaken, Retry
    <3> QED
      BY <1>9, <3>1, <3>2, <3>3, <3>4
  <2> QED
    BY <2>3, <2>4 DEF Overtaken, Retry, At
<1> HIDE DEF Holds1
<1> QED
  BY <1>4, <1>5, <1>6, <1>7, <1>8, <1>9, Moves DEF Client, ClientStep, ClientFault

-----------------------------------------------------------------------------
(* Types *)

\* Every step keeps the types.
LEMMA TypeStep ==
  ASSUME Shapes, TypeOK, Waits, Owners, [Next]_vars
  PROVE  TypeOK'
<1> DEFINE T(w) == \/ calls'[w] = NoCall
                   \/ /\ calls'[w].tab \in Tabs /\ calls'[w].pc \in Pc
                      /\ calls'[w].awaits \in {None} \cup Slots
                      /\ calls'[w].header \in 0..jar' /\ calls'[w].since \in 0..jar'
                      /\ calls'[w].attempt \in 1..MaxAttempts
           Cached(u) == cache'[u] \in {None} \cup Slots \cup 1..jar'
           Rest == jar' \in Nat /\ losses' \in 0..MaxLosses
<1>1. jar \in Nat /\ losses \in Nat /\ losses <= MaxLosses /\ 1 \in 1..MaxAttempts /\ MaxLosses \in Nat
  BY ClientAssumption DEF TypeOK
<1>2. ASSUME NEW w \in Slots, Same(w) \/ Quits(w) \/ calls'[w] = NoCall \/ Loads(w), jar' = jar PROVE T(w)
  BY <1>1, <1>2 DEF Same, Quits, Loads, TypeOK, Pc
<1>3. CASE Passive
  <2>1. jar' = jar /\ cache' = cache /\ losses' \in losses..MaxLosses
    BY <1>3 DEF Passive
  <2>2. losses' \in 0..MaxLosses
    BY <1>1, <2>1
  <2>3. \A w \in Slots : T(w)
    BY <1>2, <1>3, <2>1 DEF Passive
  <2> QED
    BY <2>1, <2>2, <2>3 DEF TypeOK
<1>4. CASE \E t \in Tabs : Wiped(t)
  <2>1. PICK t \in Tabs : Wiped(t)
    BY <1>4
  <2>2. jar' = jar /\ losses' = losses /\ \A u \in Tabs : cache'[u] \in {None, cache[u]}
    BY <2>1 DEF Wiped, Shapes
  <2>3. \A w \in Slots : T(w)
    BY <1>2, <2>1, <2>2 DEF Wiped
  <2> QED
    BY <2>2, <2>3 DEF TypeOK
<1>5. CASE Begins
  <2>1. PICK t \in Tabs, op \in OpNames, p \in Peers : Send(t, op, p)
    BY <1>5 DEF Begins
  <2>2. /\ NextSlot \in Slots /\ cache[t] \in Holds /\ jar' = jar /\ losses' = losses
        /\ calls' = [calls EXCEPT ![NextSlot] = Ensured(NewRequest(t, op, p), NextSlot, cache[t])]
        /\ cache' = [cache EXCEPT ![t] = Held(NextSlot, cache[t])]
    BY <2>1, SendShape DEF Shapes, Send
  <2>3. \A u \in Tabs : Cached(u)
    BY <2>2 DEF Held, Shapes, TypeOK
  <2>4. LET c == NewRequest(t, op, p) IN
        c \in CallSet /\ c.tab = t /\ c.attempt = 1 /\ c.since = jar /\ c.header = 0
    BY NewRequestIs DEF TypeOK
  <2>5. LET d == Ensured(NewRequest(t, op, p), NextSlot, cache[t]) IN
        /\ d.tab \in Tabs /\ d.pc \in {"token", "ready"} /\ d.awaits \in {None} \cup Slots
        /\ d.header = 0 \/ (cache[t] \in Nat /\ d.header = cache[t])
        /\ d.since = jar /\ d.attempt = 1
    BY <2>2, <2>4, EnsuredIs DEF Holds
  <2>6. cache[t] \in Nat => cache[t] \in 0..jar
    BY <1>1, ClientAssumption DEF TypeOK
  <2>7. T(NextSlot)
    BY <1>1, <2>2, <2>5, <2>6 DEF Shapes, Pc
  <2>8. \A w \in Slots : w # NextSlot => T(w)
    BY <2>2 DEF TypeOK
  <2> QED
    BY <2>2, <2>3, <2>7, <2>8 DEF TypeOK
<1>6. ASSUME NEW s \in Slots, FetchAnswered(s) PROVE TypeOK'
  <2> DEFINE t == calls[s].tab
  <2>1. jar' = jar + 1 /\ losses' = losses /\ t \in Tabs
    BY <1>6, AnsweredIs
  <2>2. ASSUME NEW u \in Tabs PROVE Cached(u)
    <3>1. cache'[u] = cache[u] \/ cache'[u] = jar + 1 \/ cache'[u] = s
      BY <1>6, AnsweredIs DEF Held
    <3>2. cache[u] \in {None} \cup Slots \cup 1..jar
      BY DEF TypeOK
    <3> QED
      BY <1>1, <2>1, <3>1, <3>2
  <2>3. ASSUME NEW w \in Slots PROVE T(w)
    <3>1. CASE calls[w].awaits # s
      <4>1. calls'[w] = calls[w]
        BY <1>6, <3>1, AnsweredIs
      <4> QED
        BY <1>1, <2>1, <4>1 DEF TypeOK
    <3>2. CASE calls[w].awaits = s
      <4>1. /\ calls[w].tab \in Tabs /\ calls[w].header \in 0..jar /\ calls[w].since \in 0..jar
            /\ calls[w].attempt \in 1..MaxAttempts /\ cache[t] \in {None} \cup Slots \cup 1..jar
        BY <2>1, <3>2, NoCallIs, ClientAssumption DEF TypeOK
      <4>2. /\ calls'[w].tab = calls[w].tab /\ calls'[w].since = calls[w].since
            /\ calls'[w].pc \in {"ready", "token"}
            /\ calls'[w].attempt = 1 \/ calls'[w].attempt = calls[w].attempt
            /\ \/ calls'[w].header = jar + 1 \/ calls'[w].header = calls[w].header
               \/ cache[t] \in Nat /\ calls'[w].header = cache[t]
        BY <1>6, <3>2, AnsweredIs
      <4>3. calls'[w].awaits \in {None} \cup Slots
        BY <1>6, Moves DEF Shapes, CallSet
      <4>4. cache[t] \in Nat => cache[t] \in 0..jar
        BY <4>1, <1>1, ClientAssumption
      <4>5. calls'[w].header \in 0..jar' /\ calls'[w].since \in 0..jar'
        BY <1>1, <2>1, <4>1, <4>2, <4>4
      <4> QED
        BY <1>1, <4>1, <4>2, <4>3, <4>5 DEF Pc
    <3> QED
      BY <3>1, <3>2
  <2> QED
    BY <1>1, <2>1, <2>2, <2>3 DEF TypeOK
<1>7. ASSUME NEW s \in Slots, FetchFailed(s) PROVE TypeOK'
  <2>1. jar' = jar /\ losses' \in 0..MaxLosses /\ \A u \in Tabs : cache'[u] \in {None, cache[u]}
    BY <1>7, FailedIs DEF Shapes
  <2>2. ASSUME NEW w \in Slots PROVE T(w)
    <3>1. CASE calls[w].awaits # s
      BY <1>7, <2>1, <3>1, FailedIs DEF TypeOK
    <3>2. CASE calls[w].awaits = s
      <4>1. calls[w] # NoCall
        BY <3>2, NoCallIs, ClientAssumption
      <4> QED
        BY <1>7, <2>1, <3>2, <4>1, FailedIs DEF TypeOK, Pc
    <3> QED
      BY <3>1, <3>2
  <2> QED
    BY <2>1, <2>2 DEF TypeOK
<1>8. ASSUME NEW s \in Slots, Dispatch(s) \/ Refresh(s) \/ Lose(s) \/ Serve(s) PROVE TypeOK'
  <2>1. jar' = jar /\ \A w \in Slots : w # s => calls'[w] = calls[w]
    BY <1>8, OneMoves
  <2>2. losses' \in 0..MaxLosses
    <3>1. losses' = losses \/ (losses < MaxLosses /\ losses' = losses + 1)
      BY <1>8, OneMoves DEF Lose, Lost
    <3> QED
      BY <1>1, <3>1
  <2>3. /\ calls[s].tab \in Tabs /\ calls[s].header \in 0..jar /\ calls[s].since \in 0..jar
        /\ calls[s].attempt \in 1..MaxAttempts /\ calls[s].awaits = None
    BY <1>8, OneMoves, NoCallIs, ClientAssumption DEF TypeOK, Pc, Tries, Waits
  <2>4. \A u \in Tabs : Cached(u)
    <3>1. \A u \in Tabs : cache'[u] \in {cache[u], s}
      <4>1. CASE Refresh(s)
        BY <4>1 DEF Refresh, Shapes
      <4> QED
        BY <1>8, <4>1, OneMoves
    <3> QED
      BY <2>1, <3>1 DEF TypeOK
  <2>5. calls'[s].pc \in Pc /\ calls'[s].attempt \in 1..MaxAttempts
    <3>1. CASE Lose(s)
      <4>1. calls'[s] = Again(calls[s]) /\ calls[s] \in CallSet
        BY <3>1 DEF Lose, Shapes
      <4>2. \/ calls'[s].pc = "ready" /\ calls[s].attempt < MaxAttempts /\ calls'[s].attempt = calls[s].attempt + 1
            \/ calls'[s].pc = "failed" /\ calls'[s].attempt = calls[s].attempt
        BY <4>1, AgainIs
      <4> QED
        BY <2>3, <4>2, ClientAssumption DEF Pc
    <3>2. CASE ~Lose(s)
      <4>1. calls'[s].pc \in {"admitted", "denied", "refresh", "ok", "no"}
        BY <1>8, <3>2 DEF Dispatch, Refresh, Serve, Shapes, CallSet
      <4> QED
        BY <1>8, <2>3, <3>2, <4>1, OneMoves DEF Pc
    <3> QED
      BY <3>1, <3>2
  <2>6. calls'[s].awaits \in {None} \cup Slots
    BY <1>8, Moves DEF Shapes, CallSet
  <2>7. T(s)
    BY <1>8, <2>1, <2>3, <2>5, <2>6, OneMoves
  <2> QED
    BY <1>1, <2>1, <2>2, <2>4, <2>7 DEF TypeOK
<1> QED
  BY <1>3, <1>4, <1>5, <1>6, <1>7, <1>8, Moves DEF Client, ClientStep, ClientFault

-----------------------------------------------------------------------------
(* Reports *)

\* The report requests that may still come to a handler.
Pending == {s \in Slots : calls[s].op = "report" /\
                          calls[s].pc \in {"token", "refresh", "ready", "admitted", "denied"}}
Filed ==
  /\ filed \in Nat /\ reports \in Nat
  /\ filed + Cardinality(Pending) <= reports + losses

\* A set of requests has a size, and one request more or less changes it by one.
LEMMA Sizes ==
  ASSUME NEW A, NEW B, A \subseteq Slots, B \subseteq Slots
  PROVE  /\ Cardinality(A) \in Nat /\ Cardinality(B) \in Nat
         /\ A \subseteq B => Cardinality(A) <= Cardinality(B)
         /\ \A s \in Slots : A \subseteq B \cup {s} => Cardinality(A) <= Cardinality(B) + 1
         /\ \A s \in B : A \subseteq B \ {s} => Cardinality(A) + 1 <= Cardinality(B)
<1>1. IsFiniteSet(A) /\ IsFiniteSet(B)
  BY ClientAssumption, FS_Subset
<1>2. Cardinality(A) \in Nat /\ Cardinality(B) \in Nat
  BY <1>1, FS_CardinalityType
<1>3. A \subseteq B => Cardinality(A) <= Cardinality(B)
  BY <1>1, FS_Subset
<1>4. ASSUME NEW s \in Slots, A \subseteq B \cup {s} PROVE Cardinality(A) <= Cardinality(B) + 1
  <2>1. /\ IsFiniteSet(B \cup {s})
        /\ Cardinality(B \cup {s}) = IF s \in B THEN Cardinality(B) ELSE Cardinality(B) + 1
    BY <1>1, FS_AddElement
  <2>2. Cardinality(A) <= Cardinality(B \cup {s})
    BY <1>4, <2>1, FS_Subset
  <2> QED
    BY <1>2, <2>1, <2>2
<1>5. ASSUME NEW s \in B, A \subseteq B \ {s} PROVE Cardinality(A) + 1 <= Cardinality(B)
  <2>1. IsFiniteSet(B \ {s}) /\ Cardinality(B \ {s}) = Cardinality(B) - 1
    BY <1>1, FS_RemoveElement
  <2>2. Cardinality(A) <= Cardinality(B \ {s})
    BY <1>5, <2>1, FS_Subset
  <2> QED
    BY <1>2, <2>1, <2>2
<1> QED
  BY <1>2, <1>3, <1>4, <1>5

\* A filed report uses up a submission, or a loss that sent it again.
LEMMA FiledStep ==
  ASSUME Shapes, TypeOK, Waits, Filed, [Next]_vars
  PROVE  Filed'
<1>1. Pending \subseteq Slots /\ Pending' \subseteq Slots
  BY DEF Pending
<1>2. /\ filed \in Nat /\ reports \in Nat /\ losses \in Nat
      /\ Cardinality(Pending) \in Nat /\ Cardinality(Pending') \in Nat
      /\ filed + Cardinality(Pending) <= reports + losses
  BY <1>1, Sizes DEF Filed, TypeOK
<1>3. ASSUME NEW w \in Slots, calls'[w] = NoCall \/ Loads(w) PROVE w \notin Pending'
  BY <1>3, NoCallIs, ClientAssumption DEF Loads, Pending, Pc
<1>4. ASSUME NEW w \in Slots, Same(w), w \in Pending' PROVE w \in Pending
  BY <1>4 DEF Same, Pending
<1>5. ASSUME Pending' \subseteq Pending, UNCHANGED <<filed, reports>>, losses' \in Nat, losses <= losses'
      PROVE  Filed'
  BY <1>1, <1>2, <1>5, Sizes DEF Filed
<1>6. CASE Passive
  <2>1. Pending' \subseteq Pending
    BY <1>1, <1>3, <1>4, <1>6 DEF Passive, Quits
  <2>2. losses' \in Nat /\ losses <= losses'
    BY <1>2, <1>6, ClientAssumption DEF Passive
  <2> QED
    BY <1>5, <1>6, <2>1, <2>2 DEF Passive
<1>7. CASE \E t \in Tabs : Wiped(t)
  <2>1. Pending' \subseteq Pending
    BY <1>1, <1>3, <1>4, <1>7 DEF Wiped, Quits
  <2> QED
    BY <1>2, <1>5, <1>7, <2>1 DEF Wiped
<1>8. CASE Begins
  <2>1. PICK t \in Tabs, op \in OpNames, p \in Peers :
          /\ Send(t, op, p) /\ filed' = filed
          /\ reports' = IF op = "report" THEN reports + 1 ELSE reports
    BY <1>8 DEF Begins
  <2>2. /\ NextSlot \in Slots /\ losses' = losses
        /\ calls' = [calls EXCEPT ![NextSlot] = Ensured(NewRequest(t, op, p), NextSlot, cache[t])]
    BY <2>1, SendShape DEF Send
  <2>3. Ensured(NewRequest(t, op, p), NextSlot, cache[t]).op = op
    BY <2>2, NewRequestIs, EnsuredIs DEF Shapes, TypeOK
  <2>4. calls'[NextSlot].op = op /\ \A w \in Slots : w # NextSlot => calls'[w] = calls[w]
    BY <2>2, <2>3 DEF Shapes
  <2>5. Pending' \subseteq Pending \cup {NextSlot}
    BY <2>4 DEF Pending
  <2>6. op # "report" => Pending' \subseteq Pending
    BY <2>4 DEF Pending
  <2>7. CASE op = "report"
    <3>1. Cardinality(Pending') <= Cardinality(Pending) + 1
      BY <1>1, <2>2, <2>5, Sizes
    <3> QED
      BY <1>2, <2>1, <2>2, <2>7, <3>1 DEF Filed
  <2> QED
    BY <1>2, <1>5, <2>1, <2>2, <2>6, <2>7
<1>9. ASSUME NEW s \in Slots, FetchAnswered(s), UNCHANGED <<filed, reports>> PROVE Filed'
  <2>1. Pending' \subseteq Pending
    BY <1>9, AnsweredIs DEF Pending
  <2>2. losses' = losses
    BY <1>9, AnsweredIs
  <2> QED
    BY <1>2, <1>5, <1>9, <2>1, <2>2
<1>10. ASSUME NEW s \in Slots, FetchFailed(s), UNCHANGED <<filed, reports>> PROVE Filed'
  <2>1. Pending' \subseteq Pending
    BY <1>10, FailedIs DEF Pending
  <2>2. losses' = losses + 1
    BY <1>10, FailedIs
  <2> QED
    BY <1>2, <1>5, <1>10, <2>1, <2>2
<1>11. ASSUME NEW s \in Slots, Dispatch(s) \/ Refresh(s), UNCHANGED <<filed, reports>> PROVE Filed'
  <2>1. calls[s].pc \in {"ready", "denied"} /\ losses' = losses
    BY <1>11 DEF Dispatch, Refresh, At
  <2>2. calls'[s].op = calls[s].op /\ \A w \in Slots : w # s => calls'[w] = calls[w]
    BY <1>11, OneMoves
  <2>3. Pending' \subseteq Pending
    BY <2>1, <2>2 DEF Pending
  <2> QED
    BY <1>2, <1>5, <1>11, <2>1, <2>3
<1>12. ASSUME NEW s \in Slots, Lose(s), UNCHANGED <<filed, reports>> PROVE Filed'
  <2>1. losses' = losses + 1 /\ \A w \in Slots : w # s => calls'[w] = calls[w]
    BY <1>12, OneMoves DEF Lose, Lost
  <2>2. Pending' \subseteq Pending \cup {s}
    BY <2>1 DEF Pending
  <2>3. Cardinality(Pending') <= Cardinality(Pending) + 1
    BY <1>1, <2>2, Sizes
  <2> QED
    BY <1>2, <1>12, <2>1, <2>3 DEF Filed
<1>13. ASSUME NEW s \in Slots, Serve(s) PROVE Filed'
  <2>1. /\ calls[s].pc = "admitted" /\ calls'[s].pc \in {"ok", "no"} /\ losses' = losses /\ reports' = reports
        /\ filed' = IF calls[s].op = "report" THEN filed + 1 ELSE filed
    BY <1>13 DEF Serve, At, bounds, Shapes, CallSet
  <2>2. \A w \in Slots : w # s => calls'[w] = calls[w]
    BY <1>13, OneMoves
  <2>3. Pending' \subseteq Pending \ {s}
    BY <2>1, <2>2 DEF Pending
  <2>4. CASE calls[s].op = "report"
    <3>1. s \in Pending
      BY <2>1, <2>4 DEF Pending
    <3>2. Cardinality(Pending') + 1 <= Cardinality(Pending)
      BY <1>1, <2>3, <3>1, Sizes
    <3> QED
      BY <1>2, <2>1, <2>4, <3>2 DEF Filed
  <2> QED
    BY <1>2, <1>5, <2>1, <2>3, <2>4
<1> QED
  BY <1>6, <1>7, <1>8, <1>9, <1>10, <1>11, <1>12, <1>13, Moves DEF Client, ClientStep, ClientFault

-----------------------------------------------------------------------------
(* Rows that were answered *)

Names == Peers \cup {None}
ScreenSet ==
  [page : {"connections", "safety", "discover"}, shown : [Lists -> SUBSET Names], loading : BOOLEAN,
   busy : {None} \cup (Lists \X Peers), asked : [Peers -> {"idle", "sending", "sent", "error"}],
   hidden : SUBSET Names, modal : Names, submitting : BOOLEAN, done : BOOLEAN]
Answers == {"accept", "decline"}

\* An accept or decline that has been answered has taken its peer from the
\* requests, and so from what the reload after it reads.
RowCall(s) ==
  /\ At(s, "loading") \/ calls[s].got = <<>>
  /\ calls[s].op \in DOMAIN Ops \/ calls[s].pc \in {"loading", None}
  /\ calls[s].op \in Answers =>
       /\ calls[s].live \/ At(s, "loading") =>
            calls[s].tab \in Tabs /\ screen[calls[s].tab].page = "connections"
       /\ calls[s].pc \in {"ok", "loading"} => calls[s].peer \notin db["incoming"]
       /\ "incoming" \in DOMAIN calls[s].got => calls[s].peer \notin calls[s].got["incoming"]
\* Only the connections page shows requests.
RowPage(t) == screen[t].shown["incoming"] # {} => screen[t].page = "connections"
Rows ==
  /\ screen \in [Tabs -> ScreenSet] /\ \A t \in Tabs : RowPage(t)
  /\ \A s \in Slots : RowCall(s)

\* The step leaves the call where it was, or short of its answer.
Carried(g) ==
  /\ calls'[g].op = calls[g].op /\ calls'[g].peer = calls[g].peer /\ calls'[g].tab = calls[g].tab
  /\ calls'[g].got = calls[g].got /\ (calls'[g].live => calls[g].live)
  /\ \/ calls'[g].pc = calls[g].pc
     \/ calls[g].pc \notin {"loading", None} /\ calls'[g].pc \notin {"ok", "loading"}
Pagewise == \A t \in Tabs : screen'[t].page = screen[t].page

\* An unused slot answers nothing.
LEMMA NoCallRow ==
  ASSUME NEW g \in Slots, calls'[g] = NoCall
  PROVE  RowCall(g)'
<1>1. NoCall.got = <<>> /\ NoCall.live = FALSE /\ NoCall.pc = None /\ None \notin {"ok", "loading"}
  BY ClientAssumption DEF NoCall, Pc
<1>2. "incoming" \notin DOMAIN NoCall.got
  BY DEF NoCall
<1> QED
  BY <1>1, <1>2 DEF RowCall, At

\* A call that is carried on.
LEMMA CarriedRow ==
  ASSUME NEW g \in Slots, RowCall(g), Carried(g), Pagewise, db'["incoming"] \subseteq db["incoming"]
  PROVE  RowCall(g)'
  BY DEF RowCall, Carried, Pagewise, At

\* What ensureCsrfToken leaves of a call.
LEMMA EnsuredCarries ==
  ASSUME NEW c \in CallSet, NEW s \in Slots, NEW held \in Holds
  PROVE  LET d == Ensured(c, s, held) IN
         /\ d.op = c.op /\ d.tab = c.tab /\ d.peer = c.peer /\ d.live = c.live /\ d.got = c.got
         /\ d.pc \in {"ready", "token"}
<1>1. CASE held \in Nat
  BY <1>1 DEF Ensured, CallSet
<1>2. CASE held \notin Nat
  BY <1>2 DEF Ensured, CallSet
<1> QED
  BY <1>1, <1>2

\* The client carries every call on, and the page goes on looking at it.
Borne(g) == Carried(g) /\ calls'[g].live = calls[g].live
\* The client carries every call on.
LEMMA ClientCarries ==
  ASSUME Shapes, TypeOK, Waits, NEW s \in Slots, Client(s)
  PROVE  \A g \in Slots : Borne(g)
<1>1. CASE FetchAnswered(s)
  <2> DEFINE t == calls[s].tab
             held == IF cache[t] = s THEN jar + 1 ELSE cache[t]
             again(w) == [calls[w] EXCEPT !.allow = FALSE]
             resumed(w) == IF At(w, "token") THEN Ensured(calls[w], w, jar + 1)
                           ELSE Ensured(again(w), w, held)
  <2>1. calls' = [w \in Slots |-> IF w \in Waiters(s) THEN resumed(w) ELSE calls[w]]
    BY <1>1 DEF FetchAnswered, Resumed
  <2>2. t \in Tabs
    BY <1>1, NoCallIs, ClientAssumption DEF FetchAnswered, Resumed, TypeOK
  <2>3. jar + 1 \in Holds /\ held \in Holds
    BY <2>2 DEF TypeOK, Shapes, Holds
  <2> HIDE DEF held
  <2>4. ASSUME NEW w \in Slots, w \in Waiters(s) PROVE Borne(w)
    <3>1. calls[w] \in CallSet /\ calls[w].pc \in {"token", "refresh"}
      BY <2>4, NoCallIs, ClientAssumption, <1>1 DEF Shapes, Waits, Waiters, FetchAnswered, Resumed
    <3>2. /\ again(w) \in CallSet /\ again(w).op = calls[w].op /\ again(w).tab = calls[w].tab
          /\ again(w).peer = calls[w].peer /\ again(w).live = calls[w].live /\ again(w).got = calls[w].got
      BY <3>1 DEF CallSet
    <3> HIDE DEF again
    <3>3. /\ resumed(w).op = calls[w].op /\ resumed(w).tab = calls[w].tab
          /\ resumed(w).peer = calls[w].peer /\ resumed(w).live = calls[w].live
          /\ resumed(w).got = calls[w].got /\ resumed(w).pc \in {"ready", "token"}
      BY <2>3, <3>1, <3>2, EnsuredCarries
    <3>4. calls'[w] = resumed(w)
      BY <2>1, <2>4
    <3> HIDE DEF resumed
    <3> QED
      BY <3>1, <3>3, <3>4, ClientAssumption DEF Pc, Borne, Carried
  <2>5. \A w \in Slots : w \notin Waiters(s) => Borne(w)
    BY <2>1, ClientAssumption DEF Pc, Borne, Carried
  <2> QED
    BY <2>4, <2>5
<1>2. CASE FetchFailed(s)
  <2>1. ASSUME NEW w \in Slots, calls[w].awaits = s PROVE Borne(w)
    <3>1. calls[w] \in CallSet /\ calls[w].pc \in {"token", "refresh"}
      BY <2>1, ClientAssumption DEF Shapes, Waits
    <3>2. calls'[w] = [calls[w] EXCEPT !.pc = "failed", !.awaits = None]
      BY <1>2, <2>1 DEF FetchFailed, Rejected, Waiters
    <3> QED
      BY <3>1, <3>2, ClientAssumption DEF Borne, Carried, CallSet, Pc
  <2>2. \A w \in Slots : calls[w].awaits # s => Borne(w)
    BY <1>2 DEF FetchFailed, Rejected, Waiters, Borne, Carried
  <2> QED
    BY <2>1, <2>2
<1>3. CASE Dispatch(s) \/ Refresh(s)
  <2>1. calls[s] \in CallSet /\ \A g \in Slots : g # s => calls'[g] = calls[g]
    BY <1>3, OneMoves DEF Shapes
  <2>2. CASE Dispatch(s)
    <3> DEFINE pc == IF calls[s].header = jar THEN "admitted" ELSE "denied"
    <3>1. calls'[s] = [calls[s] EXCEPT !.pc = pc] /\ calls[s].pc = "ready"
      BY <2>2 DEF Dispatch, Shapes, At
    <3>2. pc \notin {"ok", "loading"}
      OBVIOUS
    <3> HIDE DEF pc
    <3>3. Borne(s)
      BY <2>1, <3>1, <3>2, ClientAssumption DEF Borne, Carried, CallSet, Pc
    <3> QED
      BY <2>1, <3>3, ClientAssumption DEF Pc, Borne, Carried
  <2>3. CASE Refresh(s)
    <3>1. calls'[s] = [calls[s] EXCEPT !.pc = "refresh", !.awaits = s] /\ calls[s].pc = "denied"
      BY <2>1, <2>3 DEF Refresh, Shapes, At, CallSet
    <3>2. Borne(s)
      BY <2>1, <3>1, ClientAssumption DEF Borne, Carried, CallSet, Pc
    <3> QED
      BY <2>1, <3>2, ClientAssumption DEF Pc, Borne, Carried
  <2> QED
    BY <1>3, <2>2, <2>3
<1>4. CASE Lose(s)
  <2>1. calls[s] \in CallSet /\ \A g \in Slots : g # s => calls'[g] = calls[g]
    BY <1>4, OneMoves DEF Shapes
  <2>2. calls'[s] = Again(calls[s]) /\ calls[s].pc \in {"admitted", "denied", "ok", "no"}
    BY <1>4 DEF Lose, Shapes
  <2>3. Borne(s)
    <3>1. CASE calls[s].attempt < MaxAttempts
      BY <2>1, <2>2, <3>1, ClientAssumption DEF Pc, Again, Borne, Carried, CallSet
    <3>2. CASE ~(calls[s].attempt < MaxAttempts)
      BY <2>1, <2>2, <3>2, ClientAssumption DEF Pc, Again, Borne, Carried, CallSet
    <3> QED
      BY <3>1, <3>2
  <2> QED
    BY <2>1, <2>3, ClientAssumption DEF Pc, Borne, Carried
<1> QED
  BY <1>1, <1>2, <1>3, <1>4 DEF Client, ClientStep, ClientFault

\* The services put nobody among the requests, and an answer takes its peer away.
LEMMA OpsAre ==
  /\ DOMAIN Ops = OpNames \ {"load"}
  /\ \A op \in DOMAIN Ops : "incoming" \notin Ops[op].adds
  /\ \A op \in Answers : "incoming" \in Ops[op].drops /\ ListOf(op) = "incoming"
  /\ \A op \in RowOps : ListOf(op) \in Lists
<1>1. DOMAIN Ops = OpNames \ {"load"}
  BY DEF Ops, OpNames
<1>2. ASSUME NEW op \in DOMAIN Ops PROVE "incoming" \notin Ops[op].adds
  BY <1>2 DEF Ops, Service, Between, Lists
<1>3. ASSUME NEW op \in Answers PROVE "incoming" \in Ops[op].drops /\ Ops[op].needs = {"incoming"}
  BY DEF Ops, Service, Answers
<1>4. ASSUME NEW op \in Answers PROVE ListOf(op) = "incoming"
  BY <1>3 DEF ListOf, Lists
<1>5. ASSUME NEW op \in RowOps PROVE ListOf(op) \in Lists
  <2>1. \E l \in Lists : l \in Ops[op].needs
    BY DEF Ops, Service, RowOps, Lists
  <2> QED
    BY <2>1 DEF ListOf
<1> QED
  BY <1>1, <1>2, <1>3, <1>4, <1>5

\* A page of a tab that stays the same page.
LEMMA TurnsRows ==
  ASSUME Rows, NEW t \in Tabs, NEW p \in ScreenSet, screen' = [screen EXCEPT ![t] = p],
         p.page = screen[t].page, RowPage(t) => (p.shown["incoming"] # {} => p.page = "connections")
  PROVE  screen' \in [Tabs -> ScreenSet] /\ (\A u \in Tabs : RowPage(u)') /\ Pagewise
  BY DEF Rows, RowPage, Pagewise

\* The calls of a tab that is opened anew are over, or go on unseen.
Leaves(t, left) ==
  /\ left \in [Slots -> CallSet]
  /\ \A s \in Slots :
       \/ left[s] = NoCall
       \/ calls[s].tab # t /\ left[s] = calls[s]
       \/ calls[s].pc # "loading" /\ left[s] = [calls[s] EXCEPT !.live = FALSE]
\* A new page.
LEMMA MountRows ==
  ASSUME Shapes, Rows, NEW t \in Tabs, NEW k \in DOMAIN PageLists, NEW left, Mount(t, k, left),
         Leaves(t, left)
  PROVE  Rows'
<1> DEFINE new == NewPage(k)
           l == [NoCall EXCEPT !.op = "load", !.tab = t, !.live = TRUE, !.pc = "loading", !.attempt = 1]
<1>1. k \in {"connections", "safety", "discover"}
  BY DEF PageLists
<1>2. new \in ScreenSet /\ new.shown["incoming"] = {}
  BY <1>1 DEF NewPage, ScreenSet, Names, Lists
<1>3. screen' = [screen EXCEPT ![t] = new] /\ db' = db
  BY DEF Mount
<1> HIDE DEF new
<1>4. screen' \in [Tabs -> ScreenSet] /\ \A u \in Tabs : RowPage(u)'
  BY <1>2, <1>3 DEF Rows, RowPage
<1>5. \A u \in Tabs : u # t => screen'[u] = screen[u]
  BY <1>3 DEF Rows
<1>6. ASSUME NEW g \in Slots, calls'[g] = left[g] PROVE RowCall(g)'
  <2>1. CASE left[g] = NoCall
    BY <1>6, <2>1, NoCallRow
  <2>2. CASE calls[g].tab # t /\ left[g] = calls[g]
    BY <1>3, <1>5, <1>6, <2>2 DEF Rows, RowCall, At
  <2>3. CASE calls[g].pc # "loading" /\ left[g] = [calls[g] EXCEPT !.live = FALSE]
    <3>1. /\ calls'[g].op = calls[g].op /\ calls'[g].peer = calls[g].peer /\ calls'[g].got = calls[g].got
          /\ calls'[g].pc = calls[g].pc /\ calls'[g].live = FALSE
      BY <1>6, <2>3 DEF Shapes, CallSet
    <3> QED
      BY <1>3, <2>3, <3>1 DEF Rows, RowCall, At
  <2> QED
    BY <2>1, <2>2, <2>3 DEF Leaves
<1>7. \A g \in Slots : RowCall(g)'
  <2>1. CASE k = "discover"
    BY <1>6, <2>1 DEF Mount, Leaves
  <2>2. CASE k # "discover"
    <3>1. PICK n \in Slots : calls' = [left EXCEPT ![n] = l]
      BY <2>2, NextSlotFree DEF Mount
    <3>2. l.op = "load" /\ l.pc = "loading" /\ l.got = <<>>
      BY DEF NoCall
    <3> HIDE DEF l
    <3>3. RowCall(n)'
      BY <3>1, <3>2 DEF RowCall, At, Answers, Leaves
    <3> QED
      BY <1>6, <3>1, <3>3 DEF Leaves
  <2> QED
    BY <2>1, <2>2
<1> QED
  BY <1>4, <1>7 DEF Rows

\* A button that sends a request.
LEMMA SendRows ==
  ASSUME Shapes, TypeOK, Rows, NEW t \in Tabs, NEW op \in OpNames \ {"load"}, NEW p \in Peers,
         Send(t, op, p), db' = db, op \in Answers => screen[t].page = "connections",
         NEW after \in ScreenSet, screen' = [screen EXCEPT ![t] = after],
         after.page = screen[t].page, after.shown = screen[t].shown
  PROVE  Rows'
<1> DEFINE new == NewRequest(t, op, p)
           c == Ensured(new, NextSlot, cache[t])
<1>1. PICK n \in Slots : n = NextSlot /\ calls' = [calls EXCEPT ![n] = c]
  BY SendShape
<1>2. /\ new \in CallSet /\ new.op = op /\ new.tab = t /\ cache[t] \in Holds /\ new.got = <<>>
  BY NewRequestIs DEF TypeOK, Shapes, NewRequest, NoCall
<1> HIDE DEF new
<1>3. /\ c.op = op /\ c.tab = t /\ c.got = <<>> /\ c.pc \in {"ready", "token"}
  BY <1>1, <1>2, EnsuredCarries
<1>4. screen' \in [Tabs -> ScreenSet] /\ (\A u \in Tabs : RowPage(u)') /\ Pagewise
  BY TurnsRows DEF RowPage
<1> HIDE DEF c
<1>5. RowCall(n)'
  <2>1. calls'[n] = c
    BY <1>1 DEF Shapes
  <2>2. "incoming" \notin DOMAIN <<>>
    OBVIOUS
  <2> QED
    BY <1>3, <1>4, <2>1, <2>2, OpsAre DEF RowCall, At, Pagewise
<1>6. \A g \in Slots : g # n => RowCall(g)'
  <2>1. \A g \in Slots : g # n => calls'[g] = calls[g]
    BY <1>1
  <2> QED
    BY <1>4, <2>1, CarriedRow DEF Carried, Rows
<1> QED
  BY <1>4, <1>5, <1>6 DEF Rows

\* What the user does.
LEMMA GestureRows ==
  ASSUME Shapes, TypeOK, Rows, NEW t \in Tabs, Gesture(t)
  PROVE  Rows'
<1> DEFINE old == screen[t]
<1>1. old \in ScreenSet /\ RowPage(t)
  BY DEF Rows
<1>2. ASSUME NEW k \in DOMAIN PageLists, Open(t, k) PROVE Rows'
  <2> DEFINE left == [s \in Slots |->
               IF calls[s].tab # t THEN calls[s]
               ELSE IF At(s, "loading") THEN NoCall ELSE [calls[s] EXCEPT !.live = FALSE]]
  <2>1. Mount(t, k, left)
    BY <1>2 DEF Open
  <2>2. left \in [Slots -> CallSet]
    BY NoCallShape, SetLive DEF Shapes
  <2>3. \A s \in Slots :
          \/ left[s] = NoCall
          \/ calls[s].tab # t /\ left[s] = calls[s]
          \/ calls[s].pc # "loading" /\ left[s] = [calls[s] EXCEPT !.live = FALSE]
    BY DEF At
  <2> HIDE DEF left
  <2>4. Leaves(t, left)
    BY <2>2, <2>3 DEF Leaves
  <2> QED
    BY <2>1, <2>4, MountRows
<1>3. CASE Reload(t)
  <2> DEFINE left == [s \in Slots |-> IF calls[s].tab = t THEN NoCall ELSE calls[s]]
  <2>1. PICK k \in DOMAIN PageLists : k = old.page
    BY <1>1 DEF ScreenSet, PageLists
  <2>2. Mount(t, k, left)
    BY <1>3, <2>1 DEF Reload
  <2>3. left \in [Slots -> CallSet]
    BY NoCallShape DEF Shapes
  <2>4. \A s \in Slots :
          \/ left[s] = NoCall
          \/ calls[s].tab # t /\ left[s] = calls[s]
          \/ calls[s].pc # "loading" /\ left[s] = [calls[s] EXCEPT !.live = FALSE]
    OBVIOUS
  <2> HIDE DEF left
  <2>5. Leaves(t, left)
    BY <2>3, <2>4 DEF Leaves
  <2> QED
    BY <2>2, <2>5, MountRows
<1>4. ASSUME NEW op \in OpNames \ {"load"}, NEW p \in Peers, NEW after \in ScreenSet,
             Click(t, op, p, after), after.page = old.page, after.shown = old.shown,
             op \in Answers => old.page = "connections"
      PROVE  Rows'
  BY <1>4, SendRows DEF Click
<1>5. ASSUME NEW p \in Peers, NEW op \in RowOps, Act(t, op, p) PROVE Rows'
  <2> DEFINE after == [old EXCEPT !.busy = <<ListOf(op), p>>]
  <2>1. after \in ScreenSet /\ after.page = old.page /\ after.shown = old.shown
    BY <1>1, OpsAre DEF ScreenSet
  <2>2. Click(t, op, p, after) /\ p \in old.shown[ListOf(op)]
    BY <1>5 DEF Act
  <2>3. op \in Answers => old.page = "connections"
    BY <1>1, <2>2, OpsAre DEF RowPage
  <2>4. op \in OpNames \ {"load"}
    BY DEF RowOps, OpNames
  <2> HIDE DEF after
  <2> QED
    BY <1>4, <2>1, <2>2, <2>3, <2>4
<1>6. ASSUME NEW p \in Peers, Connect(t, p) PROVE Rows'
  <2> DEFINE asked == [old.asked EXCEPT ![p] = "sending"]
             after == [old EXCEPT !.asked = asked]
  <2>1. asked \in [Peers -> {"idle", "sending", "sent", "error"}]
    BY <1>1 DEF ScreenSet
  <2>2. after = [old EXCEPT !.asked[p] = "sending"]
    BY <1>1 DEF ScreenSet
  <2>3. Click(t, "connect", p, after)
    BY <1>6, <2>2 DEF Connect
  <2> HIDE DEF asked
  <2>4. after \in ScreenSet /\ after.page = old.page /\ after.shown = old.shown
    BY <1>1, <2>1 DEF ScreenSet
  <2> HIDE DEF after
  <2> QED
    BY <1>4, <2>3, <2>4 DEF OpNames, Answers
<1>7. ASSUME NEW p \in Peers, Block(t, p) PROVE Rows'
  BY <1>1, <1>4, <1>7 DEF Block, OpNames, Answers
<1>8. ASSUME NEW p \in Peers, Submit(t, p) PROVE Rows'
  <2> DEFINE after == [old EXCEPT !.modal = p, !.submitting = TRUE, !.done = FALSE]
  <2>1. after \in ScreenSet /\ after.page = old.page /\ after.shown = old.shown
    BY <1>1 DEF ScreenSet, Names
  <2>2. Send(t, "report", p) /\ db' = db /\ screen' = [screen EXCEPT ![t] = after]
    BY <1>8 DEF Submit, Rows
  <2> HIDE DEF after
  <2> QED
    BY <2>1, <2>2, SendRows DEF OpNames, Answers
<1>9. CASE CloseReport(t)
  <2> DEFINE after == [old EXCEPT !.modal = None]
  <2>1. after \in ScreenSet /\ after.page = old.page /\ after.shown = old.shown
    BY <1>1 DEF ScreenSet, Names
  <2>2. screen' = [screen EXCEPT ![t] = after] /\ calls' = Orphaned(t) /\ db' = db
    BY <1>9 DEF CloseReport
  <2> HIDE DEF after
  <2>3. screen' \in [Tabs -> ScreenSet] /\ (\A u \in Tabs : RowPage(u)') /\ Pagewise
    BY <2>1, <2>2, TurnsRows DEF RowPage
  <2>4. \A g \in Slots : Carried(g)
    BY <2>2 DEF Orphaned, Shapes, CallSet, Carried
  <2> QED
    BY <2>2, <2>3, <2>4, CarriedRow DEF Rows
<1> QED
  BY <1>2, <1>3, <1>5, <1>6, <1>7, <1>8, <1>9 DEF Gesture

\* Whose tab it is.
LEMMA TabOf ==
  ASSUME TypeOK, NEW s \in Slots, calls[s].pc # None
  PROVE  calls[s].tab \in Tabs
  BY NoCallIs DEF TypeOK

\* What the page knows after the step shows no request more.
Restful(s, p) ==
  /\ p \in ScreenSet /\ p.page = screen[calls[s].tab].page
  /\ p.shown["incoming"] = screen[calls[s].tab].shown["incoming"]

\* A call that ends.
LEMMA EndRows ==
  ASSUME Rows, TypeOK, NEW s \in Slots, calls[s].pc # None, db' = db,
         calls' = [calls EXCEPT ![s] = NoCall],
         screen' \in [Tabs -> ScreenSet], \A u \in Tabs : RowPage(u)', Pagewise
  PROVE  Rows'
<1>1. RowCall(s)'
  <2>1. calls'[s] = NoCall \/ calls'[s] = calls[s]
    OBVIOUS
  <2> QED
    BY <2>1, NoCallRow, CarriedRow DEF Rows, Carried
<1>2. \A g \in Slots : g # s => RowCall(g)'
  BY CarriedRow DEF Rows, Carried
<1> QED
  BY <1>1, <1>2 DEF Rows

\* It ends, and the page goes on without a request more.
LEMMA EndsRows ==
  ASSUME Shapes, Rows, TypeOK, NEW s \in Slots, calls[s].pc # None, NEW p, Ends(s, p), Restful(s, p)
  PROVE  Rows'
<1>1. calls' = [calls EXCEPT ![s] = NoCall] /\ db' = db
  BY DEF Ends
<1>2. PICK t \in Tabs : t = calls[s].tab
  BY TabOf
<1>3. CASE screen' = screen
  <2>1. screen' \in [Tabs -> ScreenSet] /\ (\A u \in Tabs : RowPage(u)') /\ Pagewise
    BY <1>3 DEF Rows, RowPage, Pagewise
  <2> QED
    BY <1>1, <2>1, EndRows
<1>4. CASE screen' = [screen EXCEPT ![t] = p]
  <2>1. screen' \in [Tabs -> ScreenSet] /\ (\A u \in Tabs : RowPage(u)') /\ Pagewise
    BY <1>2, <1>4, TurnsRows DEF Restful, RowPage
  <2> QED
    BY <1>1, <2>1, EndRows
<1> QED
  BY <1>2, <1>3, <1>4 DEF Ends

\* The answers to the buttons.
LEMMA AnswerRows ==
  ASSUME Shapes, Rows, TypeOK, NEW s \in Slots, Answered(s) \/ Refused(s) \/ BlockAnswered(s)
  PROVE  Rows'
<1> DEFINE t == calls[s].tab
           scr == screen[t]
           p == calls[s].peer
<1>1. calls[s].pc \in {"ok", "no", "failed", "denied"} /\ calls[s].pc # None
  BY ClientAssumption DEF Answered, Refused, BlockAnswered, Settled, At, Pc
<1>2. t \in Tabs /\ scr \in ScreenSet /\ p \in Names
  BY <1>1, TabOf DEF Rows, Shapes, CallSet, Names
<1>3. CASE Answered(s)
  <2>1. CASE Ends(s, scr)
    BY <1>1, <1>2, <2>1, EndsRows DEF Restful
  <2>2. CASE Ends(s, [scr EXCEPT !.shown["blocks"] = @ \ {p}, !.busy = None])
    <3> DEFINE shown == [scr.shown EXCEPT !["blocks"] = @ \ {p}]
               q == [scr EXCEPT !.shown = shown, !.busy = None]
    <3>1. shown \in [Lists -> SUBSET Names] /\ shown["incoming"] = scr.shown["incoming"]
      BY <1>2 DEF ScreenSet, Lists
    <3>2. q = [scr EXCEPT !.shown["blocks"] = @ \ {p}, !.busy = None]
      BY <1>2 DEF ScreenSet
    <3>3. Ends(s, q)
      BY <2>2, <3>2
    <3> HIDE DEF shown
    <3>4. Restful(s, q)
      BY <1>2, <3>1 DEF Restful, ScreenSet
    <3> QED
      BY <1>1, <3>3, <3>4, EndsRows
  <2>3. CASE Ends(s, [scr EXCEPT !.asked[p] = "sent"])
    <3> DEFINE asked == [scr.asked EXCEPT ![p] = "sent"]
               q == [scr EXCEPT !.asked = asked]
    <3>1. asked \in [Peers -> {"idle", "sending", "sent", "error"}]
      BY <1>2 DEF ScreenSet
    <3>2. q = [scr EXCEPT !.asked[p] = "sent"]
      BY <1>2 DEF ScreenSet
    <3>3. Ends(s, q)
      BY <2>3, <3>2
    <3> HIDE DEF asked
    <3>4. Restful(s, q)
      BY <1>2, <3>1 DEF Restful, ScreenSet
    <3> QED
      BY <1>1, <3>3, <3>4, EndsRows
  <2>4. CASE Ends(s, [scr EXCEPT !.done = TRUE, !.submitting = FALSE])
    <3> DEFINE q == [scr EXCEPT !.done = TRUE, !.submitting = FALSE]
    <3>1. Restful(s, q)
      BY <1>2 DEF Restful, ScreenSet
    <3> QED
      BY <1>1, <2>4, <3>1, EndsRows
  <2> QED
    BY <1>3, <2>1, <2>2, <2>3, <2>4 DEF Answered
<1>4. CASE Refused(s)
  <2> DEFINE asked == [scr.asked EXCEPT ![p] = "error"]
             q1 == [scr EXCEPT !.busy = None]
             q2 == [scr EXCEPT !.asked = asked]
             q3 == [scr EXCEPT !.submitting = FALSE]
  <2>1. asked \in [Peers -> {"idle", "sending", "sent", "error"}]
    BY <1>2 DEF ScreenSet
  <2>2. q2 = [scr EXCEPT !.asked[p] = "error"]
    BY <1>2 DEF ScreenSet
  <2>3. Ends(s, q1) \/ Ends(s, q2) \/ Ends(s, q3) \/ Ends(s, scr)
    <3> DEFINE op == calls[s].op
    <3>1. Ends(s, CASE op \in RowOps -> q1 [] op = "connect" -> q2 [] op = "report" -> q3 [] OTHER -> scr)
      BY <1>4, <2>2 DEF Refused
    <3> HIDE DEF q1, q2, q3
    <3>2. CASE op \in RowOps
      BY <3>1, <3>2 DEF RowOps
    <3>3. CASE op = "connect"
      BY <3>1, <3>3 DEF RowOps
    <3>4. CASE op = "report"
      BY <3>1, <3>4 DEF RowOps
    <3>5. CASE op \notin RowOps \cup {"connect", "report"}
      BY <3>1, <3>5
    <3> QED
      BY <3>2, <3>3, <3>4, <3>5
  <2> HIDE DEF asked
  <2>4. Restful(s, q1) /\ Restful(s, q2) /\ Restful(s, q3) /\ Restful(s, scr)
    BY <1>2, <2>1 DEF Restful, ScreenSet
  <2> HIDE DEF q1, q2, q3, scr
  <2> QED
    BY <1>1, <2>3, <2>4, EndsRows
<1>5. CASE BlockAnswered(s)
  <2> DEFINE over == scr.modal = p
             q == [scr EXCEPT !.hidden = @ \cup {p}, !.modal = IF over THEN None ELSE @]
  <2>1. PICK u \in Tabs : u = t
    BY <1>2
  <2>2. screen' = screen \/ screen' = [screen EXCEPT ![u] = q]
    <3>1. [screen EXCEPT ![t].hidden = @ \cup {p}, ![t].modal = IF over THEN None ELSE @] = [screen EXCEPT ![t] = q]
      BY <1>2 DEF Rows
    <3> QED
      BY <1>5, <2>1, <3>1 DEF BlockAnswered
  <2>3. q \in ScreenSet /\ q.page = scr.page /\ q.shown = scr.shown
    BY <1>2 DEF ScreenSet, Names
  <2> HIDE DEF q
  <2>4. screen' \in [Tabs -> ScreenSet] /\ (\A v \in Tabs : RowPage(v)') /\ Pagewise
    <3>1. CASE screen' = screen
      BY <3>1 DEF Rows, RowPage, Pagewise
    <3>2. CASE screen' = [screen EXCEPT ![u] = q]
      BY <2>1, <2>3, <3>2, TurnsRows DEF RowPage
    <3> QED
      BY <2>2, <3>1, <3>2
  <2>5. db' = db /\ \A g \in Slots : calls'[g] = NoCall \/ Carried(g)
    <3>1. \A g \in Slots : /\ Orphaned(t)[g] \in {calls[g], [calls[g] EXCEPT !.live = FALSE]}
                           /\ Orphaned(t) = [h \in Slots |-> Orphaned(t)[h]]
      BY DEF Orphaned
    <3>2. \A g \in Slots : calls'[g] \in {NoCall, calls[g], [calls[g] EXCEPT !.live = FALSE]}
      BY <1>5, <3>1 DEF BlockAnswered, Shapes
    <3>3. ASSUME NEW g \in Slots, calls'[g] = [calls[g] EXCEPT !.live = FALSE] PROVE Carried(g)
      <4>1. calls[g] \in CallSet
        BY DEF Shapes
      <4> QED
        BY <3>3, <4>1 DEF Carried, CallSet
    <3>4. ASSUME NEW g \in Slots, calls'[g] = calls[g] PROVE Carried(g)
      BY <3>4 DEF Carried
    <3>5. db' = db
      BY <1>5 DEF BlockAnswered
    <3> QED
      BY <3>2, <3>3, <3>4, <3>5
  <2> QED
    BY <2>4, <2>5, NoCallRow, CarriedRow DEF Rows
<1> QED
  BY <1>3, <1>4, <1>5

\* The server.
LEMMA ServerRows ==
  ASSUME Shapes, Rows, TypeOK, NEW s \in Slots, Serve(s) \/ (\E l \in Lists : GetServed(s, l))
  PROVE  Rows'
<1>1. screen' = screen
  BY DEF Serve, GetServed
<1>2. screen' \in [Tabs -> ScreenSet] /\ (\A u \in Tabs : RowPage(u)') /\ Pagewise
  BY <1>1 DEF Rows, RowPage, Pagewise
<1>3. CASE Serve(s)
  <2> DEFINE op == Ops[calls[s].op]
             can == /\ \A l \in op.needs : calls[s].peer \in db[l]
                    /\ \A l \in op.bars : calls[s].peer \notin db[l]
             moved(l) == IF l \in op.adds THEN db[l] \cup {calls[s].peer}
                         ELSE IF l \in op.drops THEN db[l] \ {calls[s].peer} ELSE db[l]
  <2>1. /\ calls[s].pc = "admitted"
        /\ calls' = [calls EXCEPT ![s].pc = IF can THEN "ok" ELSE "no"]
        /\ db' = IF can THEN [l \in Lists |-> moved(l)] ELSE db
    BY <1>3 DEF Serve, At
  <2>2. calls[s].op \in DOMAIN Ops /\ "incoming" \in Lists
    BY <2>1, ClientAssumption DEF Rows, RowCall, Pc, Lists
  <2>3. "incoming" \notin op.adds /\ (calls[s].op \in Answers => "incoming" \in op.drops)
    BY <2>2, OpsAre
  <2> HIDE DEF can, op
  <2>4. /\ db'["incoming"] \subseteq db["incoming"]
        /\ can /\ calls[s].op \in Answers => calls[s].peer \notin db'["incoming"]
    BY <2>1, <2>2, <2>3
  <2>5. /\ calls'[s].pc = IF can THEN "ok" ELSE "no"
        /\ calls'[s].op = calls[s].op /\ calls'[s].tab = calls[s].tab /\ calls'[s].peer = calls[s].peer
        /\ calls'[s].live = calls[s].live /\ calls'[s].got = calls[s].got
    BY <2>1 DEF Shapes, CallSet
  <2>6. RowCall(s)'
    <3>1. calls[s].got = <<>> /\ "incoming" \notin DOMAIN <<>>
      BY <2>1 DEF Rows, RowCall, At
    <3> QED
      BY <1>1, <2>1, <2>2, <2>4, <2>5, <3>1 DEF Rows, RowCall, At
  <2>7. \A g \in Slots : g # s => RowCall(g)'
    <3>1. \A g \in Slots : g # s => Carried(g)
      BY <2>1 DEF Carried
    <3> QED
      BY <1>2, <2>4, <3>1, CarriedRow DEF Rows
  <2> QED
    BY <1>2, <2>6, <2>7 DEF Rows
<1>4. ASSUME NEW l \in Lists, GetServed(s, l) PROVE Rows'
  <2> DEFINE got == [k \in DOMAIN calls[s].got \cup {l} |-> IF k = l THEN db[l] ELSE calls[s].got[k]]
  <2>1. calls[s].pc = "loading" /\ calls' = [calls EXCEPT ![s].got = got] /\ db' = db
    BY <1>4 DEF GetServed, At
  <2>2. calls[s].op \in Answers => ("incoming" \in DOMAIN got => calls[s].peer \notin got["incoming"])
    BY <2>1 DEF Rows, RowCall
  <2> HIDE DEF got
  <2>3. /\ calls'[s].got = got /\ calls'[s].op = calls[s].op /\ calls'[s].tab = calls[s].tab
        /\ calls'[s].peer = calls[s].peer /\ calls'[s].pc = "loading"
    BY <2>1 DEF Shapes, CallSet
  <2>4. RowCall(s)'
    BY <1>1, <2>1, <2>2, <2>3 DEF Rows, RowCall, At
  <2>5. \A g \in Slots : g # s => RowCall(g)'
    BY <1>2, <2>1, CarriedRow DEF Rows, Carried
  <2> QED
    BY <1>2, <2>4, <2>5 DEF Rows
<1> QED
  BY <1>3, <1>4

\* The reload after an answer, and the loading of a page.
LEMMA LoadRows ==
  ASSUME Shapes, Rows, TypeOK, NEW s \in Slots, Loaded(s) \/ LoadFailed(s)
  PROVE  /\ Rows'
         /\ calls[s].op \in Answers /\ Loaded(s) =>
              calls[s].peer \notin screen'[calls[s].tab].shown["incoming"]
<1> DEFINE scr == screen[calls[s].tab]
           got == calls[s].got
           busy == IF calls[s].op = "load" THEN scr.busy ELSE None
           shown == IF Loaded(s) THEN [l \in Lists |-> IF l \in DOMAIN got THEN got[l] ELSE scr.shown[l]]
                    ELSE scr.shown
           p == [scr EXCEPT !.shown = shown, !.loading = FALSE, !.busy = busy]
<1>1. calls[s].pc = "loading" /\ calls[s].pc # None
  BY ClientAssumption DEF Loaded, LoadFailed, At, Pc
<1>2. PICK t \in Tabs : t = calls[s].tab
  BY <1>1, TabOf
<1>3. scr \in ScreenSet /\ RowPage(t) /\ got \in Gots
  BY <1>2 DEF Rows, Shapes, CallSet
<1>4. screen' = [screen EXCEPT ![t] = p] /\ calls' = [calls EXCEPT ![s] = NoCall] /\ db' = db
  <2>1. CASE Loaded(s)
    BY <1>2, <2>1 DEF Loaded, LoadEnds, Rows
  <2>2. CASE ~Loaded(s)
    BY <1>2, <2>2 DEF LoadFailed, LoadEnds, Rows
  <2> QED
    BY <2>1, <2>2
<1>5. \A l \in DOMAIN got : got[l] \in SUBSET Names
  BY <1>3 DEF Gots, Names
<1>6. shown \in [Lists -> SUBSET Names]
  BY <1>3, <1>5 DEF ScreenSet
<1>7. shown["incoming"] # {} => scr.page = "connections"
  <2>1. CASE Loaded(s) /\ "incoming" \in DOMAIN got
    <3>1. "incoming" \in PageLists[scr.page]
      BY <2>1 DEF Loaded
    <3> QED
      BY <1>3, <3>1 DEF ScreenSet, PageLists
  <2>2. CASE ~(Loaded(s) /\ "incoming" \in DOMAIN got)
    <3>1. shown["incoming"] = scr.shown["incoming"]
      BY <2>2 DEF Lists
    <3> QED
      BY <1>2, <1>3, <3>1 DEF RowPage
  <2> QED
    BY <2>1, <2>2
<1>8. ASSUME calls[s].op \in Answers, Loaded(s) PROVE calls[s].peer \notin shown["incoming"]
  <2>1. scr.page = "connections"
    BY <1>1, <1>8 DEF Rows, RowCall, At
  <2>2. "incoming" \in DOMAIN got
    BY <1>8, <2>1 DEF Loaded, PageLists, Between, Lists
  <2> QED
    BY <1>8, <2>2 DEF Rows, RowCall, Lists
<1> HIDE DEF shown
<1>9. p \in ScreenSet /\ p.page = scr.page /\ p.shown = shown
  BY <1>3, <1>6 DEF ScreenSet
<1> HIDE DEF p
<1>10. screen' \in [Tabs -> ScreenSet] /\ (\A u \in Tabs : RowPage(u)') /\ Pagewise
  BY <1>2, <1>4, <1>7, <1>9, TurnsRows
<1> QED
  BY <1>1, <1>2, <1>4, <1>8, <1>9, <1>10, EndRows DEF Rows

\* The lists are loaded anew.
LEMMA ActRows ==
  ASSUME Shapes, Rows, TypeOK, NEW s \in Slots, ActAnswered(s)
  PROVE  Rows'
<1> DEFINE p == [screen[calls[s].tab] EXCEPT !.loading = TRUE]
<1>1. /\ calls[s].pc = "ok" /\ calls[s].pc # None /\ calls[s].live /\ db' = db
      /\ calls' = [calls EXCEPT ![s] = [calls[s] EXCEPT !.pc = "loading", !.header = 0, !.since = 0]]
  BY ClientAssumption DEF ActAnswered, At, Pc
<1>2. PICK t \in Tabs : t = calls[s].tab
  BY <1>1, TabOf
<1>3. screen' = [screen EXCEPT ![t] = p]
  BY <1>2 DEF ActAnswered, Rows
<1>4. p \in ScreenSet /\ p.page = screen[t].page /\ p.shown = screen[t].shown
  <2>1. screen[t] \in ScreenSet /\ p = [screen[t] EXCEPT !.loading = TRUE]
    BY <1>2 DEF Rows
  <2> HIDE DEF p
  <2> QED
    BY <2>1 DEF ScreenSet
<1> HIDE DEF p
<1>5. screen' \in [Tabs -> ScreenSet] /\ (\A u \in Tabs : RowPage(u)') /\ Pagewise
  BY <1>3, <1>4, TurnsRows DEF RowPage
<1>6. /\ calls'[s].op = calls[s].op /\ calls'[s].tab = calls[s].tab /\ calls'[s].peer = calls[s].peer
      /\ calls'[s].got = calls[s].got /\ calls'[s].pc = "loading"
  BY <1>1 DEF Shapes, CallSet
<1>7. RowCall(s)'
  BY <1>1, <1>5, <1>6 DEF Rows, RowCall, At, Pagewise
<1>8. \A g \in Slots : g # s => RowCall(g)'
  BY <1>1, <1>5, CarriedRow DEF Rows, Carried
<1> QED
  BY <1>5, <1>7, <1>8 DEF Rows

\* Every step.
LEMMA RowsStep ==
  ASSUME Shapes, TypeOK, Waits, Rows, [Next]_vars
  PROVE  Rows'
<1>1. ASSUME NEW s \in Slots, Client(s), UNCHANGED <<db, screen>> PROVE Rows'
  <2>1. \A g \in Slots : Carried(g)
    BY <1>1, ClientCarries DEF Borne
  <2>2. screen' \in [Tabs -> ScreenSet] /\ (\A u \in Tabs : RowPage(u)') /\ Pagewise
    BY <1>1 DEF Rows, RowPage, Pagewise
  <2> QED
    BY <1>1, <2>1, <2>2, CarriedRow DEF Rows
<1>2. CASE UNCHANGED vars
  <2>1. \A g \in Slots : Carried(g)
    BY <1>2 DEF vars, client, Carried
  <2>2. screen' \in [Tabs -> ScreenSet] /\ (\A u \in Tabs : RowPage(u)') /\ Pagewise
    BY <1>2 DEF vars, Rows, RowPage, Pagewise
  <2> QED
    BY <1>2, <2>1, <2>2, CarriedRow DEF Rows, vars
<1>3. ASSUME NEW s \in Slots, Page(s) PROVE Rows'
  BY <1>3, AnswerRows, LoadRows, ActRows DEF Page
<1> QED
  BY <1>1, <1>2, <1>3, GestureRows, ServerRows, LoadRows DEF Next, Step, Fault, Client

-----------------------------------------------------------------------------
(* What the tabs wait for *)

\* One tab's spinner and buttons, and the requests behind them one by one.
Hears(s, t, op, p) == calls[s].tab = t /\ calls[s].live /\ calls[s].op = op /\ calls[s].peer = p
Loading(s, t) == At(s, "loading") /\ calls[s].tab = t
HasSpinner(t) == screen[t].loading => \E s \in Slots : Loading(s, t)
HasRow(t) ==
  screen[t].busy # None =>
    \E op \in RowOps, p \in Peers : screen[t].busy = <<ListOf(op), p>> /\ \E s \in Slots : Hears(s, t, op, p)
HasReport(t) ==
  screen[t].submitting /\ screen[t].modal # None => \E s \in Slots : Hears(s, t, "report", screen[t].modal)
HasAsked(t) == \A p \in Peers : screen[t].asked[p] = "sending" => \E s \in Slots : Hears(s, t, "connect", p)
Heard(t) == HasSpinner(t) /\ HasRow(t) /\ HasReport(t) /\ HasAsked(t)

\* WaitingIsAwaited speaks of every tab.
LEMMA TabsAreHeard ==
  (WaitingIsAwaited <=> \A t \in Tabs : Heard(t)) /\ (WaitingIsAwaited' <=> \A t \in Tabs : Heard(t)')
<1>1. WaitingIsAwaited <=> \A t \in Tabs : Heard(t)
  BY DEF WaitingIsAwaited, Heard, HasSpinner, HasRow, HasReport, HasAsked, Hears, Loading, Live
<1>2. WaitingIsAwaited' <=> \A t \in Tabs : Heard(t)'
  BY DEF WaitingIsAwaited, Heard, HasSpinner, HasRow, HasReport, HasAsked, Hears, Loading, Live
<1> QED
  BY <1>1, <1>2

\* The step leaves what the page knows of the call.
Kept(g) ==
  /\ calls'[g].tab = calls[g].tab /\ calls'[g].op = calls[g].op /\ calls'[g].peer = calls[g].peer
  /\ calls'[g].live = calls[g].live /\ (At(g, "loading") => calls'[g].pc = "loading")
\* What the tab waits for is still there, unless it was the call s.
LEMMA KeptHears ==
  ASSUME NEW s, \A g \in Slots : g # s => Kept(g), NEW t
  PROVE  /\ (\E g \in Slots : g # s /\ Loading(g, t)) => \E g \in Slots : Loading(g, t)'
         /\ \A op, p : (\E g \in Slots : g # s /\ Hears(g, t, op, p)) => \E g \in Slots : Hears(g, t, op, p)'
  BY DEF Kept, Loading, Hears, At
\* A tab whose page and requests stay as they are.
LEMMA TabKept ==
  ASSUME NEW t \in Tabs, Heard(t), screen'[t] = screen[t],
         \A g \in Slots : calls[g].tab = t /\ (calls[g].live \/ At(g, "loading")) => Kept(g)
  PROVE  Heard(t)'
<1>1. \A g \in Slots : Loading(g, t) => Loading(g, t)'
  BY DEF Loading, Kept, At
<1>2. \A g \in Slots : \A op, p : Hears(g, t, op, p) => Hears(g, t, op, p)'
  BY DEF Hears, Kept
<1> QED
  BY <1>1, <1>2 DEF Heard, HasSpinner, HasRow, HasReport, HasAsked

\* A call that ends or is heard no more takes with it what the page has of it.
LEMMA EndHeard ==
  ASSUME NEW t \in Tabs, Heard(t), NEW s \in Slots, NEW q, screen'[t] = q,
         \A g \in Slots : g # s =>
           Kept(g) \/ (q.modal = None /\ calls[g].op = "report" /\ calls'[g].tab = calls[g].tab /\ calls'[g].pc = calls[g].pc),
         q.loading => screen[t].loading /\ ~Loading(s, t),
         q.busy = None \/ (q.busy = screen[t].busy /\ calls[s].op \notin RowOps),
         q.modal \in {None, screen[t].modal},
         q.submitting => screen[t].submitting /\ calls[s].op # "report",
         \A p \in Peers : q.asked[p] = "sending" =>
           screen[t].asked[p] = "sending" /\ ~(calls[s].op = "connect" /\ calls[s].peer = p)
  PROVE  Heard(t)'
<1>1. \A g \in Slots : g # s /\ Loading(g, t) => Loading(g, t)'
  BY DEF Loading, Kept, At
<1>2. \A g \in Slots : \A op, p : g # s /\ (op # "report" \/ q.modal # None) /\ Hears(g, t, op, p) => Hears(g, t, op, p)'
  BY DEF Hears, Kept
<1>3. HasSpinner(t)'
  BY <1>1 DEF Heard, HasSpinner
<1>4. HasRow(t)'
  <2> SUFFICES ASSUME q.busy # None PROVE \E op \in RowOps, p \in Peers : q.busy = <<ListOf(op), p>> /\ \E g \in Slots : Hears(g, t, op, p)'
    BY DEF HasRow
  <2>1. PICK op \in RowOps, p \in Peers, g \in Slots : q.busy = <<ListOf(op), p>> /\ Hears(g, t, op, p)
    BY DEF Heard, HasRow
  <2>2. g # s /\ op # "report"
    BY <2>1 DEF Hears, RowOps
  <2> QED
    BY <1>2, <2>1, <2>2
<1>5. HasReport(t)'
  BY <1>2 DEF Heard, HasReport, Hears
<1>6. HasAsked(t)'
  BY <1>2 DEF Heard, HasAsked, Hears
<1> QED
  BY <1>3, <1>4, <1>5, <1>6 DEF Heard

\* Other tabs are not concerned.
LEMMA OthersHeard ==
  ASSUME WaitingIsAwaited, NEW t \in Tabs, Heard(t)',
         \A u \in Tabs : u # t => screen'[u] = screen[u],
         \A g \in Slots : calls[g].tab \in Tabs \ {t} /\ (calls[g].live \/ At(g, "loading")) => Kept(g)
  PROVE  WaitingIsAwaited'
<1>1. ASSUME NEW u \in Tabs, u # t PROVE Heard(u)'
  BY <1>1, TabsAreHeard, TabKept
<1> QED
  BY <1>1, TabsAreHeard

\* A new page waits for its lists only.
LEMMA MountHeard ==
  ASSUME Shapes, Rows, WaitingIsAwaited, NEW t \in Tabs, NEW k \in DOMAIN PageLists,
         NEW left, Mount(t, k, left), left \in [Slots -> CallSet],
         \A s \in Slots : calls[s].tab # t => left[s] = calls[s]
  PROVE  WaitingIsAwaited'
<1> DEFINE new == NewPage(k)
           l == [NoCall EXCEPT !.op = "load", !.tab = t, !.live = TRUE, !.pc = "loading", !.attempt = 1]
<1>1. /\ new.loading <=> k # "discover"
      /\ new.busy = None /\ new.modal = None /\ \A p \in Peers : new.asked[p] = "idle"
  BY DEF NewPage
<1>2. screen'[t] = new /\ \A u \in Tabs : u # t => screen'[u] = screen[u]
  BY DEF Mount, Rows
<1> HIDE DEF new
<1>3. CASE k = "discover"
  <2>1. calls' = left
    BY <1>3 DEF Mount
  <2>2. Heard(t)'
    BY <1>1, <1>2, <1>3 DEF Heard, HasSpinner, HasRow, HasReport, HasAsked
  <2>3. \A g \in Slots : calls[g].tab # t => Kept(g)
    BY <2>1 DEF Kept, At
  <2> QED
    BY <1>2, <2>2, <2>3, OthersHeard
<1>4. CASE k # "discover"
  <2>1. PICK n \in Slots : calls[n] = NoCall /\ calls' = [left EXCEPT ![n] = l]
    BY <1>4, NextSlotFree DEF Mount
  <2>2. l.tab = t /\ l.pc = "loading"
    BY DEF NoCall
  <2> HIDE DEF l
  <2>3. Loading(n, t)'
    BY <2>1, <2>2 DEF Loading, At
  <2>4. Heard(t)'
    BY <1>1, <1>2, <2>3 DEF Heard, HasSpinner, HasRow, HasReport, HasAsked
  <2>5. \A g \in Slots : calls[g].tab \in Tabs \ {t} => Kept(g)
    BY <2>1, NoCallShape DEF Kept, At
  <2> QED
    BY <1>2, <2>4, <2>5, OthersHeard
<1> QED
  BY <1>3, <1>4

\* What the page takes for a request op to p: its row, its card or its modal.
TakesFor(t, op, p, q) ==
  /\ q.loading => screen[t].loading
  /\ q.busy = screen[t].busy \/ (op \in RowOps /\ q.busy = <<ListOf(op), p>>)
  /\ q.submitting /\ q.modal # None =>
       (screen[t].submitting /\ q.modal = screen[t].modal) \/ (op = "report" /\ q.modal = p)
  /\ \A r \in Peers : q.asked[r] = "sending" => screen[t].asked[r] = "sending" \/ (op = "connect" /\ r = p)
\* A button waits for the request it sends.
LEMMA SendHeard ==
  ASSUME Shapes, TypeOK, Rows, WaitingIsAwaited, NEW t \in Tabs, NEW op \in OpNames, NEW p \in Peers, Send(t, op, p),
         NEW q, screen' = [screen EXCEPT ![t] = q], TakesFor(t, op, p, q)
  PROVE  WaitingIsAwaited'
<1> DEFINE new == NewRequest(t, op, p)
           c == Ensured(new, NextSlot, cache[t])
<1>1. PICK n \in Slots : n = NextSlot /\ calls[n] = NoCall /\ calls' = [calls EXCEPT ![n] = c]
  BY SendShape
<1>2. new \in CallSet /\ new.op = op /\ new.tab = t /\ cache[t] \in Holds /\ new.peer = p /\ new.live
  <2>1. new \in CallSet /\ new.op = op /\ new.tab = t /\ cache[t] \in Holds
    BY NewRequestIs DEF TypeOK, Shapes
  <2>2. new.peer = p /\ new.live
    BY DEF NewRequest, NoCall
  <2> QED
    BY <2>1, <2>2
<1> HIDE DEF new
<1>3. c.op = op /\ c.tab = t /\ c.peer = p /\ c.live
  BY <1>1, <1>2, EnsuredCarries
<1> HIDE DEF c
<1>4. Hears(n, t, op, p)' /\ \A g \in Slots : g # n => Kept(g)
  BY <1>1, <1>3 DEF Hears, Kept, Shapes, At
<1>5. calls[n].tab \notin Tabs
  BY <1>1, NoCallShape
<1>6. /\ (\E g \in Slots : Loading(g, t)) => \E g \in Slots : Loading(g, t)'
      /\ \A o, r : (\E g \in Slots : Hears(g, t, o, r)) => \E g \in Slots : Hears(g, t, o, r)'
  BY <1>4, <1>5, KeptHears DEF Loading, Hears
<1>7. screen'[t] = q /\ \A u \in Tabs : u # t => screen'[u] = screen[u]
  BY DEF Rows
<1>8. Heard(t)
  BY TabsAreHeard
<1>9. HasSpinner(t)'
  BY <1>6, <1>7, <1>8 DEF Heard, HasSpinner, TakesFor
<1>10. HasRow(t)'
  BY <1>4, <1>6, <1>7, <1>8 DEF Heard, HasRow, TakesFor
<1>11. HasReport(t)'
  BY <1>4, <1>6, <1>7, <1>8 DEF Heard, HasReport, TakesFor
<1>12. HasAsked(t)'
  BY <1>4, <1>6, <1>7, <1>8 DEF Heard, HasAsked, TakesFor
<1>13. Heard(t)'
  BY <1>9, <1>10, <1>11, <1>12 DEF Heard
<1>14. \A g \in Slots : calls[g].tab \in Tabs => Kept(g)
  BY <1>4, <1>5
<1> QED
  BY <1>7, <1>13, <1>14, OthersHeard

\* What becomes of the reports of a modal that is gone.
LEMMA OrphanedIs ==
  ASSUME Shapes, NEW t
  PROVE  /\ Orphaned(t) \in [Slots -> CallSet]
         /\ \A g \in Slots :
              /\ Orphaned(t)[g].tab = calls[g].tab /\ Orphaned(t)[g].pc = calls[g].pc
              /\ Orphaned(t)[g].op = calls[g].op /\ Orphaned(t)[g].peer = calls[g].peer
              /\ Orphaned(t)[g].live = calls[g].live \/ (calls[g].tab = t /\ calls[g].op = "report")
  BY SetLive DEF Orphaned, Shapes, CallSet

\* What the user does.
LEMMA GestureHeard ==
  ASSUME Shapes, TypeOK, Rows, WaitingIsAwaited, NEW t \in Tabs, Gesture(t)
  PROVE  WaitingIsAwaited'
<1> DEFINE old == screen[t]
<1>1. old \in ScreenSet /\ Heard(t)
  BY TabsAreHeard DEF Rows
<1>2. ASSUME NEW k \in DOMAIN PageLists, Open(t, k) PROVE WaitingIsAwaited'
  <2> DEFINE left == [s \in Slots |->
               IF calls[s].tab # t THEN calls[s]
               ELSE IF At(s, "loading") THEN NoCall ELSE [calls[s] EXCEPT !.live = FALSE]]
  <2>1. Mount(t, k, left)
    BY <1>2 DEF Open
  <2>2. left \in [Slots -> CallSet] /\ \A s \in Slots : calls[s].tab # t => left[s] = calls[s]
    BY NoCallShape, SetLive DEF Shapes
  <2> HIDE DEF left
  <2> QED
    BY <2>1, <2>2, MountHeard
<1>3. CASE Reload(t)
  <2> DEFINE left == [s \in Slots |-> IF calls[s].tab = t THEN NoCall ELSE calls[s]]
  <2>1. PICK k \in DOMAIN PageLists : k = old.page
    BY <1>1 DEF ScreenSet, PageLists
  <2>2. Mount(t, k, left)
    BY <1>3, <2>1 DEF Reload
  <2>3. left \in [Slots -> CallSet] /\ \A s \in Slots : calls[s].tab # t => left[s] = calls[s]
    BY NoCallShape DEF Shapes
  <2> HIDE DEF left
  <2> QED
    BY <2>2, <2>3, MountHeard
<1>4. ASSUME NEW p \in Peers, NEW op \in RowOps, Act(t, op, p) PROVE WaitingIsAwaited'
  <2> DEFINE q == [old EXCEPT !.busy = <<ListOf(op), p>>]
  <2>1. /\ q.loading = old.loading /\ q.busy = <<ListOf(op), p>> /\ q.submitting = old.submitting
        /\ q.modal = old.modal /\ q.asked = old.asked
    BY <1>1 DEF ScreenSet
  <2>2. Send(t, op, p) /\ screen' = [screen EXCEPT ![t] = q]
    BY <1>4 DEF Act, Click
  <2>3. op \in OpNames /\ TakesFor(t, op, p, q)
    BY <2>1 DEF RowOps, OpNames, TakesFor
  <2> HIDE DEF q
  <2> QED
    BY <2>2, <2>3, SendHeard
<1>5. ASSUME NEW p \in Peers, Connect(t, p) PROVE WaitingIsAwaited'
  <2> DEFINE q == [old EXCEPT !.asked = [old.asked EXCEPT ![p] = "sending"]]
  <2>1. /\ q.loading = old.loading /\ q.busy = old.busy /\ q.submitting = old.submitting /\ q.modal = old.modal
        /\ \A r \in Peers : r # p => q.asked[r] = old.asked[r]
    BY <1>1 DEF ScreenSet
  <2>2. Send(t, "connect", p) /\ screen' = [screen EXCEPT ![t] = q]
    <3>1. q = [old EXCEPT !.asked[p] = "sending"]
      BY <1>1 DEF ScreenSet
    <3> QED
      BY <1>5, <3>1 DEF Connect, Click
  <2>3. "connect" \in OpNames /\ TakesFor(t, "connect", p, q)
    BY <2>1 DEF OpNames, TakesFor
  <2> HIDE DEF q
  <2> QED
    BY <2>2, <2>3, SendHeard
<1>6. ASSUME NEW p \in Peers, Block(t, p) PROVE WaitingIsAwaited'
  <2>1. Send(t, "block", p) /\ screen' = [screen EXCEPT ![t] = old]
    BY <1>6 DEF Block, Click
  <2>2. "block" \in OpNames /\ TakesFor(t, "block", p, old)
    BY DEF OpNames, TakesFor
  <2> QED
    BY <2>1, <2>2, SendHeard
<1>7. ASSUME NEW p \in Peers, Submit(t, p) PROVE WaitingIsAwaited'
  <2> DEFINE q == [old EXCEPT !.modal = p, !.submitting = TRUE, !.done = FALSE]
  <2>1. q.loading = old.loading /\ q.busy = old.busy /\ q.asked = old.asked /\ q.modal = p
    BY <1>1 DEF ScreenSet
  <2>2. Send(t, "report", p) /\ screen' = [screen EXCEPT ![t] = q]
    <3>1. screen' = [screen EXCEPT ![t].modal = p, ![t].submitting = TRUE, ![t].done = FALSE]
      BY <1>7 DEF Submit
    <3>2. screen' = [screen EXCEPT ![t] = q]
      BY <1>1, <3>1 DEF Rows, ScreenSet
    <3> QED
      BY <1>7, <3>2 DEF Submit
  <2>3. "report" \in OpNames /\ TakesFor(t, "report", p, q)
    BY <2>1 DEF OpNames, TakesFor
  <2> HIDE DEF q
  <2> QED
    BY <2>2, <2>3, SendHeard
<1>8. CASE CloseReport(t)
  <2> DEFINE q == [old EXCEPT !.modal = None]
  <2>1. q.loading = old.loading /\ q.busy = old.busy /\ q.asked = old.asked /\ q.modal = None
    BY <1>1 DEF ScreenSet
  <2>2. screen' = [screen EXCEPT ![t] = q] /\ calls' = Orphaned(t)
    BY <1>8 DEF CloseReport
  <2> HIDE DEF q
  <2>3. screen'[t] = q /\ \A u \in Tabs : u # t => screen'[u] = screen[u]
    BY <2>2 DEF Rows
  <2>4. \A g \in Slots : /\ Kept(g) \/ (calls[g].tab = t /\ calls[g].op = "report")
                         /\ calls'[g].tab = calls[g].tab /\ calls'[g].pc = calls[g].pc
    BY <2>2, OrphanedIs DEF Kept, At
  <2>5. Heard(t)'
    <3>1. \A g \in Slots : Loading(g, t) => Loading(g, t)'
      BY <2>4 DEF Loading, At
    <3>2. \A g \in Slots : \A op, p : op # "report" /\ Hears(g, t, op, p) => Hears(g, t, op, p)'
      BY <2>4 DEF Hears, Kept
    <3>3. HasSpinner(t)'
      BY <1>1, <2>1, <2>3, <3>1 DEF Heard, HasSpinner
    <3>4. HasRow(t)'
      BY <1>1, <2>1, <2>3, <3>2 DEF Heard, HasRow, RowOps
    <3>5. HasReport(t)'
      BY <2>1, <2>3 DEF HasReport
    <3>6. HasAsked(t)'
      BY <1>1, <2>1, <2>3, <3>2 DEF Heard, HasAsked
    <3> QED
      BY <3>3, <3>4, <3>5, <3>6 DEF Heard
  <2> QED
    BY <2>3, <2>4, <2>5, OthersHeard
<1> QED
  BY <1>2, <1>3, <1>4, <1>5, <1>6, <1>7, <1>8 DEF Gesture

\* An answered or refused call gives back what its page had of it.
GivesBack(s, q) ==
  LET scr == screen[calls[s].tab] IN
  /\ q.loading = scr.loading /\ q.modal = scr.modal
  /\ q.busy = None \/ (q.busy = scr.busy /\ calls[s].op \notin RowOps)
  /\ q.submitting => scr.submitting /\ calls[s].op # "report"
  /\ \A p \in Peers : q.asked[p] = "sending" =>
       scr.asked[p] = "sending" /\ ~(calls[s].op = "connect" /\ calls[s].peer = p)
\* It ends, heard or not.
LEMMA EndsHeard ==
  ASSUME Shapes, TypeOK, Rows, WaitingIsAwaited, NEW s \in Slots, calls[s].pc \notin {None, "loading"},
         NEW q, Ends(s, q), calls[s].live => GivesBack(s, q)
  PROVE  WaitingIsAwaited'
<1>1. PICK t \in Tabs : t = calls[s].tab
  BY TabOf
<1>2. \A g \in Slots : g # s => Kept(g)
  BY DEF Ends, Kept, At
<1>3. Heard(t)
  BY TabsAreHeard
<1>4. CASE calls[s].live
  <2>1. screen' = [screen EXCEPT ![t] = q] /\ GivesBack(s, q)
    BY <1>1, <1>4 DEF Ends
  <2>2. screen'[t] = q /\ \A u \in Tabs : u # t => screen'[u] = screen[u]
    BY <2>1 DEF Rows
  <2>3. Heard(t)'
    BY <1>1, <1>2, <1>3, <2>1, <2>2, EndHeard DEF GivesBack, Loading, At
  <2> QED
    BY <1>1, <1>2, <2>2, <2>3, OthersHeard
<1>5. CASE ~calls[s].live
  <2>1. screen' = screen
    BY <1>5 DEF Ends
  <2>2. Heard(t)'
    BY <1>2, <1>3, <1>5, <2>1, TabKept DEF At
  <2> QED
    BY <1>1, <1>2, <2>1, <2>2, OthersHeard
<1> QED
  BY <1>4, <1>5

\* Answers and refusals.
LEMMA AnswerHeard ==
  ASSUME Shapes, Rows, TypeOK, WaitingIsAwaited, NEW s \in Slots, Answered(s) \/ Refused(s)
  PROVE  WaitingIsAwaited'
<1> DEFINE t == calls[s].tab
           scr == screen[t]
           p == calls[s].peer
           op == calls[s].op
<1>1. calls[s].pc \in {"ok", "no", "failed", "denied"} /\ calls[s].pc \notin {None, "loading"}
  BY ClientAssumption DEF Answered, Refused, Settled, At, Pc
<1>2. t \in Tabs /\ scr \in ScreenSet
  BY <1>1, TabOf DEF Rows
<1> DEFINE asked(a) == [scr EXCEPT !.asked = [scr.asked EXCEPT ![p] = a]]
           freed == [scr EXCEPT !.submitting = FALSE]
           done == [scr EXCEPT !.done = TRUE, !.submitting = FALSE]
           shown == [scr EXCEPT !.shown = [scr.shown EXCEPT !["blocks"] = scr.shown["blocks"] \ {p}], !.busy = None]
           free == [scr EXCEPT !.busy = None]
<1>3. ASSUME op = "connect", NEW a \in {"sent", "error"} PROVE GivesBack(s, asked(a))
  <2>1. /\ asked(a).loading = scr.loading /\ asked(a).modal = scr.modal /\ asked(a).busy = scr.busy
        /\ asked(a).submitting = scr.submitting
        /\ \A r \in Peers : asked(a).asked[r] = IF r = p THEN a ELSE scr.asked[r]
    BY <1>2 DEF ScreenSet
  <2> QED
    BY <1>3, <2>1 DEF GivesBack, RowOps
<1>4. ASSUME op = "report" PROVE GivesBack(s, freed) /\ GivesBack(s, done)
  BY <1>2, <1>4 DEF ScreenSet, GivesBack, RowOps
<1>5. ASSUME op \in RowOps PROVE GivesBack(s, free) /\ GivesBack(s, shown)
  BY <1>2, <1>5 DEF ScreenSet, GivesBack, RowOps
<1>6. ASSUME op \notin RowOps \cup {"connect", "report"} PROVE GivesBack(s, scr)
  BY <1>6 DEF GivesBack
<1>7. asked("sent") = [scr EXCEPT !.asked[p] = "sent"] /\ asked("error") = [scr EXCEPT !.asked[p] = "error"]
  BY <1>2 DEF ScreenSet
<1>8. shown = [scr EXCEPT !.shown["blocks"] = @ \ {p}, !.busy = None]
  BY <1>2 DEF ScreenSet
<1> HIDE DEF asked, freed, done, shown, free
<1>9. CASE Answered(s)
  <2>1. CASE ~calls[s].live /\ Ends(s, scr)
    BY <1>1, <2>1, EndsHeard
  <2>2. CASE op = "unblock" /\ Ends(s, shown)
    BY <1>1, <1>5, <2>2, EndsHeard DEF RowOps
  <2>3. CASE op = "connect" /\ Ends(s, asked("sent"))
    BY <1>1, <1>3, <2>3, EndsHeard
  <2>4. CASE op = "report" /\ Ends(s, done)
    BY <1>1, <1>4, <2>4, EndsHeard
  <2> QED
    BY <1>7, <1>8, <1>9, <2>1, <2>2, <2>3, <2>4 DEF Answered, done
<1>10. CASE Refused(s)
  <2>1. Ends(s, CASE op \in RowOps -> free [] op = "connect" -> asked("error") [] op = "report" -> freed [] OTHER -> scr)
    BY <1>7, <1>10 DEF Refused, free, freed
  <2>2. CASE op \in RowOps
    <3>1. Ends(s, free)
      BY <2>1, <2>2 DEF RowOps
    <3> QED
      BY <1>1, <1>5, <2>2, <3>1, EndsHeard
  <2>3. CASE op = "connect"
    <3>1. Ends(s, asked("error"))
      BY <2>1, <2>3 DEF RowOps
    <3> QED
      BY <1>1, <1>3, <2>3, <3>1, EndsHeard
  <2>4. CASE op = "report"
    <3>1. Ends(s, freed)
      BY <2>1, <2>4 DEF RowOps
    <3> QED
      BY <1>1, <1>4, <2>4, <3>1, EndsHeard
  <2>5. CASE op \notin RowOps \cup {"connect", "report"}
    <3>1. Ends(s, scr)
      BY <2>1, <2>5
    <3> QED
      BY <1>1, <1>6, <2>5, <3>1, EndsHeard
  <2> QED
    BY <2>2, <2>3, <2>4, <2>5
<1> QED
  BY <1>9, <1>10

\* A blocked peer's card goes, and the modal on it.
LEMMA BlockHeard ==
  ASSUME Shapes, Rows, TypeOK, WaitingIsAwaited, NEW s \in Slots, BlockAnswered(s)
  PROVE  WaitingIsAwaited'
<1>1. calls[s].pc = "ok" /\ calls[s].pc # None /\ calls[s].op = "block"
  BY ClientAssumption DEF BlockAnswered, At, Pc
<1>2. PICK t \in Tabs : t = calls[s].tab
  BY <1>1, TabOf
<1> DEFINE scr == screen[t]
           p == calls[s].peer
           over == scr.modal = p
           q == [scr EXCEPT !.hidden = @ \cup {p}, !.modal = IF over THEN None ELSE @]
<1>3. scr \in ScreenSet /\ Heard(t)
  BY <1>2, TabsAreHeard DEF Rows
<1>4. /\ q.loading = scr.loading /\ q.busy = scr.busy /\ q.asked = scr.asked /\ q.submitting = scr.submitting
      /\ q.modal = IF over THEN None ELSE scr.modal
  BY <1>3 DEF ScreenSet
<1>5. CASE calls[s].live
  <2>1. screen'[t] = q /\ \A u \in Tabs : u # t => screen'[u] = screen[u]
    BY <1>2, <1>5 DEF BlockAnswered, Rows
  <2>2. calls' = [(IF over THEN Orphaned(t) ELSE calls) EXCEPT ![s] = NoCall]
    BY <1>2, <1>5 DEF BlockAnswered
  <2> HIDE DEF q
  <2>3. ASSUME NEW g \in Slots, g # s
        PROVE  \/ Kept(g)
               \/ /\ over /\ calls[g].tab = t /\ calls[g].op = "report"
                  /\ calls'[g].tab = calls[g].tab /\ calls'[g].pc = calls[g].pc
    <3>1. CASE over
      <4>1. calls'[g] = Orphaned(t)[g]
        BY <2>2, <2>3, <3>1, OrphanedIs
      <4> HIDE DEF over
      <4> QED
        BY <3>1, <4>1, OrphanedIs DEF Kept, At
    <3>2. CASE ~over
      BY <2>2, <2>3, <3>2 DEF Kept, At
    <3> QED
      BY <3>1, <3>2
  <2>4. Heard(t)'
    <3>1. ~Loading(s, t) /\ calls[s].op \notin RowOps \cup {"report", "connect"}
      BY <1>1 DEF Loading, At, RowOps
    <3>2. \A g \in Slots : g # s =>
            Kept(g) \/ (q.modal = None /\ calls[g].op = "report" /\ calls'[g].tab = calls[g].tab /\ calls'[g].pc = calls[g].pc)
      BY <1>4, <2>3
    <3>3. q.modal \in {None, scr.modal}
      BY <1>4
    <3> HIDE DEF over
    <3> QED
      BY <1>3, <1>4, <2>1, <3>1, <3>2, <3>3, EndHeard
  <2> QED
    BY <1>2, <2>1, <2>3, <2>4, OthersHeard
<1>6. CASE ~calls[s].live
  <2>1. screen' = screen /\ \A g \in Slots : g # s => Kept(g)
    BY <1>6 DEF BlockAnswered, Kept, At
  <2>2. Heard(t)'
    BY <1>1, <1>3, <1>6, <2>1, TabKept DEF At
  <2> QED
    BY <1>2, <2>1, <2>2, OthersHeard
<1> QED
  BY <1>5, <1>6

\* Only a page's own loading and the reload after an answer are loadings.
Loaders == \A s \in Slots : At(s, "loading") => calls[s].op \notin {"report", "connect"}
\* Every step keeps that.
LEMMA LoadersStep ==
  ASSUME Shapes, TypeOK, Waits, Loaders, [Next]_vars
  PROVE  Loaders'
<1> DEFINE L(w) == calls'[w].pc = "loading" => calls'[w].op \notin {"report", "connect"}
<1>1. (\A w \in Slots : L(w)) => Loaders'
  BY DEF Loaders, At
<1>2. ASSUME NEW w \in Slots, Same(w) \/ Quits(w) \/ calls'[w] = NoCall \/ Loads(w) PROVE L(w)
  BY <1>2, NoCallIs, ClientAssumption DEF Same, Quits, Loads, Loaders, At, Pc
<1>3. CASE Passive \/ \E t \in Tabs : Wiped(t)
  BY <1>1, <1>2, <1>3 DEF Passive, Wiped
<1>4. CASE Begins
  <2>1. PICK t \in Tabs, op \in OpNames, p \in Peers : Send(t, op, p)
    BY <1>4 DEF Begins
  <2>2. /\ NextSlot \in Slots
        /\ calls' = [calls EXCEPT ![NextSlot] = Ensured(NewRequest(t, op, p), NextSlot, cache[t])]
    BY <2>1, SendShape
  <2>3. Ensured(NewRequest(t, op, p), NextSlot, cache[t]).pc \in {"ready", "token"}
    BY <2>2, NewRequestIs, EnsuredCarries DEF Shapes, TypeOK
  <2>4. calls'[NextSlot].pc # "loading" /\ \A w \in Slots : w # NextSlot => calls'[w] = calls[w]
    BY <2>2, <2>3 DEF Shapes
  <2> QED
    BY <1>1, <2>4 DEF Loaders, At
<1>5. ASSUME NEW s \in Slots, Client(s) PROVE Loaders'
  <2>1. \A w \in Slots : Borne(w)
    BY <1>5, ClientCarries
  <2> QED
    BY <1>1, <2>1 DEF Borne, Carried, Loaders, At
<1>6. ASSUME NEW s \in Slots, Serve(s) PROVE Loaders'
  <2>1. calls'[s].pc \in {"ok", "no"} /\ \A w \in Slots : w # s => calls'[w] = calls[w]
    BY <1>6 DEF Serve, Shapes, CallSet
  <2> QED
    BY <1>1, <2>1 DEF Loaders, At
<1> QED
  BY <1>3, <1>4, <1>5, <1>6, Moves

\* A loading that ends, and the one after an answer.
LEMMA LoadHeard ==
  ASSUME Shapes, Rows, TypeOK, Loaders, WaitingIsAwaited, NEW s \in Slots, Loaded(s) \/ LoadFailed(s) \/ ActAnswered(s)
  PROVE  WaitingIsAwaited'
<1>1. calls[s].pc \in {"loading", "ok"} /\ calls[s].pc # None
  BY ClientAssumption DEF Loaded, LoadFailed, ActAnswered, At, Pc
<1>2. PICK t \in Tabs : t = calls[s].tab
  BY <1>1, TabOf
<1>3. screen[t] \in ScreenSet /\ Heard(t)
  BY <1>2, TabsAreHeard DEF Rows
<1>4. At(s, "loading") => calls[s].op \notin {"report", "connect"}
  BY DEF Loaders
<1>5. ASSUME At(s, "loading"), NEW shown, NEW lost, LoadEnds(s, shown, lost) PROVE WaitingIsAwaited'
  <2> DEFINE q == screen'[t]
  <2>1. /\ ~q.loading /\ q.busy = IF calls[s].op = "load" THEN screen[t].busy ELSE None
        /\ q.modal = screen[t].modal /\ q.submitting = screen[t].submitting /\ q.asked = screen[t].asked
        /\ \A u \in Tabs : u # t => screen'[u] = screen[u]
    BY <1>2, <1>3, <1>5 DEF LoadEnds, Rows, ScreenSet
  <2>2. \A g \in Slots : g # s => Kept(g)
    BY <1>5 DEF LoadEnds, Kept, At
  <2>3. calls[s].op = "load" => calls[s].op \notin RowOps
    BY DEF RowOps
  <2>4. calls[s].op \notin {"report", "connect"}
    BY <1>4, <1>5
  <2> HIDE DEF q
  <2>5. Heard(t)'
    BY <1>3, <2>1, <2>2, <2>3, <2>4, EndHeard DEF q
  <2> QED
    BY <1>2, <2>1, <2>2, <2>5, OthersHeard
<1>6. CASE ActAnswered(s)
  <2>1. /\ screen'[t] = [screen[t] EXCEPT !.loading = TRUE] /\ \A u \in Tabs : u # t => screen'[u] = screen[u]
        /\ calls' = [calls EXCEPT ![s] = [calls[s] EXCEPT !.pc = "loading", !.header = 0, !.since = 0]]
    BY <1>2, <1>6 DEF ActAnswered, Rows
  <2>2. /\ \A g \in Slots : Kept(g)
        /\ Loading(s, t)'
    BY <1>2, <2>1 DEF Kept, Loading, At, Shapes, CallSet
  <2>3. /\ screen'[t].busy = screen[t].busy /\ screen'[t].modal = screen[t].modal
        /\ screen'[t].submitting = screen[t].submitting /\ screen'[t].asked = screen[t].asked
    BY <1>3, <2>1 DEF ScreenSet
  <2>4. \A g \in Slots : \A op, p : Hears(g, t, op, p) => Hears(g, t, op, p)'
    BY <2>2 DEF Kept, Hears
  <2>5. Heard(t)'
    BY <1>3, <2>2, <2>3, <2>4 DEF Heard, HasSpinner, HasRow, HasReport, HasAsked
  <2> QED
    BY <2>1, <2>2, <2>5, OthersHeard
<1>7. CASE Loaded(s)
  BY <1>5, <1>7 DEF Loaded
<1>8. CASE LoadFailed(s)
  BY <1>5, <1>8 DEF LoadFailed
<1> QED
  BY <1>6, <1>7, <1>8

\* Every step.
LEMMA HeardStep ==
  ASSUME Shapes, TypeOK, Waits, Rows, Loaders, WaitingIsAwaited, [Next]_vars
  PROVE  WaitingIsAwaited'
<1>1. ASSUME UNCHANGED screen, \A g \in Slots : Kept(g) PROVE WaitingIsAwaited'
  BY <1>1, TabsAreHeard, TabKept
<1>2. ASSUME NEW s \in Slots, Client(s), UNCHANGED screen PROVE WaitingIsAwaited'
  <2>1. \A g \in Slots : Borne(g)
    BY <1>2, ClientCarries
  <2>2. \A g \in Slots : Kept(g)
    BY <2>1, ClientAssumption DEF Borne, Carried, Kept, At
  <2> QED
    BY <1>1, <1>2, <2>2
<1>3. ASSUME NEW s \in Slots, Serve(s) \/ \E l \in Lists : GetServed(s, l) PROVE WaitingIsAwaited'
  <2>1. ASSUME Serve(s) PROVE \A g \in Slots : Kept(g)
    <3>1. PICK pc : calls' = [calls EXCEPT ![s].pc = pc] /\ calls[s].pc = "admitted"
      BY <2>1 DEF Serve, At
    <3> QED
      BY <3>1 DEF Kept, At, Shapes, CallSet
  <2>2. ASSUME NEW l \in Lists, GetServed(s, l) PROVE \A g \in Slots : Kept(g)
    <3>1. PICK got : calls' = [calls EXCEPT ![s].got = got]
      BY <2>2 DEF GetServed
    <3> QED
      BY <3>1 DEF Kept, At, Shapes, CallSet
  <2> QED
    BY <1>1, <1>3, <2>1, <2>2 DEF Serve, GetServed
<1>4. CASE UNCHANGED vars
  BY <1>1, <1>4 DEF vars, client, Kept, At
<1>5. ASSUME NEW s \in Slots, Page(s) PROVE WaitingIsAwaited'
  BY <1>5, AnswerHeard, BlockHeard, LoadHeard DEF Page
<1> QED
  BY <1>2, <1>3, <1>4, <1>5, GestureHeard, LoadHeard DEF Next, Step, Fault, Client

-----------------------------------------------------------------------------
(* Theorems *)

Inv == Shapes /\ TypeOK /\ Waits /\ Owners /\ Overtaken /\ Filed /\ Rows /\ Loaders /\ WaitingIsAwaited

\* The loaded pages and the tokens of before are a good beginning.
LEMMA Beginning == Init => Inv
<1> SUFFICES ASSUME Init PROVE Inv
  OBVIOUS
<1>1. jar \in Nat /\ cache \in [Tabs -> 1..jar] /\ calls = [s \in Slots |-> NoCall] /\ losses = 0
  BY ClientAssumption, FS_CardinalityType DEF Init, ClientInit
<1>2. \A s \in Slots : calls[s] = NoCall
  BY <1>1
<1>3. Shapes
  BY <1>1, NoCallShape DEF Init, Shapes, Holds
<1>4. TypeOK
  BY <1>1, ClientAssumption DEF TypeOK
<1>5. Waits /\ Overtaken
  BY <1>2, NoCallIs, ClientAssumption DEF Waits, Overtaken, Retry, At, Pc, Tries
<1>6. Owners
  <2>1. \A t \in Tabs : cache[t] \in Nat
    BY <1>1
  <2> QED
    BY <2>1, ClientAssumption DEF Owners
<1>7. Filed
  <2>1. Pending = {}
    BY <1>2, NoCallIs, ClientAssumption DEF Pending, Pc
  <2>2. Cardinality(Pending) = 0
    BY <2>1, FS_EmptySet
  <2> QED
    BY <1>1, <2>2 DEF Filed, Init
<1>8. Rows
  <2> DEFINE p(t) == Read(NewPage(FirstPage[t]))
  <2>1. screen = [t \in Tabs |-> p(t)] /\ db \in [Lists -> SUBSET Names]
    BY <1>3 DEF Init, Shapes, Names
  <2>2. ASSUME NEW t \in Tabs PROVE p(t) \in ScreenSet /\ (p(t).shown["incoming"] # {} => p(t).page = "connections")
    <3> DEFINE new == NewPage(FirstPage[t])
               shown == [l \in Lists |-> IF l \in PageLists[FirstPage[t]] THEN db[l] ELSE {}]
    <3>1. new \in ScreenSet /\ new.page = FirstPage[t]
      BY PagesAssumption DEF NewPage, ScreenSet, Names, Lists
    <3>2. p(t) = [new EXCEPT !.loading = FALSE, !.shown = shown]
      BY <3>1 DEF Read
    <3>3. shown \in [Lists -> SUBSET Names] /\ (shown["incoming"] # {} => FirstPage[t] = "connections")
      BY <2>1, PagesAssumption DEF Lists, PageLists
    <3> HIDE DEF new, shown
    <3> QED
      BY <3>1, <3>2, <3>3 DEF ScreenSet
  <2> HIDE DEF p
  <2>3. \A s \in Slots : RowCall(s)
    <3>1. NoCall.got = <<>> /\ "incoming" \notin DOMAIN NoCall.got /\ NoCall.live = FALSE
      BY DEF NoCall
    <3> QED
      BY <1>2, <3>1, NoCallIs, ClientAssumption DEF RowCall, At, Pc
  <2> QED
    BY <2>1, <2>2, <2>3 DEF Rows, RowPage
<1>9. Loaders
  BY <1>2, NoCallIs, ClientAssumption DEF Loaders, At, Pc
<1>10. WaitingIsAwaited
  <2>1. ASSUME NEW t \in Tabs
        PROVE  /\ ~screen[t].loading /\ screen[t].busy = None /\ screen[t].modal = None
               /\ \A p \in Peers : screen[t].asked[p] = "idle"
    BY DEF Init, Read, NewPage
  <2> QED
    BY <2>1 DEF WaitingIsAwaited
<1> QED
  BY <1>3, <1>4, <1>5, <1>6, <1>7, <1>8, <1>9, <1>10 DEF Inv

\* The invariant is inductive.
LEMMA Always == Spec => []Inv
<1>1. Inv /\ [Next]_vars => Inv'
  BY Moves, TypeStep, WaitsStep, OwnersStep, OvertakenStep, FiledStep, RowsStep, LoadersStep, HeardStep DEF Inv
<1> QED
  BY <1>1, Beginning, PTL DEF Spec

\* The tokens, promises, calls and losses are what the code keeps (lib/api.ts:94).
THEOREM PagesTypeCorrect == Spec => []TypeOK
<1>1. Inv => TypeOK
  BY DEF Inv
<1> QED
  BY <1>1, Always, PTL

\* However refreshes and failures of any number of requests overlap, the
\* promise a tab keeps is one that a fetch in progress will settle
\* (lib/api.ts:104).
THEOREM CacheNeverDead == Spec => []CachedIsPending
<1>1. Inv => CachedIsPending
  BY DEF Inv, Owners, CachedIsPending
<1> QED
  BY <1>1, Always, PTL

\* Only a token of another tab, fetched after the retry's own, makes a retry
\* fail (lib/api.ts:146).
THEOREM RetryOnlyOvertaken == Spec => []RefusedOnlyIfOvertaken
<1>1. Inv => RefusedOnlyIfOvertaken
  BY DEF Inv, Overtaken, Retry, Tries, RefusedOnlyIfOvertaken, At
<1> QED
  BY <1>1, Always, PTL

\* The retry after a 403 files no report twice (lib/api.ts:149).
THEOREM ReportsNotRepeated == Spec => []OneReportPerSubmit
<1>1. Inv => OneReportPerSubmit
  <2> SUFFICES ASSUME Inv PROVE OneReportPerSubmit
    OBVIOUS
  <2>1. Pending \subseteq Slots
    BY DEF Pending
  <2>2. Cardinality(Pending) \in Nat
    BY <2>1, Sizes
  <2>3. filed \in Nat /\ reports \in Nat /\ losses \in Nat /\ filed + Cardinality(Pending) <= reports + losses
    BY DEF Inv, Filed, TypeOK
  <2> QED
    BY <2>2, <2>3 DEF OneReportPerSubmit
<1> QED
  BY <1>1, Always, PTL

\* An accept or decline that ends on screen has left the list
\* (connections/page.tsx:61).
THEOREM AnsweredLeaves == Spec => AnsweredLeavesList
<1>1. Inv /\ [Next]_vars =>
        [\A s \in Slots :
           calls[s].op \in {"accept", "decline"} /\ Loaded(s)
             => calls[s].peer \notin screen'[calls[s].tab].shown["incoming"]]_vars
  BY LoadRows DEF Inv, Answers
<1> QED
  BY <1>1, Always, PTL DEF Spec, AnsweredLeavesList

\* Behind every spinner and every disabled button is a request that will still
\* tell the page: the finally and catch of every handler give back what it took.
THEOREM WaitsAreAnswerable == Spec => []WaitingIsAwaited
<1>1. Inv => WaitingIsAwaited
  BY DEF Inv
<1> QED
  BY <1>1, Always, PTL
=============================================================================
