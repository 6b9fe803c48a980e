------------------------------- MODULE ChatPage -------------------------------
(***************************************************************************)
(* The chat page, the tab's socket, and the retries of lib/api.ts.         *)
(***************************************************************************)
EXTENDS ChatState

FreeSlots == {s \in Slots : calls[s] = NoCall}
NewCall(t, op, c, n) ==
  [NoCall EXCEPT !.op = op, !.pc = "sent", !.tab = t, !.conv = c, !.visit = n, !.attempt = 1]
\* setMessages(prev => prev.some(id) ? prev : [...prev, message])
Shown(list, m) == IF Shows(list, m) THEN list ELSE Append(list, m)

-----------------------------------------------------------------------------
(* Mounting and unmounting *)

\* A page that shows nothing yet.
Blank(t, c, n) == [NoPage EXCEPT !.conv = c, !.visit = n, !.loaded = page[t].loaded]

\* Both effects: the history is asked for and the room joined at once, or on
\* connect.
OpenPage(t, c) ==
  LET n == page[t].visit + 1 IN
  /\ page[t].conv = None /\ n <= MaxVisits
  /\ page' = [page EXCEPT ![t] = Blank(t, c, n)]
  /\ \E s \in FreeSlots : calls' = [calls EXCEPT ![s] = NewCall(t, "list", c, n)]
  /\ socket' = IF socket[t].up THEN [socket EXCEPT ![t].out = Emit(t, "join", c)] ELSE socket
  /\ UNCHANGED <<log, read, ended, drops>>

\* A send, a load and its markRead go on without the page.
ClosePage(t) ==
  LET c == page[t].conv IN
  /\ c # None
  /\ page' = [page EXCEPT ![t] = Blank(t, None, page[t].visit)]
  /\ socket' = [socket EXCEPT ![t].out = Emit(t, "leave", c)]
  /\ UNCHANGED <<log, read, ended, calls, drops>>

-----------------------------------------------------------------------------
(* The history *)

Load(s, current) ==
  LET had == [page[Caller(s)] EXCEPT !.loaded = @ \cup {calls[s].conv}] IN
  /\ At(s, "list", "done")
  /\ page' = [page EXCEPT ![Caller(s)] =
       IF current THEN [had EXCEPT !.shown = calls[s].rows, !.applied = TRUE] ELSE had]
  /\ calls' = [calls EXCEPT ![s] =
       NewCall(Caller(s), "read", calls[s].conv, calls[s].visit)]
  /\ UNCHANGED <<log, read, ended, socket, drops>>

\* Without the "cancelled" flag of the effect.
ApplyUncancelled(s) == Load(s, page[Caller(s)].conv # None)

\* The response replaces the list of its own page; messages/read follows in
\* any case.
ApplyHistory(s) == Load(s, OnPage(s))

\* The error is shown.
ListRefused(s) ==
  /\ At(s, "list", "refused")
  /\ Done(s) /\ UNCHANGED <<log, read, ended, page, socket, drops>>

-----------------------------------------------------------------------------
(* Sending *)

\* The form works from the first rendering on, with one send at a time.
\* Bound: every attempt in flight may still persist a row.
Submit(t) ==
  /\ page[t].conv # None /\ ~page[t].sending
  /\ Len(log) + MaxAttempts * (Cardinality(SendsInFlight) + 1) <= MaxMessages
  /\ page' = [page EXCEPT ![t].sending = TRUE]
  /\ \E s \in FreeSlots :
       calls' = [calls EXCEPT ![s] = NewCall(t, "send", page[t].conv, page[t].visit)]
  /\ UNCHANGED <<log, read, ended, socket, drops>>

Settle(s, list, sending) ==
  /\ page' = IF OnPage(s)
             THEN [page EXCEPT ![Caller(s)].shown = list, ![Caller(s)].sending = sending]
             ELSE page
  /\ Done(s) /\ UNCHANGED <<log, read, ended, socket, drops>>

SendAnsweredBlindly(s) ==
  /\ At(s, "send", "done")
  /\ Settle(s, Append(page[Caller(s)].shown, calls[s].row), FALSE)

SendAnswered(s) ==
  /\ At(s, "send", "done")
  /\ Settle(s, Shown(page[Caller(s)].shown, calls[s].row), FALSE)

SendRefused(s) ==
  /\ At(s, "send", "refused")
  /\ Settle(s, page[Caller(s)].shown, FALSE)

-----------------------------------------------------------------------------
(* fetchWithRetry: fetch fails, or a proxy answers 502, 503 or 504. *)

Failed(s) == calls[s].attempt >= MaxAttempts
\* The next attempt, or no more.
Again(s) ==
  IF Failed(s) THEN NoCall
  ELSE [NewCall(Caller(s), calls[s].op, calls[s].conv, calls[s].visit)
          EXCEPT !.attempt = calls[s].attempt + 1]
\* An error path that forgets the form.
Stuck(S) == page

\* A send that has failed shows its error and frees the form; a load that has
\* failed does not go on to messages/read.
Freed(S) ==
  [t \in Tabs |->
    IF \E s \in S : calls[s].op = "send" /\ Failed(s) /\ OnPage(s) /\ Caller(s) = t
    THEN [page[t] EXCEPT !.sending = FALSE] ELSE page[t]]

\* The request does not arrive, or its response does not.
Lose(s) ==
  /\ calls[s].pc \in {"sent", "done", "refused"}
  /\ calls' = [calls EXCEPT ![s] = Again(s)]
  /\ page' = Freed({s})
  /\ UNCHANGED <<log, read, ended, socket, drops>>

\* The client loses a send the server goes on with, in slot o.
LoseRunning(s, o) ==
  /\ calls[s].pc \in {"create", "publish"} /\ calls[s].visit # 0 /\ o \in FreeSlots
  /\ calls' = [calls EXCEPT ![o] = [calls[s] EXCEPT !.visit = 0, !.attempt = MaxAttempts],
                            ![s] = Again(s)]
  /\ page' = Freed({s})
  /\ UNCHANGED <<log, read, ended, socket, drops>>

-----------------------------------------------------------------------------
(* Socket *)

\* onMessage, which is only registered while the page is mounted.
Receive(t) ==
  LET m == Head(socket[t].in) IN
  /\ socket[t].up /\ socket[t].in # <<>>
  /\ socket' = [socket EXCEPT ![t].in = Tail(@)]
  /\ page' = IF OpenOn(t, log[m].conv)
             THEN [page EXCEPT ![t].shown = Shown(@, m)] ELSE page
  /\ UNCHANGED <<log, read, ended, calls, drops>>

Connected(t, hello) ==
  /\ ~socket[t].up /\ page[t].visit > 0
  /\ socket' = [socket EXCEPT ![t].up = TRUE, ![t].out = @ \o hello]
  /\ UNCHANGED <<log, read, ended, page, calls, drops>>

\* Without socket.on('connect', join).
ConnectQuietly(t) == Connected(t, <<>>)

\* The handshake is over: the send buffer is flushed, then "connect" fires.
Connect(t) ==
  LET c == page[t].conv IN
  Connected(t, IF c = None THEN <<>> ELSE <<[name |-> "join", conv |-> c]>>)

\* The connection breaks; what is on the wire is gone.
Drop(t) ==
  /\ socket[t].up /\ drops < MaxDrops
  /\ socket' = [socket EXCEPT ![t] = Down(<<>>)]
  /\ drops' = drops + 1
  /\ UNCHANGED <<log, read, ended, page, calls>>

\* The API process dies, with every call and every socket in it.
Crash ==
  /\ drops < MaxDrops /\ drops' = drops + 1
  /\ socket' = [t \in Tabs |-> IF socket[t].up THEN Down(<<>>) ELSE socket[t]]
  /\ calls' = [s \in Slots |-> IF calls[s] = NoCall THEN NoCall ELSE Again(s)]
  /\ page' = Freed(Slots)
  /\ UNCHANGED <<log, read, ended>>
=============================================================================
