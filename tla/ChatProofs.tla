------------------------------ MODULE ChatProofs ------------------------------
(***************************************************************************)
(* Theorems about the chat, for any number of users, tabs, conversations,  *)
(* calls, messages and visits.                                             *)
(***************************************************************************)
EXTENDS Chat, FiniteSetTheorems, SequenceTheorems, TLAPS

-----------------------------------------------------------------------------
(* Shapes *)

\* A free slot, a closed page, a socket that is down, a new call.
LEMMA NoCallIs == NoCall \in Call /\ NoCall.op = "none" /\ NoCall.pc = "free" /\ NoCall.rows = <<>>
  BY Limits DEF NoCall, Call

CallOps == {"list", "read", "send"}
Callers == Tabs \cup {None}
Chats == Conversations \cup {None}
Visits == 0..MaxVisits

\* A page that shows nothing of a conversation yet, or is closed.
LEMMA BlankIs ==
  ASSUME NEW t, NEW c, NEW n
  PROVE  LET p == Blank(t, c, n) IN
         /\ p.conv = c /\ p.visit = n /\ p.loaded = page[t].loaded
         /\ p.shown = <<>> /\ ~p.applied /\ ~p.sending
         /\ c \in Conversations \cup {None} /\ n \in 0..MaxVisits /\ page[t].loaded \subseteq Chats
              => p \in Page
<1>1. NoPage \in Page /\ NoPage.shown = <<>> /\ ~NoPage.applied /\ ~NoPage.sending
  BY Limits DEF NoPage, Page
<1> DEFINE l == page[t].loaded
           p == [NoPage EXCEPT !.conv = c, !.visit = n, !.loaded = l]
<1>2. p.conv = c /\ p.visit = n /\ p.loaded = l /\ p.shown = <<>> /\ ~p.applied /\ ~p.sending
  BY <1>1 DEF Page
<1>3. ASSUME c \in Conversations \cup {None}, n \in 0..MaxVisits, l \subseteq Chats PROVE p \in Page
  BY <1>1, <1>3 DEF Page, Chats
<1>4. Blank(t, c, n) = p
  BY DEF Blank
<1> HIDE DEF p
<1> QED
  BY <1>2, <1>3, <1>4

\* A request as it begins.
LEMMA NewCallIs ==
  ASSUME NEW t \in Callers, NEW op \in CallOps, NEW c \in Chats, NEW n \in Visits
  PROVE  LET k == NewCall(t, op, c, n) IN
         /\ k \in Call
         /\ k.op = op /\ k.pc = "sent" /\ k.tab = t /\ k.conv = c /\ k.visit = n /\ k.attempt = 1
         /\ k.rows = <<>>
<1>1. 1 \in 0..MaxAttempts
  BY Limits
<1> DEFINE k == NewCall(t, op, c, n)
<1>2. k = [NoCall EXCEPT !.op = op, !.pc = "sent", !.tab = t, !.conv = c, !.visit = n, !.attempt = 1]
  BY DEF NewCall
<1> HIDE DEF k
<1>3. k \in Call
  BY <1>1, <1>2, NoCallIs DEF Call, CallOps, Callers, Chats, Visits
<1>4. k.op = op /\ k.pc = "sent" /\ k.tab = t /\ k.conv = c /\ k.visit = n /\ k.attempt = 1
  BY <1>2, NoCallIs DEF Call
<1>5. k.rows = <<>>
  BY <1>2, NoCallIs DEF Call
<1> QED
  BY <1>3, <1>4, <1>5 DEF k

-----------------------------------------------------------------------------
(* The invariant *)

\* Messages of one conversation, each once.
Thread(list, c) ==
  /\ \A i \in 1..Len(list) : list[i] \in Messages /\ log[list[i]].conv = c
  /\ \A i, j \in 1..Len(list) : list[i] = list[j] => i = j

\* A call comes from a tab that has opened a chat page, and a messages/read from
\* one that has had the history it marks; the page it may still reach is of its
\* conversation; what it carries is its conversation's, and the
\* server lets only members have or write it.
CallOK(k) ==
  LET p == page[k.tab] IN
  /\ k.op # "none" /\ k.tab \in Tabs /\ k.conv \in Conversations
  /\ p.visit > 0 /\ k.visit <= p.visit
  /\ k.visit = p.visit /\ p.conv # None => p.conv = k.conv
  /\ k.op = "read" => k.conv \in p.loaded
  /\ Thread(k.rows, k.conv)
  /\ k.rows # <<>> \/ (k.op = "send" /\ k.pc \in {"create", "publish", "done"}) => IsMember(k.tab, k.conv)
  /\ k.op = "send" /\ k.pc \in {"publish", "done"} => k.row \in Messages /\ log[k.row].conv = k.conv
PageOK(t) ==
  /\ page[t].conv # None => page[t].visit > 0
  /\ Thread(page[t].shown, page[t].conv)
  /\ page[t].shown # <<>> => page[t].conv # None /\ IsMember(t, page[t].conv)
SocketOK(t) ==
  /\ \A c \in socket[t].rooms : IsMember(t, c)
  /\ \A i \in 1..Len(socket[t].in) :
       socket[t].in[i] \in Messages /\ IsMember(t, log[socket[t].in[i]].conv)
Written == \A m \in Messages : log[m].sender \in Members[log[m].conv]

CallsOK == \A s \in Slots : calls[s] # NoCall => CallOK(calls[s])
PagesOK == \A t \in Tabs : PageOK(t)
SocketsOK == \A t \in Tabs : SocketOK(t)

-----------------------------------------------------------------------------
(* Types *)

\* A page with other contents, a socket with one event more or less.
LEMMA PageIs ==
  ASSUME TypeOK, NEW t, NEW shown \in Seq(Nat), NEW sending \in BOOLEAN
  PROVE  /\ [page EXCEPT ![t].sending = sending] \in [Tabs -> Page]
         /\ [page EXCEPT ![t].shown = shown] \in [Tabs -> Page]
         /\ [page EXCEPT ![t].shown = shown, ![t].sending = sending] \in [Tabs -> Page]
  BY ZenonT(60) DEF TypeOK, Page

\* A history loaded: its tab has had it, and its own page, if still there, shows it.
LEMMA LoadIs ==
  ASSUME TypeOK, NEW s \in Slots, ApplyHistory(s)
  PROVE  /\ page' \in [Tabs -> Page]
         /\ \A t \in Tabs :
              /\ page'[t].conv = page[t].conv /\ page'[t].visit = page[t].visit
              /\ page'[t].sending = page[t].sending /\ page[t].loaded \subseteq page'[t].loaded
              /\ t # Caller(s) => page'[t] = page[t]
              /\ ~OnPage(s) => page'[t].shown = page[t].shown /\ page'[t].applied = page[t].applied
         /\ Caller(s) \in Tabs => calls[s].conv \in page'[Caller(s)].loaded
         /\ OnPage(s) /\ Caller(s) \in Tabs => page'[Caller(s)].shown = calls[s].rows
<1> DEFINE c == Caller(s)
           had == [page[c] EXCEPT !.loaded = @ \cup {calls[s].conv}]
           new == [had EXCEPT !.shown = calls[s].rows, !.applied = TRUE]
<1>1. page' = [page EXCEPT ![c] = IF OnPage(s) THEN new ELSE had]
  BY DEF ApplyHistory, Load
<1>2. page \in [Tabs -> Page] /\ calls[s].rows \in Seq(Nat) /\ calls[s].conv \in Conversations \cup {None}
  BY DEF TypeOK, Call
<1>3. CASE c \notin Tabs
  BY <1>1, <1>2, <1>3
<1>4. CASE c \in Tabs
  <2>1. page[c] \in Page
    BY <1>2, <1>4
  <2>2. /\ had \in Page /\ had.conv = page[c].conv /\ had.visit = page[c].visit /\ had.sending = page[c].sending
        /\ had.shown = page[c].shown /\ had.applied = page[c].applied
        /\ had.loaded = page[c].loaded \cup {calls[s].conv}
    BY <1>2, <2>1 DEF Page
  <2> HIDE DEF had
  <2>3. /\ new \in Page /\ new.conv = had.conv /\ new.visit = had.visit /\ new.sending = had.sending
        /\ new.shown = calls[s].rows /\ new.loaded = had.loaded
    BY <1>2, <2>2 DEF Page
  <2> HIDE DEF new, c
  <2> QED
    BY <1>1, <1>2, <1>4, <2>2, <2>3 DEF c
<1> QED
  BY <1>3, <1>4

Queue == Seq(Event)
Joins == [Conversations -> Nat]
Rooms == SUBSET Conversations

\* The parts of a socket.
LEMMA SocketParts ==
  ASSUME TypeOK, NEW t \in Tabs
  PROVE  /\ socket[t] \in Socket /\ socket[t].up \in BOOLEAN /\ socket[t].out \in Queue
         /\ socket[t].joining \in Joins /\ socket[t].rooms \in Rooms /\ socket[t].in \in Seq(Nat)
  BY DEF TypeOK, Socket, Queue, Joins, Rooms

\* A socket with other events to send.
LEMMA OutIs ==
  ASSUME TypeOK, NEW t \in Tabs, NEW out \in Queue
  PROVE  /\ [socket EXCEPT ![t].out = out] \in [Tabs -> Socket]
         /\ [socket EXCEPT ![t].up = TRUE, ![t].out = out] \in [Tabs -> Socket]
  BY DEF TypeOK, Socket, Queue

\* A socket with other messages to receive.
LEMMA InIs ==
  ASSUME TypeOK, NEW t \in Tabs, NEW in \in Seq(Nat)
  PROVE  /\ [socket EXCEPT ![t].in = in] \in [Tabs -> Socket]
         /\ [socket[t] EXCEPT !.in = in] \in Socket
  BY DEF TypeOK, Socket

\* A socket whose joins and rooms have changed.
LEMMA JoinedIs ==
  ASSUME TypeOK, NEW t \in Tabs, NEW joining \in Joins, NEW rooms \in Rooms
  PROVE  [socket EXCEPT ![t].joining = joining, ![t].rooms = rooms] \in [Tabs -> Socket]
  BY ZenonT(60) DEF TypeOK, Socket, Joins, Rooms

\* A socket whose event the gateway has taken.
LEMMA TakenIs ==
  ASSUME TypeOK, NEW t \in Tabs, NEW out \in Queue, NEW joining \in Joins, NEW rooms \in Rooms
  PROVE  [socket EXCEPT ![t].out = out, ![t].joining = joining, ![t].rooms = rooms] \in [Tabs -> Socket]
<1> DEFINE one == [socket EXCEPT ![t].joining = joining, ![t].rooms = rooms]
<1>1. one \in [Tabs -> Socket]
  BY JoinedIs
<1>2. [one EXCEPT ![t].out = out] \in [Tabs -> Socket]
  <2> HIDE DEF one
  <2> QED
    BY <1>1 DEF Socket, Queue
<1>3. [socket EXCEPT ![t].out = out, ![t].joining = joining, ![t].rooms = rooms] = [one EXCEPT ![t].out = out]
  BY DEF TypeOK, Socket
<1> QED
  BY <1>2, <1>3

\* A socket that is down.
LEMMA DownIs == Down(<<>>) \in Socket
<1>1. <<>> \in Seq(Event)
  OBVIOUS
<1> HIDE DEF Event
<1> QED
  BY <1>1 DEF Down, Socket, NoJoins

\* An event emitted.
LEMMA EmitIs ==
  ASSUME TypeOK, NEW t \in Tabs, NEW c \in Conversations
  PROVE  Emit(t, "join", c) \in Queue /\ Emit(t, "leave", c) \in Queue
<1>1. [name |-> "join", conv |-> c] \in Event /\ [name |-> "leave", conv |-> c] \in Event
  BY DEF Event
<1>2. socket[t].out \in Seq(Event)
  BY SocketParts DEF Queue
<1> QED
  BY <1>1, <1>2 DEF Emit, Queue

\* A call with an answer.
LEMMA ReplacedIs ==
  ASSUME TypeOK, NEW s \in Slots
  PROVE  /\ \A k \in Call : [calls EXCEPT ![s] = k] \in [Slots -> Call]
         /\ \A rows \in Seq(Nat) : [calls EXCEPT ![s].pc = "done", ![s].rows = rows]
                                    = [calls EXCEPT ![s] = [calls[s] EXCEPT !.pc = "done", !.rows = rows]]
         /\ \A row \in Nat : [calls EXCEPT ![s].pc = "publish", ![s].row = row]
                              = [calls EXCEPT ![s] = [calls[s] EXCEPT !.pc = "publish", !.row = row]]
  BY DEF TypeOK, Call

\* A call answered with rows.
LEMMA AnswerIs ==
  ASSUME TypeOK, NEW s \in Slots, NEW rows \in Seq(Nat)
  PROVE  LET k == [calls[s] EXCEPT !.pc = "done", !.rows = rows] IN
         /\ k \in Call
         /\ k.op = calls[s].op /\ k.pc = "done" /\ k.tab = calls[s].tab /\ k.conv = calls[s].conv
         /\ k.visit = calls[s].visit /\ k.rows = rows /\ k.row = calls[s].row
  BY DEF TypeOK, Call

\* A call whose message is written.
LEMMA CreatedIs ==
  ASSUME TypeOK, NEW s \in Slots, NEW row \in Nat
  PROVE  LET k == [calls[s] EXCEPT !.pc = "publish", !.row = row] IN
         /\ k \in Call
         /\ k.op = calls[s].op /\ k.pc = "publish" /\ k.tab = calls[s].tab /\ k.conv = calls[s].conv
         /\ k.visit = calls[s].visit /\ k.rows = calls[s].rows /\ k.row = row
  BY DEF TypeOK, Call

\* A call that goes on.
LEMMA GotoIs ==
  ASSUME TypeOK, NEW s \in Slots, NEW pc \in {"create", "publish", "done", "refused"}, Goto(s, pc)
  PROVE  /\ calls' \in [Slots -> Call]
         /\ \A w \in Slots : w # s => calls'[w] = calls[w]
         /\ calls'[s].op = calls[s].op /\ calls'[s].pc = pc /\ calls'[s].tab = calls[s].tab
         /\ calls'[s].conv = calls[s].conv /\ calls'[s].visit = calls[s].visit
         /\ calls'[s].rows = calls[s].rows /\ calls'[s].row = calls[s].row
         /\ calls'[s].attempt = calls[s].attempt
  BY DEF TypeOK, Goto, Call

\* The next attempt of a call is like it, or there is none.
LEMMA AgainIs ==
  ASSUME TypeOK, NEW s \in Slots, calls[s].op # "none"
  PROVE  LET k == Again(s) IN
         /\ k \in Call
         /\ \/ k = NoCall /\ Failed(s)
            \/ /\ k.op = calls[s].op /\ k.pc = "sent" /\ k.tab = calls[s].tab /\ k.conv = calls[s].conv
               /\ k.visit = calls[s].visit /\ k.rows = <<>>
<1>1. CASE Failed(s)
  BY <1>1, NoCallIs DEF Again
<1>2. CASE ~Failed(s)
  <2> DEFINE new == NewCall(calls[s].tab, calls[s].op, calls[s].conv, calls[s].visit)
             n == calls[s].attempt + 1
  <2>1. /\ new \in Call /\ new.op = calls[s].op /\ new.pc = "sent" /\ new.tab = calls[s].tab
        /\ new.conv = calls[s].conv /\ new.visit = calls[s].visit /\ new.rows = <<>>
    <3>1. /\ calls[s].op \in CallOps /\ calls[s].tab \in Callers
          /\ calls[s].conv \in Chats /\ calls[s].visit \in Visits
      BY DEF TypeOK, Call, CallOps, Callers, Chats, Visits
    <3> QED
      BY <3>1, NewCallIs
  <2>2. n \in 0..MaxAttempts
    <3>1. calls[s].attempt \in 0..MaxAttempts /\ ~(calls[s].attempt >= MaxAttempts)
      BY <1>2 DEF Failed, TypeOK, Call
    <3> QED
      BY <3>1, Limits
  <2>3. Again(s) = [new EXCEPT !.attempt = n]
    BY <1>2 DEF Again, Caller
  <2> HIDE DEF new, n
  <2> QED
    BY <2>1, <2>2, <2>3 DEF Call
<1> QED
  BY <1>1, <1>2

\* A freed form is otherwise as it was.
LEMMA FreedIs ==
  ASSUME TypeOK, NEW S
  PROVE  /\ Freed(S) \in [Tabs -> Page]
         /\ \A t \in Tabs : /\ Freed(S)[t].conv = page[t].conv /\ Freed(S)[t].visit = page[t].visit
                            /\ Freed(S)[t].shown = page[t].shown /\ Freed(S)[t].applied = page[t].applied
                            /\ Freed(S)[t].loaded = page[t].loaded
<1>1. ASSUME NEW t \in Tabs
      PROVE  LET p == Freed(S)[t] IN
             /\ p \in Page /\ p.conv = page[t].conv /\ p.visit = page[t].visit
             /\ p.shown = page[t].shown /\ p.applied = page[t].applied /\ p.loaded = page[t].loaded
  <2>1. page[t] \in Page
    BY DEF TypeOK
  <2>2. Freed(S)[t] \in {page[t], [page[t] EXCEPT !.sending = FALSE]}
    BY DEF Freed
  <2>3. CASE Freed(S)[t] = page[t]
    BY <2>1, <2>3
  <2>4. CASE Freed(S)[t] = [page[t] EXCEPT !.sending = FALSE]
    <3> DEFINE p == [page[t] EXCEPT !.sending = FALSE]
    <3>1. p \in Page
      BY <2>1 DEF Page
    <3>2. /\ p.conv = page[t].conv /\ p.visit = page[t].visit
          /\ p.shown = page[t].shown /\ p.applied = page[t].applied /\ p.loaded = page[t].loaded
      BY <2>1 DEF Page
    <3> QED
      BY <2>4, <3>1, <3>2
  <2> QED
    BY <2>2, <2>3, <2>4
<1>2. Freed(S) = [t \in Tabs |-> Freed(S)[t]]
  BY DEF Freed
<1> QED
  BY <1>1, <1>2

\* A message has a conversation and a sender.
LEMMA MessageIs == ASSUME TypeOK, NEW m \in Messages PROVE log[m].conv \in Conversations /\ log[m].sender \in Users
<1> DEFINE R == [conv : Conversations, sender : Users]
<1>1. log \in Seq(R) /\ m \in 1..Len(log)
  BY DEF TypeOK, Messages
<1> HIDE DEF R
<1>2. log[m] \in R
  BY <1>1
<1> QED
  BY <1>2 DEF R

\* The newest messages of a conversation are a thread.
LEMMA NewestIs ==
  ASSUME TypeOK, NEW c, NEW rows \in Newest(c)
  PROVE  rows \in Seq(Nat) /\ Thread(rows, c)
<1> DEFINE recent == {m \in MessagesOf(c) : Cardinality({n \in MessagesOf(c) : n > m}) < PageSize}
<1>1. Len(log) \in Nat /\ Messages = 1..Len(log)
  BY DEF TypeOK, Messages
<1>2. IsFiniteSet(recent)
  <2>1. IsFiniteSet(Messages)
    BY <1>1, FS_Interval
  <2> QED
    BY <2>1, FS_Subset DEF MessagesOf
<1>3. Cardinality(recent) \in Nat
  BY <1>2, FS_CardinalityType
<1>4. /\ rows \in [1..Cardinality(recent) -> recent]
      /\ \A i, j \in DOMAIN rows : i < j => rows[i] < rows[j]
  BY DEF Newest
<1>5. \A m \in recent : m \in Messages /\ log[m].conv = c
  BY DEF MessagesOf
<1> HIDE DEF recent
<1>6. rows \in Seq(Messages) /\ Len(rows) = Cardinality(recent)
  BY <1>3, <1>4, <1>5
<1>7. \A i, j \in 1..Len(rows) : rows[i] = rows[j] => i = j
  <2> SUFFICES ASSUME NEW i \in 1..Len(rows), NEW j \in 1..Len(rows), rows[i] = rows[j], i # j
               PROVE  FALSE
    OBVIOUS
  <2>1. rows[i] \in Nat /\ i \in DOMAIN rows /\ j \in DOMAIN rows /\ i \in Nat /\ j \in Nat
    BY <1>1, <1>3, <1>6, <1>4
  <2>2. i < j \/ j < i
    BY <2>1
  <2> QED
    BY <1>4, <2>1, <2>2
<1>8. \A i \in 1..Len(rows) : rows[i] \in Messages /\ log[rows[i]].conv = c
  BY <1>3, <1>4, <1>5, <1>6
<1>9. rows \in Seq(Nat)
  BY <1>1, <1>6
<1> QED
  BY <1>7, <1>8, <1>9 DEF Thread

\* A message added to a thread unless it is there.
LEMMA ShownIs ==
  ASSUME TypeOK, NEW c, NEW list \in Seq(Nat), Thread(list, c), NEW m \in Messages, log[m].conv = c
  PROVE  LET l == Shown(list, m) IN l \in Seq(Nat) /\ Thread(l, c) /\ l # <<>>
<1>1. m \in Nat
  BY DEF Messages
<1>2. CASE Shows(list, m)
  BY <1>2 DEF Shown, Shows
<1>3. CASE ~Shows(list, m)
  <2> DEFINE l == Append(list, m)
  <2>1. /\ l \in Seq(Nat) /\ Len(l) = Len(list) + 1 /\ Len(list) \in Nat /\ l # <<>>
        /\ \A i \in 1..Len(list) : l[i] = list[i]
        /\ l[Len(list) + 1] = m
    BY <1>1
  <2> HIDE DEF l
  <2>2. \A i \in 1..Len(l) : (i \in 1..Len(list) /\ l[i] = list[i]) \/ (i = Len(list) + 1 /\ l[i] = m)
    BY <2>1
  <2>3. \A i \in 1..Len(list) : list[i] # m
    BY <1>3 DEF Shows
  <2>4. Thread(l, c)
    BY <2>2, <2>3 DEF Thread
  <2> QED
    BY <1>3, <2>1, <2>4 DEF Shown, l
<1> QED
  BY <1>2, <1>3

\* A new call in a free slot.
Begin(t, op, c, n) == \E s \in FreeSlots : calls' = [calls EXCEPT ![s] = NewCall(t, op, c, n)]

\* Only the slot of the new call changes.
LEMMA BeginIs ==
  ASSUME TypeOK, NEW t \in Callers, NEW op \in CallOps, NEW c \in Chats, NEW n \in Visits, Begin(t, op, c, n)
  PROVE  /\ calls' \in [Slots -> Call]
         /\ \E s \in Slots : /\ calls[s] = NoCall /\ calls'[s] = NewCall(t, op, c, n)
                             /\ \A w \in Slots : w # s => calls'[w] = calls[w]
<1>1. PICK s \in FreeSlots : calls' = [calls EXCEPT ![s] = NewCall(t, op, c, n)]
  BY DEF Begin
<1>2. s \in Slots /\ calls[s] = NoCall
  BY DEF FreeSlots
<1>3. NewCall(t, op, c, n) \in Call
  BY NewCallIs
<1>4. calls' \in [Slots -> Call]
  BY <1>1, <1>2, <1>3 DEF TypeOK
<1>5. calls'[s] = NewCall(t, op, c, n) /\ \A w \in Slots : w # s => calls'[w] = calls[w]
  BY <1>1, <1>2 DEF TypeOK
<1> QED
  BY <1>2, <1>4, <1>5

\* Tables, pages, calls and sockets keep their types.
LEMMA TypeStep ==
  ASSUME TypeOK, CallsOK, [Next]_vars
  PROVE  TypeOK'
<1> DEFINE C == calls' \in [Slots -> Call]
           P == page' \in [Tabs -> Page]
           S == socket' \in [Tabs -> Socket]
<1>1. ASSUME UNCHANGED <<log, read, ended, drops>>, C, P, S PROVE TypeOK'
  BY <1>1 DEF TypeOK, Messages
<1>2. /\ calls' = calls => C
      /\ page' = page => P
      /\ socket' = socket => S
  BY DEF TypeOK
<1>3. ASSUME NEW s \in Slots, Done(s) PROVE C
  BY <1>3, NoCallIs DEF Done, TypeOK
<1>4. ASSUME NEW s \in Slots, List(s) PROVE TypeOK'
  <2>1. CASE Goto(s, "refused")
    BY <1>1, <1>2, <1>4, <2>1, GotoIs DEF List
  <2>2. CASE \E rows \in Newest(calls[s].conv) : calls' = [calls EXCEPT ![s].pc = "done", ![s].rows = rows]
    <3>1. PICK rows \in Newest(calls[s].conv) : calls' = [calls EXCEPT ![s].pc = "done", ![s].rows = rows]
      BY <2>2
    <3>2. rows \in Seq(Nat)
      BY NewestIs
    <3> DEFINE k == [calls[s] EXCEPT !.pc = "done", !.rows = rows]
    <3>3. k \in Call /\ calls' = [calls EXCEPT ![s] = k]
      BY <3>1, <3>2, AnswerIs, ReplacedIs
    <3> HIDE DEF k
    <3>4. C
      BY <3>3, ReplacedIs
    <3> QED
      BY <1>1, <1>2, <1>4, <3>4 DEF List
  <2> QED
    BY <1>4, <2>1, <2>2 DEF List
<1>5. ASSUME NEW s \in Slots, ApplyHistory(s) PROVE TypeOK'
  <2>2. P
    BY <1>5, LoadIs
  <2>3. NewCall(calls[s].tab, "read", calls[s].conv, calls[s].visit) \in Call
    <3>1. "read" \in CallOps /\ calls[s].tab \in Callers /\ calls[s].conv \in Chats /\ calls[s].visit \in Visits
      BY DEF TypeOK, Call, CallOps, Callers, Chats, Visits
    <3> QED
      BY <3>1, NewCallIs
  <2>4. C
    BY <1>5, <2>3 DEF ApplyHistory, Load, Caller, TypeOK
  <2> QED
    BY <1>1, <1>2, <1>5, <2>2, <2>4 DEF ApplyHistory, Load
<1>6. ASSUME NEW s \in Slots, ListRefused(s) PROVE TypeOK'
  BY <1>1, <1>2, <1>3, <1>6 DEF ListRefused
<1>7. ASSUME NEW s \in Slots, MarkRead(s) PROVE TypeOK'
  <2>1. C /\ UNCHANGED <<log, ended, page, socket, drops>>
    BY <1>3, <1>7 DEF MarkRead, MarkAs
  <2>2. read' \subseteq Messages'
    BY <1>7, <2>1 DEF MarkRead, MarkAs, MessagesOf, Messages, TypeOK
  <2> QED
    BY <2>1, <2>2 DEF TypeOK
<1>8. ASSUME NEW s \in Slots, CheckSend(s) PROVE TypeOK'
  BY <1>1, <1>2, <1>8, GotoIs DEF CheckSend
<1>9. ASSUME NEW s \in Slots, CreateMessage(s) PROVE TypeOK'
  <2>1. calls[s].tab \in Tabs /\ calls[s].conv \in Conversations
    BY <1>9, NoCallIs DEF CallsOK, CallOK, CreateMessage, At
  <2>2. [conv |-> calls[s].conv, sender |-> Owner[calls[s].tab]] \in [conv : Conversations, sender : Users]
    BY <2>1, OwnerIsUser
  <2>3. log' \in Seq([conv : Conversations, sender : Users]) /\ Len(log') = Len(log) + 1 /\ Len(log) \in Nat
    BY <1>9, <2>2 DEF CreateMessage, Caller, TypeOK
  <2>4. C
    <3> DEFINE n == Len(log) + 1
    <3>1. n \in Nat /\ calls' = [calls EXCEPT ![s].pc = "publish", ![s].row = n]
      BY <1>9, <2>3 DEF CreateMessage
    <3> HIDE DEF n
    <3> DEFINE k == [calls[s] EXCEPT !.pc = "publish", !.row = n]
    <3>2. k \in Call /\ calls' = [calls EXCEPT ![s] = k]
      BY <3>1, CreatedIs, ReplacedIs
    <3> HIDE DEF k
    <3> QED
      BY <3>2, ReplacedIs
  <2> QED
    BY <1>9, <2>3, <2>4 DEF CreateMessage, TypeOK, Messages
<1>10. ASSUME NEW s \in Slots, Publish(s) PROVE TypeOK'
  <2>1. calls[s].row \in Nat
    BY DEF TypeOK, Call
  <2>2. S
    <3>1. \A t \in Tabs : Append(socket[t].in, calls[s].row) \in Seq(Nat)
      BY <2>1, SocketParts
    <3>2. \A t \in Tabs : [socket[t] EXCEPT !.in = Append(@, calls[s].row)] \in Socket
      BY <3>1, InIs
    <3>3. \A t \in Tabs : socket[t] \in Socket
      BY SocketParts
    <3> QED
      BY <1>10, <3>2, <3>3 DEF Publish, Broadcast
  <2> QED
    BY <1>1, <1>2, <1>10, <2>2, GotoIs DEF Publish
<1>11. ASSUME NEW s \in Slots, SendAnswered(s) \/ SendRefused(s) PROVE TypeOK'
  <2> DEFINE shown == page[calls[s].tab].shown
  <2>1. shown \in Seq(Nat) /\ Shown(shown, calls[s].row) \in Seq(Nat)
    <3>1. calls[s].tab \in Tabs
      BY <1>11, NoCallIs DEF CallsOK, CallOK, SendAnswered, SendRefused, At
    <3>2. shown \in Seq(Nat) /\ calls[s].row \in Nat
      BY <3>1 DEF TypeOK, Page, Call
    <3> QED
      BY <3>2 DEF Shown
  <2>2. PICK list \in Seq(Nat) : Settle(s, list, FALSE)
    BY <1>11, <2>1 DEF SendAnswered, SendRefused, Caller
  <2>3. C
    BY <1>3, <2>2 DEF Settle
  <2>4. P
    BY <1>2, <2>2, PageIs DEF Settle
  <2> QED
    BY <1>1, <1>2, <2>2, <2>3, <2>4 DEF Settle
<1>12. ASSUME NEW s \in Slots, Lose(s) PROVE TypeOK'
  <2>1. Again(s) \in Call
    <3>1. calls[s].op # "none"
      BY <1>12 DEF Lose, CallsOK, CallOK, NoCall
    <3> QED
      BY <3>1, AgainIs
  <2>2. C /\ P
    BY <1>12, <2>1, FreedIs DEF Lose, TypeOK
  <2> QED
    BY <1>1, <1>2, <1>12, <2>2 DEF Lose

<1>13. ASSUME NEW s \in Slots, NEW o \in Slots, LoseRunning(s, o) PROVE TypeOK'
  <2>1. Again(s) \in Call
    <3>1. calls[s].op # "none"
      BY <1>13, NoCallIs DEF LoseRunning, CallsOK, CallOK
    <3> QED
      BY <3>1, AgainIs
  <2>2. [calls[s] EXCEPT !.visit = 0, !.attempt = MaxAttempts] \in Call
    <3>1. MaxAttempts \in 0..MaxAttempts /\ 0 \in 0..MaxVisits
      BY Limits
    <3>2. calls[s] \in Call
      BY DEF TypeOK
    <3>3. ASSUME NEW c \in Call, NEW v \in 0..MaxVisits, NEW a \in 0..MaxAttempts
          PROVE  [c EXCEPT !.visit = v, !.attempt = a] \in Call
      BY DEF Call
    <3> QED
      BY <3>1, <3>2, <3>3
  <2>3. C /\ P
    BY <1>13, <2>1, <2>2, FreedIs DEF LoseRunning, TypeOK
  <2> QED
    BY <1>1, <1>2, <1>13, <2>3 DEF LoseRunning
<1>14. ASSUME NEW t \in Tabs, NEW c \in Conversations, JoinArrives(t, c) PROVE TypeOK'
  <2> DEFINE out == Tail(socket[t].out)
             joining == [socket[t].joining EXCEPT ![c] = @ + 1]
             rooms == socket[t].rooms
  <2>1. out \in Queue /\ joining \in Joins /\ rooms \in Rooms
    BY <1>14, SocketParts DEF JoinArrives, Arrives, Queue, Joins, Rooms
  <2>2. socket' = [socket EXCEPT ![t].out = out, ![t].joining = joining, ![t].rooms = rooms]
    BY <1>14 DEF JoinArrives, TakeEvent
  <2> HIDE DEF out, joining, rooms
  <2>3. S
    BY <2>1, <2>2, TakenIs
  <2> QED
    BY <1>1, <1>2, <1>14, <2>3 DEF JoinArrives, TakeEvent
<1>15. ASSUME NEW t \in Tabs, NEW c \in Conversations, LeaveArrives(t, c) PROVE TypeOK'
  <2> DEFINE out == Tail(socket[t].out)
             joining == socket[t].joining
             rooms == socket[t].rooms \ {c}
  <2>1. out \in Queue /\ joining \in Joins /\ rooms \in Rooms
    BY <1>15, SocketParts DEF LeaveArrives, Arrives, Queue, Joins, Rooms
  <2>2. socket' = [socket EXCEPT ![t].out = out, ![t].joining = joining, ![t].rooms = rooms]
    BY <1>15 DEF LeaveArrives, TakeEvent
  <2> HIDE DEF out, joining, rooms
  <2>3. S
    BY <2>1, <2>2, TakenIs
  <2> QED
    BY <1>1, <1>2, <1>15, <2>3 DEF LeaveArrives, TakeEvent
<1>16. ASSUME NEW t \in Tabs, NEW c \in Conversations, FinishJoin(t, c) PROVE TypeOK'
  <2> DEFINE joining == [socket[t].joining EXCEPT ![c] = @ - 1]
             rooms == IF IsMember(t, c) THEN socket[t].rooms \cup {c} ELSE socket[t].rooms
  <2>1. joining \in Joins /\ rooms \in Rooms
    BY <1>16, SocketParts DEF FinishJoin, Join, Joins, Rooms
  <2>2. socket' = [socket EXCEPT ![t].joining = joining, ![t].rooms = rooms]
    BY <1>16, SocketParts DEF FinishJoin, Join, Joins
  <2> HIDE DEF joining, rooms
  <2>3. S
    BY <2>1, <2>2, JoinedIs
  <2> QED
    BY <1>1, <1>2, <1>16, <2>3 DEF FinishJoin, Join
<1>17. ASSUME NEW t \in Tabs, Receive(t) PROVE TypeOK'
  <2>1. S
    <3>1. Tail(socket[t].in) \in Seq(Nat)
      BY <1>17 DEF Receive, TypeOK, Socket
    <3> QED
      BY <1>17, <3>1, InIs DEF Receive
  <2>2. Head(socket[t].in) \in Nat /\ page[t].shown \in Seq(Nat)
    BY <1>17 DEF Receive, TypeOK, Socket, Page
  <2>3. Shown(page[t].shown, Head(socket[t].in)) \in Seq(Nat)
    BY <2>2 DEF Shown
  <2>4. P
    BY <1>2, <1>17, <2>3, PageIs DEF Receive
  <2> QED
    BY <1>1, <1>2, <1>17, <2>1, <2>4 DEF Receive
<1>18. ASSUME NEW t \in Tabs, Connect(t) PROVE TypeOK'
  <2> DEFINE hello == IF page[t].conv = None THEN <<>> ELSE <<[name |-> "join", conv |-> page[t].conv]>>
  <2>1. hello \in Seq(Event)
    <3>1. page[t].conv \in Conversations \cup {None}
      BY DEF TypeOK, Page
    <3>2. page[t].conv # None => [name |-> "join", conv |-> page[t].conv] \in Event
      BY <3>1 DEF Event
    <3> QED
      BY <3>2
  <2>2. Connected(t, hello)
    BY <1>18 DEF Connect
  <2> HIDE DEF hello
  <2>3. S
    <3>1. socket[t].out \o hello \in Queue
      BY <2>1, SocketParts DEF Queue
    <3> QED
      BY <2>2, <3>1, OutIs DEF Connected
  <2> QED
    BY <1>1, <1>2, <2>2, <2>3 DEF Connected
<1>19. ASSUME NEW t \in Tabs, Drop(t) PROVE TypeOK'
  <2>1. Down(<<>>) \in Socket
    BY DownIs
  <2>2. S
    BY <1>19, <2>1 DEF Drop, TypeOK
  <2> QED
    BY <1>2, <1>19, <2>2 DEF Drop, TypeOK, Messages
<1>20. CASE Crash
  <2>1. C
    <3>1. \A s \in Slots : calls[s] # NoCall => Again(s) \in Call
      BY AgainIs DEF CallsOK, CallOK
    <3> QED
      BY <1>20, <3>1, NoCallIs DEF Crash
  <2>2. P /\ S
    <3>1. Down(<<>>) \in Socket
      BY DownIs
    <3> QED
      BY <1>20, <3>1, FreedIs DEF Crash, TypeOK
  <2> QED
    BY <1>20, <2>1, <2>2 DEF Crash, TypeOK, Messages
<1>21. ASSUME NEW t \in Tabs, Submit(t) PROVE TypeOK'
  <2>1. "send" \in CallOps /\ t \in Callers /\ page[t].conv \in Chats /\ page[t].visit \in Visits
    BY DEF TypeOK, Page, CallOps, Callers, Chats, Visits
  <2>2. Begin(t, "send", page[t].conv, page[t].visit)
    BY <1>21 DEF Submit, Begin
  <2>3. C
    BY <2>1, <2>2, BeginIs
  <2>4. P
    <3>1. page' = [page EXCEPT ![t].sending = TRUE]
      BY <1>21 DEF Submit
    <3> QED
      BY <3>1 DEF TypeOK, Page
  <2> QED
    BY <1>1, <1>2, <1>21, <2>3, <2>4 DEF Submit
<1>22. ASSUME NEW t \in Tabs, NEW c \in Conversations, OpenPage(t, c) PROVE TypeOK'
  <2> DEFINE n == page[t].visit + 1
  <2>1. "list" \in CallOps /\ t \in Callers /\ c \in Chats /\ n \in Visits /\ n \in 0..MaxVisits
    BY <1>22, Limits DEF OpenPage, TypeOK, Page, CallOps, Callers, Chats, Visits
  <2>2. Begin(t, "list", c, n)
    BY <1>22 DEF OpenPage, Begin
  <2>3. C
    BY <2>1, <2>2, BeginIs
  <2>4. P
    <3>1. page[t].loaded \subseteq Chats /\ c \in Conversations \cup {None}
      BY DEF TypeOK, Page, Chats
    <3>2. Blank(t, c, n) \in Page
      BY <2>1, <3>1, BlankIs
    <3> QED
      BY <1>22, <3>2 DEF OpenPage, TypeOK
  <2>5. S
    <3>1. Emit(t, "join", c) \in Queue
      BY EmitIs
    <3> QED
      BY <1>2, <1>22, <3>1, OutIs DEF OpenPage
  <2> QED
    BY <1>1, <1>22, <2>3, <2>4, <2>5 DEF OpenPage
<1>23. ASSUME NEW t \in Tabs, ClosePage(t) PROVE TypeOK'
  <2>1. /\ page[t].conv \in Conversations /\ page[t].visit \in 0..MaxVisits
        /\ page[t].loaded \subseteq Chats /\ None \in Conversations \cup {None}
    BY <1>23 DEF ClosePage, TypeOK, Page, Chats
  <2>2. Blank(t, None, page[t].visit) \in Page
    BY <2>1, BlankIs
  <2>3. P
    BY <1>23, <2>2 DEF ClosePage, TypeOK
  <2>4. S
    <3>1. Emit(t, "leave", page[t].conv) \in Queue
      BY <2>1, EmitIs
    <3> QED
      BY <1>23, <3>1, OutIs DEF ClosePage
  <2> QED
    BY <1>1, <1>2, <1>23, <2>3, <2>4 DEF ClosePage
<1>24. ASSUME NEW c \in Conversations, EndConnection(c) \/ ReviveConnection(c) PROVE TypeOK'
  BY <1>24 DEF EndConnection, ReviveConnection, TypeOK, Messages
<1>25. CASE UNCHANGED vars
  BY <1>1, <1>2, <1>25 DEF vars
<1> HIDE DEF C, P, S
<1> QED
  BY <1>4, <1>5, <1>6, <1>7, <1>8, <1>9, <1>10, <1>11, <1>12, <1>13, <1>14, <1>15, <1>16, <1>17, <1>18,
     <1>19, <1>20, <1>21, <1>22, <1>23, <1>24, <1>25 DEF Next, Serve, Progress, Deliver

-----------------------------------------------------------------------------
(* Steps *)

\* A message stays what it is; a page of a visit stays what it is or closes.
Grows ==
  /\ Messages \subseteq Messages'
  /\ \A m \in Messages : log'[m] = log[m]
Moves ==
  \A t \in Tabs :
    /\ page'[t].visit >= page[t].visit
    /\ page'[t].visit = page[t].visit => page'[t].conv \in {page[t].conv, None}
    /\ page[t].loaded \subseteq page'[t].loaded

\* Messages are appended, never changed.
LEMMA LogGrows == ASSUME TypeOK, [Next]_vars PROVE Grows
<1>1. ASSUME NEW s \in Slots, CreateMessage(s) PROVE Grows
  BY <1>1 DEF CreateMessage, Grows, Messages, TypeOK
<1>2. ASSUME log' = log PROVE Grows
  BY <1>2 DEF Grows, Messages
<1>3. ASSUME NEW s \in Slots, Serve(s), ~CreateMessage(s) PROVE Grows
  BY <1>2, <1>3 DEF Serve, List, ApplyHistory, Load, ListRefused, MarkRead, MarkAs, CheckSend, Publish,
       SendAnswered, SendRefused, Settle
<1>4. ASSUME NEW t \in Tabs, Progress(t) PROVE Grows
  BY <1>2, <1>4 DEF Progress, Deliver, JoinArrives, LeaveArrives, TakeEvent, Receive, Connect, Connected
<1> QED
  BY <1>1, <1>2, <1>3, <1>4 DEF Next, Lose, LoseRunning, Drop, Submit, ClosePage, OpenPage, FinishJoin, Join,
       EndConnection, ReviveConnection, Crash, vars

\* A page keeps its visit, or goes on to a later one.
LEMMA PagesMove == ASSUME TypeOK, [Next]_vars PROVE Moves
<1>1. /\ page \in [Tabs -> Page]
      /\ \A t \in Tabs : page[t].visit \in 0..MaxVisits /\ page[t].visit \in Nat
  BY Limits DEF TypeOK, Page
<1>2. ASSUME \A t \in Tabs : /\ page'[t].visit = page[t].visit /\ page'[t].conv = page[t].conv
                            /\ page[t].loaded \subseteq page'[t].loaded
      PROVE  Moves
  BY <1>1, <1>2 DEF Moves
<1>3. page' = page => Moves
  BY <1>2
<1>4. ASSUME NEW s \in Slots, Serve(s) PROVE Moves
  <2>1. CASE ApplyHistory(s)
    BY <1>2, <2>1, LoadIs
  <2>2. ASSUME NEW list, NEW sending, Settle(s, list, sending) PROVE Moves
    BY <1>1, <1>2, <2>2 DEF Settle, Page
  <2>3. CASE SendAnswered(s) \/ SendRefused(s)
    BY <2>2, <2>3 DEF SendAnswered, SendRefused
  <2> QED
    BY <1>3, <1>4, <2>1, <2>3 DEF Serve, List, ListRefused, MarkRead, MarkAs, CheckSend, CreateMessage, Publish
<1>5. ASSUME NEW S, page' = Freed(S) PROVE Moves
  BY <1>2, <1>5, FreedIs
<1>6. ASSUME NEW t \in Tabs, Progress(t) PROVE Moves
  <2>1. CASE Receive(t)
    BY <1>1, <1>2, <2>1 DEF Receive, Page
  <2> QED
    BY <1>3, <1>6, <2>1 DEF Progress, Deliver, JoinArrives, LeaveArrives, TakeEvent, Connect, Connected
<1>7. ASSUME NEW t \in Tabs, Submit(t) PROVE Moves
  BY <1>1, <1>2, <1>7 DEF Submit, Page
<1>8. ASSUME NEW t \in Tabs, ClosePage(t) PROVE Moves
  <2>1. page' = [page EXCEPT ![t] = Blank(t, None, page[t].visit)]
    BY <1>8 DEF ClosePage
  <2> DEFINE p == Blank(t, None, page[t].visit)
  <2>2. p.conv = None /\ p.visit = page[t].visit /\ p.loaded = page[t].loaded
    BY <1>1, BlankIs
  <2> HIDE DEF p
  <2> QED
    BY <1>1, <2>1, <2>2 DEF Moves, p
<1>9. ASSUME NEW t \in Tabs, NEW c \in Conversations, OpenPage(t, c) PROVE Moves
  <2> DEFINE n == page[t].visit + 1
             p == Blank(t, c, n)
  <2>1. page' = [page EXCEPT ![t] = p] /\ n \in 0..MaxVisits
    BY <1>1, <1>9, Limits DEF OpenPage
  <2>2. p.visit = n /\ p.loaded = page[t].loaded
    BY <2>1, BlankIs
  <2> HIDE DEF p
  <2> QED
    BY <1>1, <2>1, <2>2 DEF Moves
<1> QED
  BY <1>3, <1>4, <1>5, <1>6, <1>7, <1>8, <1>9 DEF Next, Lose, LoseRunning, Drop, FinishJoin, Join,
       EndConnection, ReviveConnection, Crash, vars

\* A thread stays one while the log grows.
LEMMA ThreadGrows ==
  ASSUME Grows, NEW list, NEW c, Thread(list, c)
  PROVE  Thread(list, c)'
  BY DEF Grows, Thread

\* What becomes of a call: the client may stop waiting for it, and what it now
\* carries beyond what it carried is its conversation's and its members'.
LEMMA CallKept ==
  ASSUME TypeOK, TypeOK', Grows, Moves, NEW k \in Call, CallOK(k), NEW j \in Call,
         j.op # "none", j.tab = k.tab, j.conv = k.conv, j.visit \in {0, k.visit},
         j.op = "read" => k.op = "read" \/ j.conv \in page'[j.tab].loaded,
         Thread(j.rows, j.conv)',
         j.rows # <<>> \/ (j.op = "send" /\ j.pc \in {"create", "publish", "done"}) => IsMember(j.tab, j.conv),
         j.op = "send" /\ j.pc \in {"publish", "done"} => j.row \in Messages' /\ log'[j.row].conv = j.conv
  PROVE  CallOK(j)'
<1>1. k.tab \in Tabs
  BY DEF CallOK
<1>2. /\ page[k.tab].visit > 0 /\ k.visit <= page[k.tab].visit
      /\ k.visit = page[k.tab].visit /\ page[k.tab].conv # None => page[k.tab].conv = k.conv
  BY DEF CallOK
<1>3. page[k.tab].visit \in Nat /\ k.visit \in Nat
  BY <1>1, Limits DEF TypeOK, Page, Call
<1>4. /\ page'[k.tab].visit >= page[k.tab].visit
      /\ page'[k.tab].visit = page[k.tab].visit => page'[k.tab].conv \in {page[k.tab].conv, None}
  BY <1>1 DEF Moves
<1>5. page'[k.tab].visit \in Nat
  BY <1>1, Limits DEF TypeOK, Page
<1>6. j.op = "read" => j.conv \in page'[j.tab].loaded
  BY <1>1 DEF CallOK, Moves
<1> QED
  BY <1>1, <1>2, <1>3, <1>4, <1>5, <1>6 DEF CallOK, IsMember

\* Calls that stay, start, move on, are answered, lost or retried.
LEMMA CallsStep ==
  ASSUME TypeOK, CallsOK, PagesOK, [Next]_vars
  PROVE  CallsOK'
<1>1. TypeOK' /\ Grows /\ Moves
  BY TypeStep, LogGrows, PagesMove
<1> DEFINE Kept(s) == calls[s] # NoCall => CallOK(calls[s])
<1>2. ASSUME NEW s \in Slots, calls'[s] = calls[s] PROVE Kept(s)'
  <2> DEFINE k == calls[s]
  <2>1. CASE k = NoCall
    BY <1>2, <2>1 DEF NoCall
  <2>2. CASE k # NoCall
    <3>1. CallOK(k) /\ k \in Call
      BY <2>2 DEF CallsOK, TypeOK
    <3>2. \A j \in Call : j = k => CallOK(j)'
      BY <1>1, <3>1, CallKept, ThreadGrows DEF CallOK, Grows
    <3> QED
      BY <1>2, <3>1, <3>2
  <2> QED
    BY <2>1, <2>2
<1>3. ASSUME NEW s \in Slots, calls'[s] = NoCall PROVE Kept(s)'
  BY <1>3 DEF NoCall
<1>4. ASSUME NEW s \in Slots, NEW w \in Slots, calls[w] # NoCall, calls'[s].op # "none",
             calls'[s].tab = calls[w].tab, calls'[s].conv = calls[w].conv, calls'[s].visit \in {0, calls[w].visit},
             calls'[s].op = "read" => calls[w].op = "read" \/ calls[w].conv \in page'[calls[w].tab].loaded,
             Thread(calls[s].rows, calls[s].conv)',
             calls'[s].rows # <<>> \/ (calls'[s].op = "send" /\ calls'[s].pc \in {"create", "publish", "done"})
               => IsMember(calls[w].tab, calls[w].conv),
             calls'[s].op = "send" /\ calls'[s].pc \in {"publish", "done"}
               => calls'[s].row \in Messages' /\ log'[calls'[s].row].conv = calls[w].conv
      PROVE  Kept(s)'
  <2> DEFINE k == calls[w]
  <2>1. CallOK(k) /\ k \in Call /\ calls'[s] \in Call
    BY <1>1, <1>4 DEF CallsOK, TypeOK
  <2>2. ASSUME NEW j \in Call, j = calls'[s] PROVE CallOK(j)'
    BY <1>1, <1>4, <2>1, <2>2, CallKept
  <2> QED
    BY <2>1, <2>2
<1>5. ASSUME NEW s \in Slots, Kept(s)', \A w \in Slots : w # s => calls'[w] = calls[w] PROVE CallsOK'
  BY <1>2, <1>5 DEF CallsOK
<1>6. ASSUME UNCHANGED calls PROVE CallsOK'
  BY <1>2, <1>6 DEF CallsOK
<1>7. \A s \in Slots : calls[s] # NoCall => CallOK(calls[s]) /\ calls[s] \in Call /\ calls[s].op # "none"
  BY DEF CallsOK, CallOK, TypeOK
<1>8. \A s \in Slots, w \in Slots : 
        Done(s) => calls'[s] = NoCall /\ (w # s => calls'[w] = calls[w])
  BY DEF Done, TypeOK
<1>9. ASSUME NEW s \in Slots, Done(s) PROVE CallsOK'
  <2> HIDE DEF Kept
  <2> QED
    BY <1>3, <1>5, <1>8, <1>9
<1>10. ASSUME NEW c PROVE Thread(<<>>, c)'
  BY DEF Thread
<1>11. ASSUME NEW s \in Slots, NEW pc \in {"create", "publish", "done", "refused"}, Goto(s, pc), calls[s] # NoCall,
              calls[s].op = "send" /\ pc \in {"create", "publish", "done"} => IsMember(calls[s].tab, calls[s].conv),
              calls[s].op = "send" /\ pc \in {"publish", "done"} => calls[s].pc = "publish"
       PROVE  CallsOK'
  <2>1. /\ calls'[s].op = calls[s].op /\ calls'[s].pc = pc /\ calls'[s].tab = calls[s].tab
        /\ calls'[s].conv = calls[s].conv /\ calls'[s].visit = calls[s].visit
        /\ calls'[s].rows = calls[s].rows /\ calls'[s].row = calls[s].row
        /\ \A w \in Slots : w # s => calls'[w] = calls[w]
    BY <1>11, GotoIs
  <2>2. /\ Thread(calls[s].rows, calls[s].conv)
        /\ calls[s].rows # <<>> => IsMember(calls[s].tab, calls[s].conv)
        /\ calls[s].op = "send" /\ calls[s].pc = "publish"
             => calls[s].row \in Messages /\ log[calls[s].row].conv = calls[s].conv
    BY <1>7, <1>11 DEF CallOK
  <2>3. Thread(calls[s].rows, calls[s].conv)'
    <3>1. ASSUME NEW list, NEW c, list = calls[s].rows, c = calls[s].conv PROVE Thread(list, c)'
      BY <1>1, <2>2, <3>1, ThreadGrows
    <3> QED
      BY <2>1, <3>1
  <2>4. Kept(s)'
    <3> HIDE DEF Kept
    <3> QED
      BY <1>1, <1>4, <1>7, <1>11, <2>1, <2>2, <2>3 DEF Grows
  <2> HIDE DEF Kept
  <2> QED
    BY <1>5, <2>1, <2>4
<1>12. ASSUME NEW s \in Slots, List(s) PROVE CallsOK'
  <2>1. calls[s] # NoCall /\ calls[s].op = "list"
    BY <1>12, NoCallIs DEF List, At
  <2>2. CASE Goto(s, "refused")
    BY <1>11, <2>1, <2>2
  <2>3. CASE IsMember(calls[s].tab, calls[s].conv) /\
             \E rows \in Newest(calls[s].conv) : calls' = [calls EXCEPT ![s].pc = "done", ![s].rows = rows]
    <3>1. PICK rows \in Newest(calls[s].conv) : calls' = [calls EXCEPT ![s].pc = "done", ![s].rows = rows]
      BY <2>3
    <3>2. rows \in Seq(Nat) /\ Thread(rows, calls[s].conv)
      BY NewestIs
    <3> DEFINE k == [calls[s] EXCEPT !.pc = "done", !.rows = rows]
    <3>3. k \in Call /\ calls' = [calls EXCEPT ![s] = k]
      BY <3>1, <3>2, AnswerIs, ReplacedIs
    <3>4. k.op = "list" /\ k.tab = calls[s].tab /\ k.conv = calls[s].conv /\ k.visit = calls[s].visit /\ k.rows = rows
      BY <2>1, <3>2, AnswerIs
    <3> HIDE DEF k, Kept
    <3>5. calls'[s] = k /\ \A w \in Slots : w # s => calls'[w] = calls[w]
      BY <3>3 DEF TypeOK
    <3>6. ASSUME NEW list, NEW c, list = rows, c = calls[s].conv PROVE Thread(list, c)'
      BY <1>1, <3>2, <3>6, ThreadGrows
    <3>7. Thread(calls[s].rows, calls[s].conv)'
      BY <3>4, <3>5, <3>6
    <3>8. Kept(s)'
      BY <1>4, <2>1, <2>3, <3>4, <3>5, <3>7
    <3> QED
      BY <1>5, <3>5, <3>8
  <2> QED
    BY <1>12, <2>2, <2>3 DEF List, Caller
<1>13. ASSUME NEW s \in Slots, CheckSend(s) PROVE CallsOK'
  <2>1. calls[s] # NoCall /\ calls[s].op = "send"
    BY <1>13, NoCallIs DEF CheckSend, At
  <2>2. \/ Goto(s, "refused")
        \/ Goto(s, "create") /\ IsMember(calls[s].tab, calls[s].conv)
    BY <1>13 DEF CheckSend, Caller
  <2> QED
    BY <1>11, <2>1, <2>2
<1>14. ASSUME NEW s \in Slots, Publish(s) PROVE CallsOK'
  <2>1. calls[s] # NoCall /\ calls[s].op = "send" /\ calls[s].pc = "publish" /\ Goto(s, "done")
    BY <1>14, NoCallIs DEF Publish, At
  <2>2. IsMember(calls[s].tab, calls[s].conv)
    BY <1>7, <2>1 DEF CallOK
  <2> QED
    BY <1>11, <2>1, <2>2
<1>15. ASSUME NEW s \in Slots, CreateMessage(s) PROVE CallsOK'
  <2> DEFINE n == Len(log) + 1
             e == [conv |-> calls[s].conv, sender |-> Owner[Caller(s)]]
             k == [calls[s] EXCEPT !.pc = "publish", !.row = n]
  <2>1. calls[s] # NoCall /\ calls[s].op = "send" /\ calls[s].pc = "create"
    BY <1>15, NoCallIs DEF CreateMessage, At
  <2>2. /\ Thread(calls[s].rows, calls[s].conv) /\ IsMember(calls[s].tab, calls[s].conv)
    BY <1>7, <2>1 DEF CallOK
  <2>3. n \in Nat /\ Len(log) \in Nat /\ log' = Append(log, e)
    BY <1>15 DEF CreateMessage, TypeOK
  <2>4. n \in Messages' /\ log'[n] = e
    BY <1>15, <2>3 DEF TypeOK, Messages
  <2>5. e.conv = calls[s].conv
    OBVIOUS
  <2>6. calls' = [calls EXCEPT ![s].pc = "publish", ![s].row = n]
    BY <1>15 DEF CreateMessage
  <2> HIDE DEF n, e, Kept
  <2>7. k \in Call /\ calls' = [calls EXCEPT ![s] = k]
    BY <2>3, <2>6, CreatedIs, ReplacedIs
  <2>8. /\ k.op = "send" /\ k.tab = calls[s].tab /\ k.conv = calls[s].conv /\ k.visit = calls[s].visit
        /\ k.rows = calls[s].rows /\ k.row = n
    BY <2>1, <2>3, CreatedIs
  <2> HIDE DEF k
  <2>9. calls'[s] = k /\ \A w \in Slots : w # s => calls'[w] = calls[w]
    BY <2>7 DEF TypeOK
  <2>10. ASSUME NEW list, NEW c, list = calls[s].rows, c = calls[s].conv PROVE Thread(list, c)'
    BY <1>1, <2>2, <2>10, ThreadGrows
  <2>11. Thread(calls[s].rows, calls[s].conv)'
    BY <2>8, <2>9, <2>10
  <2>12. Kept(s)'
    BY <1>4, <2>1, <2>2, <2>4, <2>5, <2>8, <2>9, <2>11
  <2> QED
    BY <1>5, <2>9, <2>12
<1>16. ASSUME NEW s \in Slots, Again(s) # NoCall, NEW w \in Slots, calls'[w] = Again(s), calls[s] # NoCall
       PROVE  Kept(w)'
  <2> DEFINE k == Again(s)
  <2>1. /\ k.op = calls[s].op /\ k.pc = "sent" /\ k.tab = calls[s].tab /\ k.conv = calls[s].conv
        /\ k.visit = calls[s].visit /\ k.rows = <<>>
    BY <1>7, <1>16, AgainIs
  <2> HIDE DEF k, Kept
  <2>2. calls'[w] = k
    BY <1>16 DEF k
  <2>3. Thread(calls[w].rows, calls[w].conv)'
    BY <1>10, <2>1, <2>2
  <2> QED
    BY <1>4, <1>7, <1>16, <2>1, <2>2, <2>3
<1>17. ASSUME NEW s \in Slots, NEW w \in Slots, calls'[w] = Again(s), calls[s] # NoCall PROVE Kept(w)'
  <2> HIDE DEF Kept
  <2> QED
    BY <1>3, <1>16, <1>17
<1>18. ASSUME NEW s \in Slots, Lose(s) PROVE CallsOK'
  <2>1. calls[s] # NoCall /\ calls' = [calls EXCEPT ![s] = Again(s)]
    BY <1>18, NoCallIs DEF Lose
  <2>2. calls'[s] = Again(s) /\ \A w \in Slots : w # s => calls'[w] = calls[w]
    BY <2>1 DEF TypeOK
  <2> HIDE DEF Kept
  <2> QED
    BY <1>5, <1>17, <2>1, <2>2
<1>19. ASSUME NEW s \in Slots, NEW o \in Slots, LoseRunning(s, o) PROVE CallsOK'
  <2> DEFINE k == [calls[s] EXCEPT !.visit = 0, !.attempt = MaxAttempts]
  <2>1. /\ calls[s] # NoCall /\ s # o /\ calls' = [calls EXCEPT ![o] = k, ![s] = Again(s)]
    BY <1>19, NoCallIs DEF LoseRunning, FreeSlots
  <2>2. calls'[s] = Again(s) /\ calls'[o] = k /\ \A w \in Slots : w # s /\ w # o => calls'[w] = calls[w]
    BY <2>1 DEF TypeOK
  <2>3. /\ k.op = calls[s].op /\ k.pc = calls[s].pc /\ k.tab = calls[s].tab /\ k.conv = calls[s].conv
        /\ k.visit = 0 /\ k.rows = calls[s].rows /\ k.row = calls[s].row
    BY DEF TypeOK, Call
  <2> HIDE DEF k, Kept
  <2>4. CallOK(calls[s]) /\ calls[s].op # "none"
    BY <1>7, <2>1
  <2>5. ASSUME NEW list, NEW c, list = calls[s].rows, c = calls[s].conv PROVE Thread(list, c)'
    BY <1>1, <2>4, <2>5, ThreadGrows DEF CallOK
  <2>6. Thread(calls[o].rows, calls[o].conv)'
    BY <2>2, <2>3, <2>5
  <2>7. /\ calls[s].rows # <<>> \/ (calls[s].op = "send" /\ calls[s].pc \in {"create", "publish", "done"})
             => IsMember(calls[s].tab, calls[s].conv)
        /\ calls[s].op = "send" /\ calls[s].pc \in {"publish", "done"}
             => calls[s].row \in Messages' /\ log'[calls[s].row].conv = calls[s].conv
    BY <1>1, <2>4 DEF CallOK, Grows
  <2>8. Kept(o)'
    BY <1>4, <2>1, <2>2, <2>3, <2>4, <2>6, <2>7
  <2>9. Kept(s)'
    BY <1>17, <2>1, <2>2
  <2> QED
    BY <1>2, <2>2, <2>8, <2>9 DEF CallsOK, Kept
<1>20. CASE Crash
  <2>1. \A s \in Slots : calls'[s] = NoCall \/ (calls[s] # NoCall /\ calls'[s] = Again(s))
    BY <1>20 DEF Crash
  <2>2. \A s \in Slots : Kept(s)'
    <3> HIDE DEF Kept
    <3> QED
      BY <1>3, <1>17, <2>1
  <2> QED
    BY <2>2 DEF CallsOK
<1>21. ASSUME NEW s \in Slots, NEW t \in Tabs, NEW c \in Conversations,
              calls'[s].op # "none", calls'[s].pc = "sent", calls'[s].tab = t, calls'[s].conv = c, calls'[s].rows = <<>>,
              page'[t].visit > 0, calls'[s].visit <= page'[t].visit, calls'[s].op # "read",
              calls'[s].visit = page'[t].visit /\ page'[t].conv # None => page'[t].conv = c
       PROVE  Kept(s)'
  <2>1. Thread(calls[s].rows, calls[s].conv)'
    BY <1>10, <1>21
  <2> QED
    BY <1>21, <2>1 DEF CallOK
<1>22. ASSUME NEW t \in Tabs, NEW op \in CallOps \ {"read"}, NEW c \in Conversations, NEW n \in Visits, Begin(t, op, c, n),
              page'[t].visit = n, n > 0, page'[t].conv = c
       PROVE  CallsOK'
  <2>1. PICK s \in Slots : /\ calls'[s] = NewCall(t, op, c, n)
                           /\ \A w \in Slots : w # s => calls'[w] = calls[w]
    BY <1>22, BeginIs DEF Callers, Chats
  <2> DEFINE k == NewCall(t, op, c, n)
  <2>2. /\ k.op # "none" /\ k.op # "read" /\ k.pc = "sent" /\ k.tab = t /\ k.conv = c /\ k.visit = n /\ k.rows = <<>>
    <3>1. t \in Callers /\ c \in Chats /\ op # "none" /\ op # "read" /\ op \in CallOps
      BY DEF Callers, Chats, CallOps
    <3> QED
      BY <3>1, NewCallIs
  <2> HIDE DEF Kept, k
  <2>3. calls'[s] = k /\ n \in Nat
    BY <2>1, Limits DEF k, Visits
  <2>4. Kept(s)'
    BY <1>21, <1>22, <2>2, <2>3
  <2> QED
    BY <1>5, <2>1, <2>4
<1>23. ASSUME NEW t \in Tabs, Submit(t) PROVE CallsOK'
  <2>1. /\ page[t].conv \in Conversations /\ page[t].visit \in Visits /\ page[t].visit > 0
    BY <1>23 DEF Submit, TypeOK, Page, Visits, PagesOK, PageOK
  <2>2. page'[t].conv = page[t].conv /\ page'[t].visit = page[t].visit
    BY <1>23 DEF Submit, TypeOK, Page
  <2>3. Begin(t, "send", page[t].conv, page[t].visit)
    BY <1>23 DEF Submit, Begin
  <2> QED
    BY <1>22, <2>1, <2>2, <2>3 DEF CallOps
<1>24. ASSUME NEW t \in Tabs, NEW c \in Conversations, OpenPage(t, c) PROVE CallsOK'
  <2> DEFINE n == page[t].visit + 1
             p == Blank(t, c, n)
  <2>1. n \in 0..MaxVisits /\ n > 0
    BY <1>24, Limits DEF OpenPage, TypeOK, Page
  <2>2. p.conv = c /\ p.visit = n
    BY <2>1, BlankIs
  <2>3. Begin(t, "list", c, n) /\ page' = [page EXCEPT ![t] = p]
    BY <1>24 DEF OpenPage, Begin
  <2> HIDE DEF n, p
  <2>4. page'[t].conv = c /\ page'[t].visit = n
    BY <2>2, <2>3 DEF TypeOK
  <2> QED
    BY <1>22, <2>1, <2>3, <2>4 DEF CallOps, Visits
<1>25. ASSUME NEW s \in Slots, ApplyHistory(s) PROVE CallsOK'
  <2>1. calls[s] # NoCall /\ CallOK(calls[s])
    BY <1>7, <1>25, NoCallIs DEF ApplyHistory, Load, At
  <2> DEFINE k == NewCall(calls[s].tab, "read", calls[s].conv, calls[s].visit)
  <2>2. calls' = [calls EXCEPT ![s] = k]
    BY <1>25 DEF ApplyHistory, Load, Caller
  <2>3. /\ k.op = "read" /\ k.pc = "sent" /\ k.tab = calls[s].tab /\ k.conv = calls[s].conv
        /\ k.visit = calls[s].visit /\ k.rows = <<>>
    <3>1. "read" \in CallOps /\ calls[s].tab \in Callers /\ calls[s].conv \in Chats /\ calls[s].visit \in Visits
      BY DEF TypeOK, Call, CallOps, Callers, Chats, Visits
    <3> QED
      BY <3>1, NewCallIs
  <2> HIDE DEF k, Kept
  <2>4. calls'[s] = k /\ \A w \in Slots : w # s => calls'[w] = calls[w]
    BY <2>2 DEF TypeOK
  <2>5. Thread(calls[s].rows, calls[s].conv)'
    BY <1>10, <2>3, <2>4
  <2>6. calls[s].conv \in page'[calls[s].tab].loaded
    BY <1>25, <2>1, LoadIs DEF CallOK, Caller
  <2>7. Kept(s)'
    BY <1>4, <2>1, <2>3, <2>4, <2>5, <2>6
  <2> QED
    BY <1>5, <2>4, <2>7
<1>26. ASSUME NEW s \in Slots, Serve(s) PROVE CallsOK'
  BY <1>9, <1>12, <1>13, <1>14, <1>15, <1>25, <1>26
     DEF Serve, ListRefused, MarkRead, MarkAs, SendAnswered, SendRefused, Settle
<1> QED
  BY <1>6, <1>18, <1>19, <1>20, <1>23, <1>24, <1>26
     DEF Next, Progress, Deliver, JoinArrives, LeaveArrives, TakeEvent, Receive, Connect, Connected, Drop, ClosePage,
         FinishJoin, Join, EndConnection, ReviveConnection, vars

\* Pages that stay, open, close, load, send and receive.
LEMMA PagesStep ==
  ASSUME TypeOK, CallsOK, PagesOK, SocketsOK, [Next]_vars
  PROVE  PagesOK'
<1>1. TypeOK' /\ Grows /\ Moves
  BY TypeStep, LogGrows, PagesMove
<1>2. \A t \in Tabs : page[t] \in Page /\ PageOK(t)
  BY DEF PagesOK, TypeOK
<1>3. ASSUME NEW t \in Tabs, page'[t].visit = page[t].visit, page'[t].conv = page[t].conv,
             Thread(page[t].shown, page[t].conv)',
             page'[t].shown # <<>> => page[t].conv # None /\ IsMember(t, page[t].conv)
      PROVE  PageOK(t)'
  BY <1>2, <1>3 DEF PageOK, IsMember
<1>4. ASSUME NEW t \in Tabs, page'[t].visit = page[t].visit, page'[t].conv = page[t].conv, page'[t].shown = page[t].shown
      PROVE  PageOK(t)'
  <2>1. Thread(page[t].shown, page[t].conv) /\ (page[t].shown # <<>> => page[t].conv # None /\ IsMember(t, page[t].conv))
    BY <1>2 DEF PageOK
  <2>2. ASSUME NEW list, NEW c, list = page[t].shown, c = page[t].conv PROVE Thread(list, c)'
    BY <1>1, <2>1, <2>2, ThreadGrows
  <2>3. Thread(page[t].shown, page[t].conv)'
    BY <1>4, <2>2
  <2> QED
    BY <1>3, <1>4, <2>1, <2>3
<1>5. ASSUME page' = page PROVE PagesOK'
  BY <1>4, <1>5 DEF PagesOK
<1>6. ASSUME NEW t \in Tabs, PageOK(t)', \A o \in Tabs : o # t => page'[o] = page[o] PROVE PagesOK'
  BY <1>4, <1>6 DEF PagesOK
<1>7. ASSUME NEW t \in Tabs, page'[t].shown = <<>>, page'[t].conv # None => page'[t].visit > 0 PROVE PageOK(t)'
  BY <1>7 DEF PageOK, Thread
<1>8. ASSUME NEW S, page' = Freed(S) PROVE PagesOK'
  BY <1>4, <1>8, FreedIs DEF PagesOK

\* a list put on the screen of a page
<1>9. ASSUME NEW t \in Tabs, NEW list \in Seq(Nat), page[t].conv # None, Thread(list, page[t].conv),
             list # <<>> => IsMember(t, page[t].conv),
             page'[t].visit = page[t].visit, page'[t].conv = page[t].conv, page'[t].shown = list,
             \A o \in Tabs : o # t => page'[o] = page[o]
      PROVE  PagesOK'
  <2>1. ASSUME NEW c, c = page[t].conv PROVE Thread(list, c)'
    BY <1>1, <1>9, <2>1, ThreadGrows
  <2>2. Thread(page[t].shown, page[t].conv)'
    BY <1>9, <2>1
  <2>3. PageOK(t)'
    BY <1>3, <1>9, <2>2
  <2> QED
    BY <1>6, <1>9, <2>3
<1>10. \A s \in Slots : calls[s] # NoCall =>
         /\ CallOK(calls[s]) /\ calls[s] \in Call /\ calls[s].tab \in Tabs
         /\ OnPage(s) => page[calls[s].tab].conv = calls[s].conv /\ page[calls[s].tab].conv # None
  BY DEF CallsOK, CallOK, OnPage, Caller, TypeOK
<1>11. ASSUME NEW s \in Slots, ApplyHistory(s) PROVE PagesOK'
  <2>1. CASE ~OnPage(s)
    BY <1>4, <1>11, <2>1, LoadIs DEF PagesOK
  <2>2. CASE OnPage(s)
    <3> DEFINE t == calls[s].tab
    <3>1. calls[s] # NoCall
      BY <1>11, NoCallIs DEF ApplyHistory, Load, At
    <3>2. t \in Tabs /\ page[t].conv = calls[s].conv /\ page[t].conv # None /\ CallOK(calls[s]) /\ calls[s].rows \in Seq(Nat)
      BY <1>10, <2>2, <3>1 DEF Call
    <3>4. /\ page'[t].visit = page[t].visit /\ page'[t].conv = page[t].conv /\ page'[t].shown = calls[s].rows
          /\ \A o \in Tabs : o # t => page'[o] = page[o]
      BY <1>11, <2>2, <3>2, LoadIs DEF Caller
    <3> HIDE DEF t
    <3>5. Thread(calls[s].rows, page[t].conv) /\ (calls[s].rows # <<>> => IsMember(t, page[t].conv))
      BY <3>2 DEF CallOK, t
    <3> QED
      BY <1>9, <3>2, <3>4, <3>5
  <2> QED
    BY <2>1, <2>2
<1>12. ASSUME NEW s \in Slots, SendAnswered(s) \/ SendRefused(s) PROVE PagesOK'
  <2>1. CASE ~OnPage(s)
    BY <1>5, <1>12, <2>1 DEF SendAnswered, SendRefused, Settle
  <2>2. CASE OnPage(s)
    <3> DEFINE t == calls[s].tab
    <3>1. calls[s] # NoCall
      BY <1>12, NoCallIs DEF SendAnswered, SendRefused, At
    <3>2. t \in Tabs /\ page[t].conv = calls[s].conv /\ page[t].conv # None /\ CallOK(calls[s])
      BY <1>10, <2>2, <3>1
    <3>3. page[t].shown \in Seq(Nat) /\ Thread(page[t].shown, page[t].conv) /\
          (page[t].shown # <<>> => IsMember(t, page[t].conv))
      BY <1>2, <3>2 DEF PageOK, Page
    <3>4. \E list \in Seq(Nat) : /\ page' = [page EXCEPT ![t].shown = list, ![t].sending = FALSE]
                                /\ Thread(list, page[t].conv) /\ (list # <<>> => IsMember(t, page[t].conv))
      <4>1. CASE SendRefused(s)
        BY <2>2, <3>3, <4>1 DEF SendRefused, Settle, Caller
      <4>2. CASE SendAnswered(s)
        <5> DEFINE list == Shown(page[t].shown, calls[s].row)
        <5>1. page' = [page EXCEPT ![t].shown = list, ![t].sending = FALSE] /\ calls[s].op = "send" /\ calls[s].pc = "done"
          BY <2>2, <4>2 DEF SendAnswered, Settle, Caller, At
        <5>2. calls[s].row \in Messages /\ log[calls[s].row].conv = calls[s].conv /\ IsMember(t, page[t].conv)
          BY <3>2, <5>1 DEF CallOK
        <5>3. list \in Seq(Nat) /\ Thread(list, page[t].conv)
          BY <3>2, <3>3, <5>2, ShownIs
        <5> QED
          BY <5>1, <5>2, <5>3
      <4> QED
        BY <1>12, <4>1, <4>2
    <3>5. PICK list \in Seq(Nat) : /\ page' = [page EXCEPT ![t].shown = list, ![t].sending = FALSE]
                                  /\ Thread(list, page[t].conv) /\ (list # <<>> => IsMember(t, page[t].conv))
      BY <3>4
    <3> HIDE DEF t
    <3>6. /\ page'[t].visit = page[t].visit /\ page'[t].conv = page[t].conv /\ page'[t].shown = list
          /\ \A o \in Tabs : o # t => page'[o] = page[o]
      BY <3>2, <3>5 DEF TypeOK, Page
    <3> QED
      BY <1>9, <3>2, <3>5, <3>6
  <2> QED
    BY <2>1, <2>2
<1>13. ASSUME NEW s \in Slots, Serve(s) PROVE PagesOK'
  BY <1>5, <1>11, <1>12, <1>13
     DEF Serve, List, ListRefused, MarkRead, MarkAs, CheckSend, CreateMessage, Publish
<1>14. ASSUME NEW t \in Tabs, Receive(t) PROVE PagesOK'
  <2> DEFINE m == Head(socket[t].in)
  <2>1. CASE ~OpenOn(t, log[m].conv)
    BY <1>5, <1>14, <2>1 DEF Receive
  <2>2. CASE OpenOn(t, log[m].conv)
    <3>1. m \in Messages /\ IsMember(t, log[m].conv)
      <4>1. socket[t].in # <<>> /\ socket[t].in \in Seq(Nat)
        BY <1>14, SocketParts DEF Receive
      <4>2. 1 \in 1..Len(socket[t].in) /\ m = socket[t].in[1]
        BY <4>1
      <4> QED
        BY <4>2 DEF SocketsOK, SocketOK
    <3>2. log[m].conv \in Conversations
      BY <3>1, MessageIs
    <3>3. page[t].conv = log[m].conv /\ page[t].conv # None
      BY <2>2, <3>2, NoneIsNoConversation DEF OpenOn
    <3>4. page[t].shown \in Seq(Nat) /\ Thread(page[t].shown, page[t].conv)
      BY <1>2 DEF PageOK, Page
    <3> DEFINE list == Shown(page[t].shown, m)
    <3>5. list \in Seq(Nat) /\ Thread(list, page[t].conv)
      BY <3>1, <3>3, <3>4, ShownIs
    <3>6. page' = [page EXCEPT ![t].shown = list]
      BY <1>14, <2>2 DEF Receive
    <3> HIDE DEF list
    <3>7. /\ page'[t].visit = page[t].visit /\ page'[t].conv = page[t].conv /\ page'[t].shown = list
          /\ \A o \in Tabs : o # t => page'[o] = page[o]
      BY <3>6 DEF TypeOK, Page
    <3> QED
      BY <1>9, <3>1, <3>3, <3>5, <3>7
  <2> QED
    BY <2>1, <2>2
<1>15. ASSUME NEW t \in Tabs, Submit(t) PROVE PagesOK'
  BY <1>4, <1>15 DEF Submit, PagesOK, TypeOK, Page
<1>16. ASSUME NEW t \in Tabs, ClosePage(t) PROVE PagesOK'
  <2> DEFINE p == Blank(t, None, page[t].visit)
  <2>1. page' = [page EXCEPT ![t] = p]
    BY <1>16 DEF ClosePage
  <2>2. p.shown = <<>> /\ p.conv = None
    BY <1>2, BlankIs DEF Page
  <2> HIDE DEF p
  <2>3. page'[t] = p /\ \A o \in Tabs : o # t => page'[o] = page[o]
    BY <2>1 DEF TypeOK
  <2> QED
    BY <1>6, <1>7, <2>2, <2>3
<1>17. ASSUME NEW t \in Tabs, NEW c \in Conversations, OpenPage(t, c) PROVE PagesOK'
  <2> DEFINE n == page[t].visit + 1
             p == Blank(t, c, n)
  <2>1. n \in 0..MaxVisits /\ n > 0
    BY <1>17, Limits DEF OpenPage, TypeOK, Page
  <2>2. p.shown = <<>> /\ p.visit = n
    <3>1. n \in 0..MaxVisits
      BY <2>1
    <3> HIDE DEF n
    <3> QED
      BY <3>1, BlankIs
  <2>3. page' = [page EXCEPT ![t] = p]
    BY <1>17 DEF OpenPage
  <2> HIDE DEF n, p
  <2>4. page'[t] = p /\ \A o \in Tabs : o # t => page'[o] = page[o]
    BY <2>3 DEF TypeOK
  <2> QED
    BY <1>6, <1>7, <2>1, <2>2, <2>4
<1> QED
  BY <1>5, <1>8, <1>13, <1>14, <1>15, <1>16, <1>17
     DEF Next, Progress, Deliver, JoinArrives, LeaveArrives, TakeEvent, Connect, Connected, Drop, Lose, LoseRunning, Crash,
         FinishJoin, Join, EndConnection, ReviveConnection, vars

\* Sockets that stay, are told more, join, are told of a message, receive, break.
LEMMA SocketsStep ==
  ASSUME TypeOK, CallsOK, SocketsOK, [Next]_vars
  PROVE  SocketsOK'
<1>1. Grows
  BY LogGrows
<1>2. \A t \in Tabs : SocketOK(t)
  BY DEF SocketsOK
<1> DEFINE In(t, list) == \A i \in 1..Len(list) : list[i] \in Messages' /\ IsMember(t, log'[list[i]].conv)
<1>3. ASSUME NEW t \in Tabs, \A c \in socket'[t].rooms : c \in socket[t].rooms \/ IsMember(t, c), In(t, socket'[t].in)
      PROVE  SocketOK(t)'
  BY <1>2, <1>3 DEF SocketOK, IsMember
<1>4. \A t \in Tabs : In(t, socket[t].in)
  BY <1>1, <1>2 DEF SocketOK, Grows, IsMember
<1> HIDE DEF In
<1>5. ASSUME NEW t \in Tabs, \A c \in socket'[t].rooms : c \in socket[t].rooms \/ IsMember(t, c), socket'[t].in = socket[t].in
      PROVE  SocketOK(t)'
  BY <1>3, <1>4, <1>5
<1>6. ASSUME UNCHANGED socket PROVE SocketsOK'
  BY <1>5, <1>6 DEF SocketsOK
<1>7. ASSUME NEW t \in Tabs, SocketOK(t)', \A o \in Tabs : o # t => socket'[o] = socket[o] PROVE SocketsOK'
  BY <1>5, <1>7 DEF SocketsOK
<1>8. ASSUME NEW t \in Tabs, NEW out, socket'[t] = Down(out) PROVE SocketOK(t)'
  BY <1>8 DEF Down, SocketOK
<1>9. socket \in [Tabs -> Socket]
  BY DEF TypeOK
<1>10. ASSUME NEW t \in Tabs, NEW c \in Conversations, JoinArrives(t, c) PROVE SocketsOK'
  BY <1>5, <1>9, <1>10 DEF JoinArrives, TakeEvent, Socket, SocketsOK
<1>11. ASSUME NEW t \in Tabs, NEW c \in Conversations, LeaveArrives(t, c) PROVE SocketsOK'
  BY <1>5, <1>9, <1>11 DEF LeaveArrives, TakeEvent, Socket, SocketsOK
<1>12. ASSUME NEW t \in Tabs, NEW c \in Conversations, FinishJoin(t, c) PROVE SocketsOK'
  BY <1>5, <1>9, <1>12 DEF FinishJoin, Join, Socket, SocketsOK
<1>13. ASSUME NEW t \in Tabs, Connect(t) PROVE SocketsOK'
  BY <1>5, <1>9, <1>13 DEF Connect, Connected, Socket, SocketsOK
<1>14. ASSUME NEW t \in Tabs, NEW c \in Conversations, OpenPage(t, c) PROVE SocketsOK'
  BY <1>5, <1>6, <1>9, <1>14 DEF OpenPage, Socket, SocketsOK
<1>15. ASSUME NEW t \in Tabs, ClosePage(t) PROVE SocketsOK'
  BY <1>5, <1>9, <1>15 DEF ClosePage, Socket, SocketsOK
<1>16. ASSUME NEW t \in Tabs, Drop(t) PROVE SocketsOK'
  BY <1>7, <1>8, <1>9, <1>16 DEF Drop
<1>17. CASE Crash
  BY <1>5, <1>8, <1>17 DEF Crash, SocketsOK
<1>18. ASSUME NEW t \in Tabs, Receive(t) PROVE SocketsOK'
  <2> DEFINE list == Tail(socket[t].in)
  <2>1. socket[t].in \in Seq(Nat) /\ socket[t].in # <<>>
    BY <1>18, SocketParts DEF Receive
  <2>2. \A i \in 1..Len(list) : i + 1 \in 1..Len(socket[t].in) /\ list[i] = socket[t].in[i + 1]
    BY <2>1
  <2>3. In(t, list)
    BY <1>4, <2>2 DEF In
  <2>4. socket' = [socket EXCEPT ![t].in = list]
    BY <1>18 DEF Receive
  <2> HIDE DEF list
  <2>5. /\ socket'[t].rooms = socket[t].rooms /\ socket'[t].in = list
        /\ \A o \in Tabs : o # t => socket'[o] = socket[o]
    BY <1>9, <2>4 DEF Socket
  <2>6. SocketOK(t)'
    BY <1>3, <2>3, <2>5
  <2> QED
    BY <1>7, <2>5, <2>6
<1>19. ASSUME NEW s \in Slots, Publish(s) PROVE SocketsOK'
  <2> DEFINE m == calls[s].row
             c == calls[s].conv
  <2>1. m \in Messages /\ log[m].conv = c
    BY <1>19, NoCallIs DEF Publish, At, CallsOK, CallOK
  <2>2. m \in Messages' /\ log'[m].conv = c /\ m \in Nat
    BY <1>1, <2>1 DEF Grows, Messages
  <2>3. \A t \in Tabs : socket'[t] = IF c \in socket[t].rooms THEN [socket[t] EXCEPT !.in = Append(@, m)] ELSE socket[t]
    BY <1>19 DEF Publish, Broadcast
  <2> HIDE DEF m, c
  <2>4. ASSUME NEW t \in Tabs, c \in socket[t].rooms PROVE SocketOK(t)'
    <3> DEFINE list == Append(socket[t].in, m)
    <3>1. socket'[t].rooms = socket[t].rooms /\ socket'[t].in = list
      BY <1>9, <2>3, <2>4 DEF Socket
    <3>2. IsMember(t, c)
      BY <1>2, <2>4 DEF SocketOK
    <3>3. socket[t].in \in Seq(Nat)
      BY SocketParts
    <3>4. \A i \in 1..Len(list) : list[i] = m \/ (i \in 1..Len(socket[t].in) /\ list[i] = socket[t].in[i])
      BY <2>2, <3>3
    <3> HIDE DEF list
    <3>5. In(t, list)
      BY <1>4, <2>2, <3>2, <3>4 DEF In
    <3> QED
      BY <1>3, <3>1, <3>5
  <2>5. ASSUME NEW t \in Tabs, c \notin socket[t].rooms PROVE SocketOK(t)'
    BY <1>5, <2>3, <2>5
  <2> QED
    BY <2>4, <2>5 DEF SocketsOK
<1>20. ASSUME NEW s \in Slots, Serve(s) PROVE SocketsOK'
  BY <1>6, <1>19, <1>20
     DEF Serve, List, ListRefused, ApplyHistory, Load, MarkRead, MarkAs, CheckSend, CreateMessage, SendAnswered,
         SendRefused, Settle
<1> QED
  BY <1>6, <1>10, <1>11, <1>12, <1>13, <1>14, <1>15, <1>16, <1>17, <1>18, <1>20
     DEF Next, Progress, Deliver, Lose, LoseRunning, Submit, EndConnection, ReviveConnection, vars

\* A message is created for a call that has passed its checks.
LEMMA WrittenStep ==
  ASSUME TypeOK, CallsOK, Written, [Next]_vars
  PROVE  Written'
<1>1. CASE Messages' = Messages /\ log' = log
  BY <1>1 DEF Written
<1>2. ASSUME NEW s \in Slots, CreateMessage(s) PROVE Written'
  <2> DEFINE e == [conv |-> calls[s].conv, sender |-> Owner[calls[s].tab]]
  <2>1. IsMember(calls[s].tab, calls[s].conv)
    BY <1>2, NoCallIs DEF CreateMessage, At, CallsOK, CallOK
  <2>2. log' = Append(log, e) /\ Len(log) \in Nat
    BY <1>2 DEF CreateMessage, Caller, TypeOK
  <2>3. e.sender \in Members[e.conv]
    BY <2>1 DEF IsMember
  <2> HIDE DEF e
  <2>4. \A m \in Messages' : (m \in Messages /\ log'[m] = log[m]) \/ log'[m] = e
    BY <2>2 DEF Messages, TypeOK
  <2> QED
    BY <2>3, <2>4 DEF Written
<1>3. ASSUME NEW s \in Slots, Serve(s), ~CreateMessage(s) PROVE log' = log
  BY <1>3 DEF Serve, List, ApplyHistory, Load, ListRefused, MarkRead, MarkAs, CheckSend, Publish,
       SendAnswered, SendRefused, Settle
<1>4. ASSUME NEW t \in Tabs, Progress(t) PROVE log' = log
  BY <1>4 DEF Progress, Deliver, JoinArrives, LeaveArrives, TakeEvent, Receive, Connect, Connected
<1>5. (\E s \in Slots : CreateMessage(s)) \/ log' = log
  BY <1>3, <1>4 DEF Next, Lose, LoseRunning, Drop, Submit, ClosePage, OpenPage, FinishJoin, Join,
       EndConnection, ReviveConnection, Crash, vars
<1> QED
  BY <1>1, <1>2, <1>5 DEF Messages

\* messages/read marks what the other member has sent.
LEMMA ReadStep ==
  ASSUME TypeOK, CallsOK, ReadByOther, [Next]_vars
  PROVE  ReadByOther'
<1>1. TypeOK' /\ Grows /\ Moves
  BY TypeStep, LogGrows, PagesMove
<1> DEFINE Seen(m) == \E t \in Tabs : IsMember(t, log[m].conv) /\ Owner[t] # log[m].sender /\ log[m].conv \in page[t].loaded
<1>3. ASSUME NEW m \in Messages, Seen(m) PROVE Seen(m)'
  BY <1>1, <1>3 DEF Grows, Moves, IsMember
<1>4. \A m \in read : m \in Messages /\ Seen(m)
  BY DEF ReadByOther, TypeOK
<1>5. CASE read' = read
  BY <1>3, <1>4, <1>5 DEF ReadByOther
<1>6. ASSUME NEW s \in Slots, MarkRead(s) PROVE ReadByOther'
  <2> DEFINE t == calls[s].tab
  <2>1. t \in Tabs /\ calls[s].conv \in page[t].loaded
    BY <1>6, NoCallIs DEF MarkRead, MarkAs, At, CallsOK, CallOK
  <2>2. /\ IsMember(t, calls[s].conv)
        /\ read' = read \cup {m \in MessagesOf(calls[s].conv) : log[m].sender # Owner[t]}
    BY <1>6 DEF MarkRead, MarkAs, Caller
  <2>3. \A m \in read' : m \in Messages /\ Seen(m)
    BY <1>4, <2>1, <2>2 DEF MessagesOf
  <2> QED
    BY <1>3, <2>3 DEF ReadByOther
<1>7. (\E s \in Slots : MarkRead(s)) \/ read' = read
  <2>1. ASSUME NEW s \in Slots, Serve(s), ~MarkRead(s) PROVE read' = read
    BY <2>1 DEF Serve, List, ApplyHistory, Load, ListRefused, CreateMessage, CheckSend, Publish,
         SendAnswered, SendRefused, Settle
  <2>2. ASSUME NEW t \in Tabs, Progress(t) PROVE read' = read
    BY <2>2 DEF Progress, Deliver, JoinArrives, LeaveArrives, TakeEvent, Receive, Connect, Connected
  <2> QED
    BY <2>1, <2>2 DEF Next, Lose, LoseRunning, Drop, Submit, ClosePage, OpenPage, FinishJoin, Join,
         EndConnection, ReviveConnection, Crash, vars
<1> QED
  BY <1>5, <1>6, <1>7

-----------------------------------------------------------------------------
(* Loads *)

\* A visit of a page has one load, and it is over once its history is on screen.
Loads == {s \in Slots : calls[s].op = "list"}
OneLoad ==
  \A s \in Loads :
    /\ calls[s].pc \in {"sent", "done", "refused"}
    /\ page[Caller(s)].visit = calls[s].visit => ~page[Caller(s)].applied
    /\ \A w \in Loads : Caller(w) = Caller(s) /\ calls[w].visit = calls[s].visit => w = s

\* At most one history request a visit, kept by every step.
LEMMA LoadsStep ==
  ASSUME TypeOK, CallsOK, OneLoad, [Next]_vars
  PROVE  OneLoad'
<1> DEFINE Kept == \A s \in Slots : calls'[s].op = "list" =>
              /\ calls[s].op = "list" /\ calls'[s].tab = calls[s].tab /\ calls'[s].visit = calls[s].visit
              /\ calls'[s].pc \in {"sent", "done", "refused"}
           Unloaded(T) == \A t \in T : page'[t].applied => page[t].applied /\ page'[t].visit = page[t].visit
<1>1. \A s \in Slots : calls[s].op = "list" =>
        /\ calls[s] \in Call /\ CallOK(calls[s]) /\ calls[s].tab \in Tabs /\ calls[s].pc \in {"sent", "done", "refused"}
        /\ page[calls[s].tab].visit \in Nat /\ calls[s].visit \in Nat /\ calls[s].visit <= page[calls[s].tab].visit
  <2> SUFFICES ASSUME NEW s \in Slots, calls[s].op = "list"
               PROVE  /\ calls[s] \in Call /\ CallOK(calls[s]) /\ calls[s].tab \in Tabs
                      /\ calls[s].pc \in {"sent", "done", "refused"} /\ page[calls[s].tab].visit \in Nat
                      /\ calls[s].visit \in Nat /\ calls[s].visit <= page[calls[s].tab].visit
    OBVIOUS
  <2>1. calls[s] \in Call /\ CallOK(calls[s]) /\ calls[s].pc \in {"sent", "done", "refused"}
    BY NoCallIs DEF OneLoad, Loads, CallsOK, TypeOK
  <2>2. calls[s].tab \in Tabs /\ calls[s].visit <= page[calls[s].tab].visit
    BY <2>1 DEF CallOK
  <2> QED
    BY <2>1, <2>2, Limits DEF TypeOK, Page, Call
<1>2. ASSUME Kept, Unloaded(Tabs) PROVE OneLoad'
  BY <1>1, <1>2 DEF OneLoad, Loads, Caller
<1>3. UNCHANGED calls => Kept
  BY <1>1
<1>4. ASSUME NEW s \in Slots, \A w \in Slots : w # s => calls'[w] = calls[w],
             calls'[s].op = "list" =>
               /\ calls[s].op = "list" /\ calls'[s].tab = calls[s].tab /\ calls'[s].visit = calls[s].visit
               /\ calls'[s].pc \in {"sent", "done", "refused"}
      PROVE  Kept
  BY <1>1, <1>4
<1> HIDE DEF Kept
<1>5. /\ page' = page => Unloaded(Tabs)
      /\ \A S : page' = Freed(S) => Unloaded(Tabs)
  BY FreedIs
<1>6. ASSUME NEW s \in Slots, Done(s) PROVE Kept
  <2>1. calls'[s] = NoCall /\ \A w \in Slots : w # s => calls'[w] = calls[w]
    BY <1>6 DEF Done, TypeOK
  <2> QED
    BY <1>4, <2>1, NoCallIs
<1>7. ASSUME NEW s \in Slots, NEW pc \in {"create", "publish", "done", "refused"}, Goto(s, pc),
             calls[s].op # "list" \/ pc \in {"done", "refused"}
      PROVE  Kept
  <2>1. /\ calls'[s].op = calls[s].op /\ calls'[s].pc = pc /\ calls'[s].tab = calls[s].tab
        /\ calls'[s].visit = calls[s].visit /\ \A w \in Slots : w # s => calls'[w] = calls[w]
    BY <1>7, GotoIs
  <2> QED
    BY <1>4, <1>7, <2>1
<1>8. ASSUME NEW s \in Slots, List(s) PROVE OneLoad'
  <2>1. Unloaded(Tabs) /\ calls[s].op = "list"
    BY <1>5, <1>8 DEF List, At
  <2>2. CASE Goto(s, "refused")
    BY <1>2, <1>7, <2>1, <2>2
  <2>3. CASE \E rows \in Newest(calls[s].conv) : calls' = [calls EXCEPT ![s].pc = "done", ![s].rows = rows]
    <3>1. PICK rows \in Newest(calls[s].conv) : calls' = [calls EXCEPT ![s].pc = "done", ![s].rows = rows]
      BY <2>3
    <3>2. rows \in Seq(Nat)
      BY NewestIs
    <3> DEFINE k == [calls[s] EXCEPT !.pc = "done", !.rows = rows]
    <3>3. k \in Call /\ calls' = [calls EXCEPT ![s] = k]
      BY <3>1, <3>2, AnswerIs, ReplacedIs
    <3>4. k.op = calls[s].op /\ k.pc = "done" /\ k.tab = calls[s].tab /\ k.visit = calls[s].visit
      BY <3>2, AnswerIs
    <3> HIDE DEF k
    <3>5. calls'[s] = k /\ \A w \in Slots : w # s => calls'[w] = calls[w]
      BY <3>3 DEF TypeOK
    <3>6. Kept
      BY <1>4, <2>1, <3>4, <3>5
    <3> QED
      BY <1>2, <2>1, <3>6
  <2> QED
    BY <1>8, <2>2, <2>3 DEF List
<1>9. ASSUME NEW s \in Slots, ListRefused(s) \/ MarkRead(s) PROVE OneLoad'
  BY <1>2, <1>5, <1>6, <1>9 DEF ListRefused, MarkRead, MarkAs
<1>10. ASSUME NEW s \in Slots, CheckSend(s) \/ Publish(s) PROVE OneLoad'
  BY <1>2, <1>5, <1>7, <1>10 DEF CheckSend, Publish, At
<1>11. ASSUME NEW s \in Slots, CreateMessage(s) PROVE OneLoad'
  <2>1. /\ calls'[s].op = calls[s].op /\ calls[s].op = "send"
        /\ \A w \in Slots : w # s => calls'[w] = calls[w]
    BY <1>11 DEF CreateMessage, At, TypeOK, Call
  <2>2. Kept
    BY <1>4, <2>1
  <2> QED
    BY <1>2, <1>5, <1>11, <2>2 DEF CreateMessage
<1>12. ASSUME NEW s \in Slots, SendAnswered(s) \/ SendRefused(s) PROVE OneLoad'
  <2>1. PICK list : Settle(s, list, FALSE)
    BY <1>12 DEF SendAnswered, SendRefused
  <2>2. Unloaded(Tabs)
    BY <2>1 DEF Settle, TypeOK, Page
  <2> QED
    BY <1>2, <1>6, <2>1, <2>2 DEF Settle
<1>13. ASSUME NEW s \in Slots, calls[s].op # "none" PROVE Again(s) = NoCall \/
              (Again(s).op = calls[s].op /\ Again(s).pc = "sent" /\ Again(s).tab = calls[s].tab /\ Again(s).visit = calls[s].visit)
  BY <1>13, AgainIs
<1>14. \A s \in Slots : calls[s] # NoCall => calls[s].op # "none"
  BY DEF CallsOK, CallOK
<1>15. ASSUME NEW s \in Slots, Lose(s) PROVE OneLoad'
  <2>1. calls[s] # NoCall /\ calls' = [calls EXCEPT ![s] = Again(s)]
    BY <1>15, NoCallIs DEF Lose
  <2>2. calls'[s] = Again(s) /\ \A w \in Slots : w # s => calls'[w] = calls[w]
    BY <2>1 DEF TypeOK
  <2>3. Kept
    BY <1>4, <1>13, <1>14, <2>1, <2>2, NoCallIs
  <2> QED
    BY <1>2, <1>5, <1>15, <2>3 DEF Lose
<1>16. ASSUME NEW s \in Slots, NEW o \in Slots, LoseRunning(s, o) PROVE OneLoad'
  <2> DEFINE k == [calls[s] EXCEPT !.visit = 0, !.attempt = MaxAttempts]
  <2>1. calls[s] # NoCall /\ s # o /\ calls[s].op # "list" /\ calls' = [calls EXCEPT ![o] = k, ![s] = Again(s)]
    BY <1>1, <1>16, NoCallIs DEF LoseRunning, FreeSlots
  <2>2. calls'[s] = Again(s) /\ calls'[o] = k /\ \A w \in Slots : w # s /\ w # o => calls'[w] = calls[w]
    BY <2>1 DEF TypeOK
  <2>3. k.op # "list"
    BY <2>1 DEF TypeOK, Call
  <2> HIDE DEF k
  <2>4. calls'[s].op # "list" /\ calls'[o].op # "list"
    BY <1>13, <1>14, <2>1, <2>2, <2>3, NoCallIs
  <2>5. Kept
    BY <1>1, <2>2, <2>4 DEF Kept
  <2> QED
    BY <1>2, <1>5, <1>16, <2>5 DEF LoseRunning
<1>17. CASE Crash
  <2>1. Kept
    BY <1>13, <1>14, <1>17, NoCallIs DEF Kept, Crash
  <2> QED
    BY <1>2, <1>5, <1>17, <2>1 DEF Crash
<1>18. ASSUME NEW t \in Tabs, Submit(t) PROVE OneLoad'
  <2>1. page[t].conv \in Chats /\ page[t].visit \in Visits /\ t \in Callers /\ "send" \in CallOps
    BY DEF TypeOK, Page, Chats, Visits, Callers, CallOps
  <2>2. Begin(t, "send", page[t].conv, page[t].visit)
    BY <1>18 DEF Submit, Begin
  <2>3. PICK s \in Slots : /\ calls'[s] = NewCall(t, "send", page[t].conv, page[t].visit)
                           /\ \A w \in Slots : w # s => calls'[w] = calls[w]
    BY <2>1, <2>2, BeginIs
  <2>4. calls'[s].op = "send"
    BY <2>1, <2>3, NewCallIs
  <2>5. Kept
    BY <1>4, <2>3, <2>4
  <2>6. Unloaded(Tabs)
    BY <1>18 DEF Submit, TypeOK, Page
  <2> QED
    BY <1>2, <2>5, <2>6
<1>19. ASSUME NEW t \in Tabs, Receive(t) PROVE OneLoad'
  <2>1. Unloaded(Tabs)
    BY <1>19 DEF Receive, TypeOK, Page
  <2> QED
    BY <1>2, <1>3, <1>19, <2>1 DEF Receive
<1>20. ASSUME NEW t \in Tabs, ClosePage(t) PROVE OneLoad'
  <2> DEFINE p == Blank(t, None, page[t].visit)
  <2>1. page' = [page EXCEPT ![t] = p]
    BY <1>20 DEF ClosePage
  <2>2. ~p.applied
    BY BlankIs DEF TypeOK, Page
  <2> HIDE DEF p
  <2>3. Unloaded(Tabs)
    BY <2>1, <2>2 DEF TypeOK
  <2> QED
    BY <1>2, <1>3, <1>20, <2>3 DEF ClosePage
<1>21. ASSUME NEW t \in Tabs, NEW c \in Conversations, OpenPage(t, c) PROVE OneLoad'
  <2> DEFINE n == page[t].visit + 1
             p == Blank(t, c, n)
             k == NewCall(t, "list", c, n)
  <2>1. n \in 0..MaxVisits /\ page' = [page EXCEPT ![t] = p] /\ page[t].visit \in Nat
    BY <1>21, Limits DEF OpenPage, TypeOK, Page
  <2>2. ~p.applied
    BY <2>1, BlankIs
  <2>3. "list" \in CallOps /\ t \in Callers /\ c \in Chats /\ n \in Visits
    BY <2>1 DEF CallOps, Callers, Chats, Visits
  <2>4. k.op = "list" /\ k.pc = "sent" /\ k.tab = t /\ k.visit = n
    BY <2>3, NewCallIs
  <2>5. Begin(t, "list", c, n)
    BY <1>21 DEF OpenPage, Begin
  <2>6. PICK s \in Slots : calls'[s] = k /\ \A w \in Slots : w # s => calls'[w] = calls[w]
    BY <2>3, <2>5, BeginIs
  <2> HIDE DEF p, k
  <2>7. ~page'[t].applied /\ \A o \in Tabs : o # t => page'[o] = page[o]
    BY <2>1, <2>2 DEF TypeOK
  <2>8. \A w \in Slots : w # s /\ calls'[w].op = "list" => calls'[w].tab # t \/ calls'[w].visit # n
    <3>1. \A w \in Slots : calls[w].op = "list" /\ calls[w].tab = t => calls[w].visit < n
      BY <1>1, <2>1
    <3> QED
      BY <1>1, <2>1, <2>6, <3>1
  <2> HIDE DEF n
  <2>9. ASSUME NEW w \in Slots, calls'[w].op = "list"
        PROVE  /\ calls'[w].pc \in {"sent", "done", "refused"}
               /\ page'[calls'[w].tab].visit = calls'[w].visit => ~page'[calls'[w].tab].applied
               /\ \A v \in Slots : calls'[v].op = "list" /\ calls'[v].tab = calls'[w].tab /\ calls'[v].visit = calls'[w].visit
                    => v = w
    <3>1. CASE w = s
      BY <2>4, <2>6, <2>7, <2>8, <3>1
    <3>2. CASE w # s
      <4>1. calls'[w] = calls[w] /\ calls[w].tab \in Tabs /\ calls[w].pc \in {"sent", "done", "refused"}
        BY <1>1, <2>6, <2>9, <3>2
      <4>2. page[calls[w].tab].visit = calls[w].visit => ~page[calls[w].tab].applied
        BY <2>9, <4>1 DEF OneLoad, Loads, Caller
      <4>3. \A v \in Slots : calls[v].op = "list" /\ calls[v].tab = calls[w].tab /\ calls[v].visit = calls[w].visit => v = w
        BY <2>9, <4>1 DEF OneLoad, Loads, Caller
      <4> QED
        BY <2>4, <2>6, <2>7, <2>8, <2>9, <3>2, <4>1, <4>2, <4>3
    <3> QED
      BY <3>1, <3>2
  <2> QED
    BY <2>9 DEF OneLoad, Loads, Caller
<1>22. ASSUME NEW s \in Slots, ApplyHistory(s) PROVE OneLoad'
  <2> DEFINE k == NewCall(calls[s].tab, "read", calls[s].conv, calls[s].visit)
  <2>1. calls' = [calls EXCEPT ![s] = k] /\ calls[s].op = "list"
    BY <1>22 DEF ApplyHistory, Load, Caller, At
  <2>2. k.op = "read"
    <3>1. "read" \in CallOps /\ calls[s].tab \in Callers /\ calls[s].conv \in Chats /\ calls[s].visit \in Visits
      BY DEF TypeOK, Call, CallOps, Callers, Chats, Visits
    <3> QED
      BY <3>1, NewCallIs
  <2> HIDE DEF k
  <2>3. calls'[s].op = "read" /\ \A w \in Slots : w # s => calls'[w] = calls[w]
    BY <2>1, <2>2 DEF TypeOK
  <2>4. Kept
    BY <1>4, <2>3
  <2>5. CASE ~OnPage(s)
    BY <1>2, <1>5, <1>22, <2>4, <2>5, LoadIs
  <2>6. CASE OnPage(s)
    <3> DEFINE t == calls[s].tab
    <3>1. t \in Tabs /\ page[t].visit = calls[s].visit
      BY <1>1, <2>1, <2>6 DEF OnPage, Caller
    <3>3. \A o \in Tabs : page'[o].visit = page[o].visit /\ (o # t => page'[o] = page[o])
      BY <1>22, LoadIs DEF Caller
    <3>4. \A w \in Slots : calls'[w].op = "list" => w # s /\ calls'[w] = calls[w] /\ calls[w].tab \in Tabs
                                                  /\ (calls[w].tab # t \/ calls[w].visit # page[t].visit)
      BY <1>1, <2>1, <2>3, <3>1 DEF OneLoad, Loads, Caller
    <3> HIDE DEF t
    <3> QED
      BY <1>1, <3>3, <3>4 DEF OneLoad, Loads, Caller
  <2> QED
    BY <2>5, <2>6
<1>23. CASE UNCHANGED <<page, calls>>
  BY <1>2, <1>3, <1>5, <1>23
<1>24. ASSUME NEW s \in Slots, Serve(s) PROVE OneLoad'
  BY <1>8, <1>9, <1>10, <1>11, <1>12, <1>22, <1>24 DEF Serve
<1> QED
  BY <1>15, <1>16, <1>17, <1>18, <1>19, <1>20, <1>21, <1>23, <1>24
     DEF Next, Progress, Deliver, JoinArrives, LeaveArrives, TakeEvent, Connect, Connected, Drop,
         FinishJoin, Join, EndConnection, ReviveConnection, vars

\* A thread is a prefix of itself and of what is added to it.
LEMMA Longer ==
  ASSUME NEW list \in Seq(Nat), NEW m \in Nat
  PROVE  IsPrefix(list, list) /\ IsPrefix(list, Append(list, m)) /\ IsPrefix(list, Shown(list, m))
<1>1. IsPrefix(list, list)
  BY DEF IsPrefix
<1>2. IsPrefix(list, Append(list, m))
  <2> DEFINE l == Append(list, m)
  <2>1. l \in Seq(Nat) /\ Len(l) = Len(list) + 1 /\ Len(list) \in Nat /\ \A i \in 1..Len(list) : l[i] = list[i]
    OBVIOUS
  <2> HIDE DEF l
  <2>2. SubSeq(list, 1, Len(list)) = SubSeq(l, 1, Len(list))
    <3> DEFINE a == SubSeq(list, 1, Len(list))
               b == SubSeq(l, 1, Len(list))
    <3>1. a \in Seq(Nat) /\ Len(a) = Len(list) /\ \A i \in 1..Len(a) : a[i] = list[i]
      BY <2>1
    <3>2. b \in Seq(Nat) /\ Len(b) = Len(list) /\ \A i \in 1..Len(b) : b[i] = l[i]
      BY <2>1
    <3> HIDE DEF a, b
    <3> QED
      BY <2>1, <3>1, <3>2, SeqEqual
  <2> QED
    BY <2>1, <2>2 DEF IsPrefix, l
<1> QED
  BY <1>1, <1>2 DEF Shown

\* What a page shows it goes on showing until it is left.
LEMMA ShownStep ==
  ASSUME TypeOK, CallsOK, SocketsOK, OneLoad, [Next]_vars, NEW t \in Tabs,
         page[t].applied, page'[t].visit = page[t].visit, page'[t].conv # None
  PROVE  IsPrefix(page[t].shown, page'[t].shown)
<1>1. page \in [Tabs -> Page] /\ page[t].shown \in Seq(Nat) /\ page[t].visit \in 0..MaxVisits
  BY DEF TypeOK, Page
<1>2. ASSUME page'[t].shown = page[t].shown PROVE IsPrefix(page[t].shown, page'[t].shown)
  BY <1>1, <1>2, Longer
<1>3. ASSUME NEW s \in Slots, ApplyHistory(s) PROVE page'[t].shown = page[t].shown
  <2>1. CASE ~OnPage(s)
    BY <1>3, <2>1, LoadIs
  <2>2. CASE OnPage(s)
    <3>1. s \in Loads
      BY <1>3, <2>2 DEF ApplyHistory, Load, At, Loads
    <3>2. Caller(s) # t
      BY <2>2, <3>1 DEF OneLoad, OnPage
    <3> QED
      BY <1>3, <3>2, LoadIs
  <2> QED
    BY <2>1, <2>2
<1>4. ASSUME NEW s \in Slots, SendAnswered(s) \/ SendRefused(s) PROVE IsPrefix(page[t].shown, page'[t].shown)
  <2>1. calls[s].row \in Nat
    BY DEF TypeOK, Call
  <2>2. page'[t].shown \in {page[t].shown, Shown(page[t].shown, calls[s].row)}
    <3>1. PICK list \in {page[Caller(s)].shown, Shown(page[Caller(s)].shown, calls[s].row)} : Settle(s, list, FALSE)
      BY <1>4 DEF SendAnswered, SendRefused
    <3>2. page' = page \/ page' = [page EXCEPT ![Caller(s)].shown = list, ![Caller(s)].sending = FALSE]
      BY <3>1 DEF Settle
    <3>3. CASE Caller(s) = t
      BY <1>1, <3>1, <3>2, <3>3 DEF Page
    <3>4. CASE Caller(s) # t
      BY <1>1, <3>2, <3>4
    <3> QED
      BY <3>3, <3>4
  <2> QED
    BY <1>1, <2>1, <2>2, Longer
<1>5. ASSUME NEW o \in Tabs, Receive(o) PROVE IsPrefix(page[t].shown, page'[t].shown)
  <2> DEFINE m == Head(socket[o].in)
  <2>1. m \in Nat
    BY <1>5, SocketParts DEF Receive
  <2>2. page'[t].shown \in {page[t].shown, Shown(page[t].shown, m)}
    BY <1>1, <1>5 DEF Receive, Page
  <2> QED
    BY <1>1, <2>1, <2>2, Longer
<1>6. ASSUME NEW o \in Tabs, Submit(o) PROVE page'[t].shown = page[t].shown
  BY <1>1, <1>6 DEF Submit, Page
<1>7. ASSUME NEW o \in Tabs, ClosePage(o) PROVE page'[t].shown = page[t].shown
  <2> DEFINE p == Blank(o, None, page[o].visit)
  <2>1. page' = [page EXCEPT ![o] = p]
    BY <1>7 DEF ClosePage
  <2>2. p.conv = None
    BY BlankIs DEF TypeOK, Page
  <2> HIDE DEF p
  <2> QED
    BY <1>1, <2>1, <2>2
<1>8. ASSUME NEW o \in Tabs, NEW c \in Conversations, OpenPage(o, c) PROVE page'[t].shown = page[t].shown
  <2> DEFINE n == page[o].visit + 1
             p == Blank(o, c, n)
  <2>1. n \in 0..MaxVisits /\ page' = [page EXCEPT ![o] = p] /\ n # page[o].visit
    BY <1>8, Limits DEF OpenPage, TypeOK, Page
  <2>2. p.visit = n
    <3>1. n \in 0..MaxVisits
      BY <2>1
    <3> HIDE DEF n
    <3> QED
      BY <3>1, BlankIs
  <2> HIDE DEF p
  <2> QED
    BY <1>1, <2>1, <2>2
<1>9. ASSUME NEW S, page' = Freed(S) PROVE page'[t].shown = page[t].shown
  BY <1>9, FreedIs
<1>10. ASSUME NEW s \in Slots, Serve(s) PROVE IsPrefix(page[t].shown, page'[t].shown)
  BY <1>2, <1>3, <1>4, <1>10 DEF Serve, List, ListRefused, MarkRead, MarkAs, CheckSend, CreateMessage, Publish
<1> QED
  BY <1>2, <1>5, <1>6, <1>7, <1>8, <1>9, <1>10
     DEF Next, Progress, Deliver, JoinArrives, LeaveArrives, TakeEvent, Connect, Connected, Drop, Lose, LoseRunning, Crash,
         FinishJoin, Join, EndConnection, ReviveConnection, vars

-----------------------------------------------------------------------------
(* The form *)

\* One tab's form, and the sends it waits for one by one.
Waits(s, t) == calls[s].op = "send" /\ Caller(s) = t /\ OnPage(s)
FormOK(t) ==
  /\ page[t].sending <=> \E s \in Slots : Waits(s, t)
  /\ \A r, s \in Slots : Waits(r, t) /\ Waits(s, t) => r = s

\* FormIsAwaited speaks of every tab's form.
LEMMA FormsAre == (FormIsAwaited <=> \A t \in Tabs : FormOK(t)) /\ (FormIsAwaited' <=> \A t \in Tabs : FormOK(t)')
<1>1. \A t \in Tabs : FormOK(t) <=> /\ page[t].sending <=> Awaited(t) # {}
                                    /\ \A r, s \in Awaited(t) : r = s
  BY DEF FormOK, Awaited, SendsInFlight, Waits
<1>2. \A t \in Tabs : FormOK(t)' <=> /\ page'[t].sending <=> Awaited(t)' # {}
                                     /\ \A r, s \in Awaited(t)' : r = s
  BY DEF FormOK, Awaited, SendsInFlight, Waits
<1> QED
  BY <1>1, <1>2 DEF FormIsAwaited

\* A form freed of a send that has failed is freed of the one it waits for.
LEMMA FreedForm ==
  ASSUME TypeOK, NEW S \in SUBSET Slots, NEW t \in Tabs, FormOK(t), page' = Freed(S),
         \A s \in Slots : Waits(s, t)' <=> Waits(s, t) /\ ~(s \in S /\ Failed(s))
  PROVE  FormOK(t)'
<1>1. CASE \E s \in S : Waits(s, t) /\ Failed(s)
  <2>1. page'[t] = [page[t] EXCEPT !.sending = FALSE]
    BY <1>1 DEF Freed, Waits
  <2>2. ~page'[t].sending
    BY <2>1 DEF TypeOK, Page
  <2>3. \A s \in Slots : ~Waits(s, t)'
    BY <1>1 DEF FormOK
  <2> QED
    BY <2>2, <2>3 DEF FormOK
<1>2. CASE ~\E s \in S : Waits(s, t) /\ Failed(s)
  <2>1. page'[t] = page[t]
    BY <1>2 DEF Freed, Waits
  <2>2. \A s \in Slots : Waits(s, t)' <=> Waits(s, t)
    BY <1>2
  <2> QED
    BY <2>1, <2>2 DEF FormOK
<1> QED
  BY <1>1, <1>2

\* Every step that starts, answers, gives up or leaves a send frees its form or
\* leaves it waiting.
LEMMA FormStep ==
  ASSUME TypeOK, CallsOK, PagesOK, FormIsAwaited, [Next]_vars
  PROVE  FormIsAwaited'
<1>1. \A t \in Tabs : FormOK(t)
  BY FormsAre
<1>2. ASSUME \A t \in Tabs : FormOK(t)' PROVE FormIsAwaited'
  BY <1>2, FormsAre
<1> DEFINE SameForm(t) == /\ page'[t].conv = page[t].conv /\ page'[t].visit = page[t].visit
                          /\ (page'[t].sending <=> page[t].sending)
           SameCall(s) == /\ calls'[s].op = "send" <=> calls[s].op = "send"
                          /\ calls[s].op = "send" => calls'[s].tab = calls[s].tab /\ calls'[s].visit = calls[s].visit
<1>3. \A s \in Slots : /\ calls[s].op = "none" <=> calls[s] = NoCall
                       /\ calls[s].op # "none" => /\ calls[s].tab \in Tabs /\ calls[s].visit \in Nat
                                                  /\ page[calls[s].tab].visit \in Nat /\ CallOK(calls[s])
  <2> SUFFICES ASSUME NEW s \in Slots
               PROVE  /\ calls[s].op = "none" <=> calls[s] = NoCall
                      /\ calls[s].op # "none" => /\ calls[s].tab \in Tabs /\ calls[s].visit \in Nat
                                                 /\ page[calls[s].tab].visit \in Nat /\ CallOK(calls[s])
    OBVIOUS
  <2>1. calls[s] \in Call
    BY DEF TypeOK
  <2>2. calls[s] # NoCall => CallOK(calls[s]) /\ calls[s].op # "none" /\ calls[s].tab \in Tabs
    BY DEF CallsOK, CallOK
  <2>3. \A t \in Tabs : page[t].visit \in Nat
    BY Limits DEF TypeOK, Page
  <2> QED
    BY <2>1, <2>2, <2>3, NoCallIs, Limits DEF Call
<1>4. ASSUME NEW t \in Tabs, page'[t].conv = page[t].conv /\ page'[t].visit = page[t].visit, NEW s \in Slots, SameCall(s)
      PROVE  Waits(s, t)' <=> Waits(s, t)
  BY <1>4 DEF Waits, OnPage, Caller
<1>5. ASSUME \A t \in Tabs : SameForm(t), \A s \in Slots : SameCall(s) PROVE FormIsAwaited'
  <2>1. \A t \in Tabs : FormOK(t)'
    BY <1>1, <1>4, <1>5 DEF FormOK
  <2> QED
    BY <1>2, <2>1
<1>6. UNCHANGED calls => \A s \in Slots : SameCall(s)
  OBVIOUS
<1>7. UNCHANGED page => \A t \in Tabs : SameForm(t)
  OBVIOUS
<1>8. ASSUME NEW s \in Slots, calls'[s].op # "send", calls[s].op # "send", \A w \in Slots : w # s => calls'[w] = calls[w]
      PROVE  \A w \in Slots : SameCall(w)
  BY <1>8
<1>9. ASSUME NEW s \in Slots, Done(s)
      PROVE  calls'[s] = NoCall /\ calls'[s].op # "send" /\ \A w \in Slots : w # s => calls'[w] = calls[w]
  BY <1>9, NoCallIs DEF Done, TypeOK
<1>10. ASSUME NEW s \in Slots, NEW pc \in {"create", "publish", "done", "refused"}, Goto(s, pc)
       PROVE  \A w \in Slots : SameCall(w)
  <2>1. /\ calls'[s].op = calls[s].op /\ calls'[s].tab = calls[s].tab /\ calls'[s].visit = calls[s].visit
        /\ \A w \in Slots : w # s => calls'[w] = calls[w]
    BY <1>10, GotoIs
  <2> QED
    BY <2>1
<1>11. ASSUME NEW s \in Slots, List(s) PROVE FormIsAwaited'
  <2>1. CASE Goto(s, "refused")
    BY <1>5, <1>7, <1>10, <1>11, <2>1 DEF List
  <2>2. CASE \E rows \in Newest(calls[s].conv) : calls' = [calls EXCEPT ![s].pc = "done", ![s].rows = rows]
    <3>1. \A w \in Slots : SameCall(w)
      BY <2>2 DEF TypeOK, Call
    <3> QED
      BY <1>5, <1>7, <1>11, <3>1 DEF List
  <2> QED
    BY <1>11, <2>1, <2>2 DEF List
<1>12. ASSUME NEW s \in Slots, ListRefused(s) \/ MarkRead(s) PROVE FormIsAwaited'
  <2>1. Done(s) /\ calls[s].op # "send" /\ UNCHANGED page
    BY <1>12 DEF ListRefused, MarkRead, MarkAs, At
  <2> QED
    BY <1>5, <1>7, <1>8, <1>9, <2>1
<1>13. ASSUME NEW s \in Slots, CheckSend(s) \/ Publish(s) PROVE FormIsAwaited'
  BY <1>5, <1>7, <1>10, <1>13 DEF CheckSend, Publish
<1>14. ASSUME NEW s \in Slots, CreateMessage(s) PROVE FormIsAwaited'
  <2>1. \A w \in Slots : SameCall(w)
    BY <1>14 DEF CreateMessage, TypeOK, Call
  <2> QED
    BY <1>5, <1>7, <1>14, <2>1 DEF CreateMessage
<1>15. ASSUME NEW s \in Slots, ApplyHistory(s) PROVE FormIsAwaited'
  <2> DEFINE k == NewCall(calls[s].tab, "read", calls[s].conv, calls[s].visit)
  <2>1. calls' = [calls EXCEPT ![s] = k] /\ calls[s].op = "list"
    BY <1>15 DEF ApplyHistory, Load, Caller, At
  <2>2. k.op = "read"
    <3>1. "read" \in CallOps /\ calls[s].tab \in Callers /\ calls[s].conv \in Chats /\ calls[s].visit \in Visits
      BY DEF TypeOK, Call, CallOps, Callers, Chats, Visits
    <3> QED
      BY <3>1, NewCallIs
  <2> HIDE DEF k
  <2>3. calls'[s].op = "read" /\ \A w \in Slots : w # s => calls'[w] = calls[w]
    BY <2>1, <2>2 DEF TypeOK
  <2>4. \A w \in Slots : SameCall(w)
    BY <1>8, <2>1, <2>3
  <2>5. \A t \in Tabs : SameForm(t)
    BY <1>15, LoadIs
  <2> QED
    BY <1>5, <2>4, <2>5
<1>16. ASSUME NEW s \in Slots, SendAnswered(s) \/ SendRefused(s) PROVE FormIsAwaited'
  <2>1. PICK list : Settle(s, list, FALSE)
    BY <1>16 DEF SendAnswered, SendRefused
  <2>2. Done(s) /\ calls[s].op = "send"
    BY <1>16, <2>1 DEF Settle, SendAnswered, SendRefused, At
  <2>3. calls'[s].op # "send" /\ \A w \in Slots : w # s => calls'[w] = calls[w]
    BY <1>9, <2>2
  <2>4. \A t \in Tabs : page'[t].conv = page[t].conv /\ page'[t].visit = page[t].visit
    BY <2>1 DEF Settle, TypeOK, Page
  <2>5. \A t \in Tabs, w \in Slots : w # s => (Waits(w, t)' <=> Waits(w, t))
    BY <1>4, <2>3, <2>4
  <2>6. \A t \in Tabs : ~Waits(s, t)'
    BY <2>3 DEF Waits
  <2>7. ASSUME NEW t \in Tabs PROVE FormOK(t)'
    <3>1. CASE Waits(s, t)
      <4>1. ~page'[t].sending
        BY <2>1, <3>1 DEF Settle, Waits, TypeOK, Page
      <4>2. \A w \in Slots : ~Waits(w, t)'
        BY <1>1, <2>5, <2>6, <3>1 DEF FormOK
      <4> QED
        BY <4>1, <4>2 DEF FormOK
    <3>2. CASE ~Waits(s, t)
      <4>1. page'[t].sending <=> page[t].sending
        BY <2>1, <2>2, <3>2 DEF Settle, Waits, TypeOK, Page
      <4> QED
        BY <1>1, <2>5, <2>6, <3>2, <4>1 DEF FormOK
    <3> QED
      BY <3>1, <3>2
  <2> QED
    BY <1>2, <2>7
<1>17. ASSUME NEW s \in Slots, NEW t \in Tabs, calls[s] # NoCall, calls'[s] = Again(s),
              page'[t].conv = page[t].conv /\ page'[t].visit = page[t].visit
       PROVE  Waits(s, t)' <=> Waits(s, t) /\ ~Failed(s)
  <2>1. calls[s].op # "none"
    BY <1>3, <1>17
  <2>2. CASE Failed(s)
    BY <1>17, <2>2, NoCallIs DEF Again, Waits
  <2>3. CASE ~Failed(s)
    BY <1>4, <1>17, <2>1, <2>3, AgainIs
  <2> QED
    BY <2>2, <2>3
<1>18. ASSUME NEW S \in SUBSET Slots, page' = Freed(S),
              \A s \in Slots, t \in Tabs : Waits(s, t)' <=> Waits(s, t) /\ ~(s \in S /\ Failed(s))
       PROVE  FormIsAwaited'
  BY <1>1, <1>2, <1>18, FreedForm
<1>19. ASSUME NEW S, page' = Freed(S) PROVE \A t \in Tabs : page'[t].conv = page[t].conv /\ page'[t].visit = page[t].visit
  BY <1>19, FreedIs
<1>20. ASSUME NEW s \in Slots, Lose(s) PROVE FormIsAwaited'
  <2>1. calls[s] # NoCall /\ calls' = [calls EXCEPT ![s] = Again(s)] /\ page' = Freed({s})
    BY <1>20, NoCallIs DEF Lose
  <2>2. calls'[s] = Again(s) /\ \A w \in Slots : w # s => calls'[w] = calls[w]
    BY <2>1 DEF TypeOK
  <2>3. \A w \in Slots, t \in Tabs : Waits(w, t)' <=> Waits(w, t) /\ ~(w \in {s} /\ Failed(w))
    BY <1>4, <1>17, <1>19, <2>1, <2>2
  <2> QED
    BY <1>18, <2>1, <2>3
<1>21. ASSUME NEW s \in Slots, NEW o \in Slots, LoseRunning(s, o) PROVE FormIsAwaited'
  <2> DEFINE k == [calls[s] EXCEPT !.visit = 0, !.attempt = MaxAttempts]
  <2>1. /\ calls[s] # NoCall /\ s # o /\ calls[o] = NoCall /\ calls' = [calls EXCEPT ![o] = k, ![s] = Again(s)]
        /\ page' = Freed({s})
    BY <1>21, NoCallIs DEF LoseRunning, FreeSlots
  <2>2. calls'[s] = Again(s) /\ calls'[o] = k /\ \A w \in Slots : w # s /\ w # o => calls'[w] = calls[w]
    BY <2>1 DEF TypeOK
  <2>3. k.visit = 0
    BY DEF TypeOK, Call
  <2> HIDE DEF k
  <2>4. \A t \in Tabs : ~Waits(o, t)' /\ ~Waits(o, t)
    BY <2>1, <2>2, <2>3, NoCallIs DEF Waits, OnPage
  <2>5. \A w \in Slots, t \in Tabs : Waits(w, t)' <=> Waits(w, t) /\ ~(w \in {s} /\ Failed(w))
    BY <1>4, <1>17, <1>19, <2>1, <2>2, <2>4
  <2> QED
    BY <1>18, <2>1, <2>5
<1>22. CASE Crash
  <2>1. page' = Freed(Slots) /\ \A s \in Slots : calls'[s] = IF calls[s] = NoCall THEN NoCall ELSE Again(s)
    BY <1>22 DEF Crash
  <2>2. ASSUME NEW s \in Slots, NEW t \in Tabs PROVE Waits(s, t)' <=> Waits(s, t) /\ ~(s \in Slots /\ Failed(s))
    <3>1. CASE calls[s] = NoCall
      BY <2>1, <3>1, NoCallIs DEF Waits
    <3>2. CASE calls[s] # NoCall
      BY <1>17, <1>19, <2>1, <3>2
    <3> QED
      BY <3>1, <3>2
  <2> QED
    BY <1>18, <2>1, <2>2
<1>23. ASSUME NEW t \in Tabs, Submit(t) PROVE FormIsAwaited'
  <2> DEFINE k == NewCall(t, "send", page[t].conv, page[t].visit)
  <2>1. page[t].conv \in Chats /\ page[t].visit \in Visits /\ t \in Callers /\ "send" \in CallOps
    BY DEF TypeOK, Page, Chats, Visits, Callers, CallOps
  <2>2. Begin(t, "send", page[t].conv, page[t].visit)
    BY <1>23 DEF Submit, Begin
  <2>3. PICK s \in Slots : calls[s] = NoCall /\ calls'[s] = k /\ \A w \in Slots : w # s => calls'[w] = calls[w]
    BY <2>1, <2>2, BeginIs
  <2>4. k.op = "send" /\ k.tab = t /\ k.visit = page[t].visit
    BY <2>1, NewCallIs
  <2> HIDE DEF k
  <2>5. page[t].conv # None /\ page[t].visit # 0 /\ page[t].visit \in Nat
    BY <1>23, Limits DEF Submit, PagesOK, PageOK, TypeOK, Page
  <2>6. page' = [page EXCEPT ![t].sending = TRUE] /\ ~page[t].sending
    BY <1>23 DEF Submit
  <2>7. /\ \A o \in Tabs : page'[o].conv = page[o].conv /\ page'[o].visit = page[o].visit
        /\ \A o \in Tabs : o # t => page'[o] = page[o]
        /\ page'[t].sending
    BY <2>6 DEF TypeOK, Page
  <2>8. \A w \in Slots, o \in Tabs : w # s => (Waits(w, o)' <=> Waits(w, o))
    BY <1>4, <2>3, <2>7
  <2>9. \A o \in Tabs : ~Waits(s, o) /\ (Waits(s, o)' <=> o = t)
    BY <2>3, <2>4, <2>5, <2>7, NoCallIs DEF Waits, OnPage, Caller
  <2>10. \A w \in Slots : ~Waits(w, t)
    BY <1>1, <2>6 DEF FormOK
  <2>11. \A o \in Tabs : FormOK(o)'
    BY <1>1, <2>7, <2>8, <2>9, <2>10 DEF FormOK
  <2> QED
    BY <1>2, <2>11
<1>24. ASSUME NEW t \in Tabs, Receive(t) PROVE FormIsAwaited'
  <2>1. \A o \in Tabs : SameForm(o)
    BY <1>24 DEF Receive, TypeOK, Page
  <2> QED
    BY <1>5, <1>6, <1>24, <2>1 DEF Receive
<1>25. ASSUME NEW t \in Tabs, ClosePage(t) PROVE FormIsAwaited'
  <2> DEFINE p == Blank(t, None, page[t].visit)
  <2>1. page' = [page EXCEPT ![t] = p] /\ UNCHANGED calls
    BY <1>25 DEF ClosePage
  <2>2. p.conv = None /\ ~p.sending
    BY BlankIs DEF TypeOK, Page
  <2> HIDE DEF p
  <2>3. page'[t] = p /\ \A o \in Tabs : o # t => page'[o] = page[o]
    BY <2>1 DEF TypeOK
  <2>4. \A w \in Slots : ~Waits(w, t)'
    BY <2>2, <2>3 DEF Waits, OnPage
  <2>5. \A o \in Tabs, w \in Slots : o # t => (Waits(w, o)' <=> Waits(w, o))
    BY <1>4, <2>1, <2>3
  <2>6. \A o \in Tabs : FormOK(o)'
    BY <1>1, <2>2, <2>3, <2>4, <2>5 DEF FormOK
  <2> QED
    BY <1>2, <2>6
<1>26. ASSUME NEW t \in Tabs, NEW c \in Conversations, OpenPage(t, c) PROVE FormIsAwaited'
  <2> DEFINE n == page[t].visit + 1
             p == Blank(t, c, n)
             k == NewCall(t, "list", c, n)
  <2>1. n \in 0..MaxVisits /\ page' = [page EXCEPT ![t] = p] /\ page[t].visit \in Nat
    BY <1>26, Limits DEF OpenPage, TypeOK, Page
  <2>2. ~p.sending /\ p.visit = n
    BY <2>1, BlankIs
  <2>3. "list" \in CallOps /\ t \in Callers /\ c \in Chats /\ n \in Visits
    BY <2>1 DEF CallOps, Callers, Chats, Visits
  <2>4. k.op = "list"
    BY <2>3, NewCallIs
  <2>5. Begin(t, "list", c, n)
    BY <1>26 DEF OpenPage, Begin
  <2>6. PICK s \in Slots : calls[s] = NoCall /\ calls'[s] = k /\ \A w \in Slots : w # s => calls'[w] = calls[w]
    BY <2>3, <2>5, BeginIs
  <2>7. \A w \in Slots : calls[w].op = "send" /\ calls[w].tab = t => calls[w].visit < n
    BY <1>3, <2>1 DEF CallOK
  <2> HIDE DEF p, k, n
  <2>8. page'[t] = p /\ \A o \in Tabs : o # t => page'[o] = page[o]
    BY <2>1 DEF TypeOK
  <2>9. \A w \in Slots : SameCall(w)
    BY <1>8, <2>4, <2>6, NoCallIs
  <2>10. \A w \in Slots : ~Waits(w, t)'
    <3> SUFFICES ASSUME NEW w \in Slots, Waits(w, t)' PROVE FALSE
      OBVIOUS
    <3>1. calls'[w].op = "send" /\ calls'[w].tab = t /\ p.visit = calls'[w].visit
      BY <2>8 DEF Waits, OnPage, Caller
    <3>2. calls[w].op = "send" /\ calls[w].tab = t /\ calls[w].visit = n
      BY <2>2, <2>9, <3>1
    <3> QED
      BY <2>1, <2>7, <3>2 DEF n
  <2>11. \A o \in Tabs, w \in Slots : o # t => (Waits(w, o)' <=> Waits(w, o))
    BY <1>4, <2>8, <2>9
  <2>12. \A o \in Tabs : FormOK(o)'
    BY <1>1, <2>2, <2>8, <2>10, <2>11 DEF FormOK
  <2> QED
    BY <1>2, <2>12
<1>27. CASE UNCHANGED <<page, calls>>
  BY <1>5, <1>6, <1>7, <1>27
<1>28. ASSUME NEW s \in Slots, Serve(s) PROVE FormIsAwaited'
  BY <1>11, <1>12, <1>13, <1>14, <1>15, <1>16, <1>28 DEF Serve
<1> QED
  BY <1>20, <1>21, <1>22, <1>23, <1>24, <1>25, <1>26, <1>27, <1>28
     DEF Next, Progress, Deliver, JoinArrives, LeaveArrives, TakeEvent, Connect, Connected, Drop,
         FinishJoin, Join, EndConnection, ReviveConnection, vars

-----------------------------------------------------------------------------
(* The room *)

\* A queue with a join of c after every leave of c, and one without a leave of c.
JoinLast(q, c) ==
  \E i \in 1..Len(q) :
    q[i] = [name |-> "join", conv |-> c] /\ \A j \in 1..Len(q) : q[j] = [name |-> "leave", conv |-> c] => j < i
NoLeave(q, c) == \A j \in 1..Len(q) : q[j] # [name |-> "leave", conv |-> c]
RoomOK(t, c) ==
  OpenOn(t, c) /\ socket[t].up /\ IsMember(t, c) =>
    JoinLast(socket[t].out, c) \/ (NoLeave(socket[t].out, c) /\ (c \in socket[t].rooms \/ socket[t].joining[c] > 0))

\* HeadsForRoom speaks of every tab and conversation.
LEMMA RoomsAre ==
  /\ HeadsForRoom <=> \A t \in Tabs, c \in Conversations : RoomOK(t, c)
  /\ HeadsForRoom' <=> \A t \in Tabs, c \in Conversations : RoomOK(t, c)'
<1>1. ASSUME NEW t, NEW c
      PROVE  /\ JoinLast(socket[t].out, c) <=> \E i \in Emitted(t, "join", c) : \A j \in Emitted(t, "leave", c) : j < i
             /\ NoLeave(socket[t].out, c) <=> Emitted(t, "leave", c) = {}
  BY DEF JoinLast, NoLeave, Emitted
<1>2. ASSUME NEW t, NEW c
      PROVE  /\ JoinLast(socket'[t].out, c) <=> \E i \in Emitted(t, "join", c)' : \A j \in Emitted(t, "leave", c)' : j < i
             /\ NoLeave(socket'[t].out, c) <=> Emitted(t, "leave", c)' = {}
  BY DEF JoinLast, NoLeave, Emitted
<1>3. HeadsForRoom <=> \A t \in Tabs, c \in Conversations : RoomOK(t, c)
  BY <1>1 DEF HeadsForRoom, RoomOK
<1>4. HeadsForRoom' <=> \A t \in Tabs, c \in Conversations : RoomOK(t, c)'
  BY <1>2 DEF HeadsForRoom, RoomOK
<1> QED
  BY <1>3, <1>4

\* A join at the end of a queue comes after every leave in it.
LEMMA JoinEmitted ==
  ASSUME NEW q \in Queue, NEW c \in Conversations
  PROVE  JoinLast(Append(q, [name |-> "join", conv |-> c]), c)
<1> DEFINE e == [name |-> "join", conv |-> c]
           l == Append(q, e)
<1>1. e \in Event
  BY DEF Event
<1>2. e # [name |-> "leave", conv |-> c]
  OBVIOUS
<1> HIDE DEF e
<1>3. Len(l) = Len(q) + 1 /\ Len(q) \in Nat /\ l[Len(q) + 1] = e
  BY <1>1 DEF Queue
<1> HIDE DEF l
<1>4. \A j \in 1..Len(l) : l[j] = [name |-> "leave", conv |-> c] => j < Len(q) + 1
  BY <1>2, <1>3
<1>5. JoinLast(l, c)
  BY <1>3, <1>4 DEF JoinLast, e
<1> QED
  BY <1>5 DEF l, e

\* What the gateway takes from a queue is its last join, or an event before it.
LEMMA EventTaken ==
  ASSUME NEW q \in Queue, NEW c \in Conversations, q # <<>>
  PROVE  /\ NoLeave(q, c) => NoLeave(Tail(q), c) /\ Head(q) # [name |-> "leave", conv |-> c]
         /\ JoinLast(q, c) => JoinLast(Tail(q), c) \/ (Head(q) = [name |-> "join", conv |-> c] /\ NoLeave(Tail(q), c))
<1> DEFINE join == [name |-> "join", conv |-> c]
           leave == [name |-> "leave", conv |-> c]
           l == Tail(q)
<1>1. /\ Len(q) \in Nat /\ Len(q) >= 1 /\ Len(l) = Len(q) - 1 /\ Head(q) = q[1]
      /\ \A i \in 1..Len(l) : i + 1 \in 1..Len(q) /\ l[i] = q[i + 1]
  BY DEF Queue
<1> HIDE DEF l, join, leave
<1>2. ASSUME \A j \in 1..Len(q) : q[j] # leave PROVE (\A j \in 1..Len(l) : l[j] # leave) /\ Head(q) # leave
  BY <1>1, <1>2
<1>3. ASSUME NEW i \in 1..Len(q), q[i] = join, \A j \in 1..Len(q) : q[j] = leave => j < i
      PROVE  \/ \E k \in 1..Len(l) : l[k] = join /\ \A j \in 1..Len(l) : l[j] = leave => j < k
             \/ Head(q) = join /\ \A j \in 1..Len(l) : l[j] # leave
  <2>1. CASE i = 1
    <3>1. \A j \in 1..Len(l) : l[j] # leave
      BY <1>1, <1>3, <2>1
    <3> QED
      BY <1>1, <1>3, <2>1, <3>1
  <2>2. CASE i # 1
    <3>1. i - 1 \in 1..Len(l) /\ l[i - 1] = join
      <4>1. i - 1 \in 1..Len(l) /\ (i - 1) + 1 = i
        BY <1>1, <2>2
      <4> QED
        BY <1>1, <1>3, <4>1
    <3>2. \A j \in 1..Len(l) : l[j] = leave => j < i - 1
      <4> SUFFICES ASSUME NEW j \in 1..Len(l), l[j] = leave PROVE j < i - 1
        OBVIOUS
      <4>1. j + 1 \in 1..Len(q) /\ q[j + 1] = leave
        BY <1>1
      <4>2. j + 1 < i
        BY <1>3, <4>1
      <4> QED
        BY <4>2
    <3> QED
      BY <3>1, <3>2
  <2> QED
    BY <2>1, <2>2
<1> QED
  BY <1>2, <1>3 DEF NoLeave, JoinLast, l, join, leave

\* A page's join is taken before its leave and after those of its earlier
\* visits, and a join that waits ends in the room.
LEMMA RoomStep ==
  ASSUME TypeOK, HeadsForRoom, [Next]_vars
  PROVE  HeadsForRoom'
<1>1. \A t \in Tabs, c \in Conversations : RoomOK(t, c)
  BY RoomsAre
<1>2. ASSUME \A t \in Tabs, c \in Conversations : RoomOK(t, c)' PROVE HeadsForRoom'
  BY <1>2, RoomsAre
<1> DEFINE SameSocket(t) == /\ (socket'[t].up <=> socket[t].up) /\ socket'[t].out = socket[t].out
                            /\ socket'[t].joining = socket[t].joining /\ socket'[t].rooms = socket[t].rooms
<1>3. ASSUME NEW t \in Tabs, page'[t].conv = page[t].conv, SameSocket(t) PROVE \A c \in Conversations : RoomOK(t, c)'
  BY <1>1, <1>3 DEF RoomOK, OpenOn, IsMember
<1>4. ASSUME NEW t \in Tabs, ~socket'[t].up PROVE \A c \in Conversations : RoomOK(t, c)'
  BY <1>4 DEF RoomOK
<1>5. ASSUME NEW t \in Tabs, \A o \in Tabs : o # t => page'[o] = page[o] /\ socket'[o] = socket[o],
             \A c \in Conversations : RoomOK(t, c)'
      PROVE  HeadsForRoom'
  BY <1>2, <1>3, <1>5
<1>6. ASSUME \A t \in Tabs : page'[t].conv = page[t].conv /\ SameSocket(t) PROVE HeadsForRoom'
  BY <1>2, <1>3, <1>6
<1>7. socket \in [Tabs -> Socket] /\ page \in [Tabs -> Page]
  BY DEF TypeOK
<1>8. UNCHANGED socket => \A t \in Tabs : SameSocket(t)
  OBVIOUS
<1>9. ASSUME NEW t \in Tabs, NEW d \in Conversations, JoinArrives(t, d) PROVE HeadsForRoom'
  <2> DEFINE q == socket[t].out
             joins == [socket[t].joining EXCEPT ![d] = @ + 1]
  <2>1. q \in Queue /\ q # <<>> /\ Head(q) = [name |-> "join", conv |-> d] /\ socket[t].joining \in Joins
    BY <1>9, SocketParts DEF JoinArrives, Arrives
  <2>2. /\ socket'[t].out = Tail(q) /\ socket'[t].joining = joins /\ socket'[t].rooms = socket[t].rooms
        /\ (socket'[t].up <=> socket[t].up) /\ UNCHANGED page
        /\ \A o \in Tabs : o # t => socket'[o] = socket[o]
    BY <1>7, <1>9 DEF JoinArrives, TakeEvent, Socket
  <2>3. \A c \in Conversations : (socket[t].joining[c] > 0 => joins[c] > 0) /\ (c = d => joins[c] > 0)
    BY <2>1 DEF Joins
  <2> HIDE DEF q, joins
  <2>4. ASSUME NEW c \in Conversations, RoomOK(t, c) PROVE RoomOK(t, c)'
    <3>1. /\ NoLeave(q, c) => NoLeave(Tail(q), c)
          /\ JoinLast(q, c) => JoinLast(Tail(q), c) \/ (Head(q) = [name |-> "join", conv |-> c] /\ NoLeave(Tail(q), c))
      BY <2>1, EventTaken
    <3>2. Head(q) = [name |-> "join", conv |-> c] => c = d
      BY <2>1
    <3> QED
      BY <2>2, <2>3, <2>4, <3>1, <3>2 DEF RoomOK, OpenOn, IsMember, q
  <2> QED
    BY <1>1, <1>5, <2>2, <2>4
<1>10. ASSUME NEW t \in Tabs, NEW d \in Conversations, LeaveArrives(t, d) PROVE HeadsForRoom'
  <2> DEFINE q == socket[t].out
  <2>1. q \in Queue /\ q # <<>> /\ Head(q) = [name |-> "leave", conv |-> d]
    BY <1>10, SocketParts DEF LeaveArrives, Arrives
  <2>2. /\ socket'[t].out = Tail(q) /\ socket'[t].joining = socket[t].joining /\ socket'[t].rooms = socket[t].rooms \ {d}
        /\ (socket'[t].up <=> socket[t].up) /\ UNCHANGED page
        /\ \A o \in Tabs : o # t => socket'[o] = socket[o]
    BY <1>7, <1>10 DEF LeaveArrives, TakeEvent, Socket
  <2> HIDE DEF q
  <2>3. ASSUME NEW c \in Conversations, RoomOK(t, c) PROVE RoomOK(t, c)'
    <3>1. /\ NoLeave(q, c) => NoLeave(Tail(q), c) /\ c # d
          /\ JoinLast(q, c) => JoinLast(Tail(q), c) \/ Head(q) = [name |-> "join", conv |-> c]
      BY <2>1, EventTaken
    <3>2. Head(q) # [name |-> "join", conv |-> c]
      BY <2>1
    <3> QED
      BY <2>2, <2>3, <3>1, <3>2 DEF RoomOK, OpenOn, IsMember, q
  <2> QED
    BY <1>1, <1>5, <2>2, <2>3
<1>11. ASSUME NEW t \in Tabs, NEW d \in Conversations, FinishJoin(t, d) PROVE HeadsForRoom'
  <2>1. /\ socket'[t].out = socket[t].out /\ (socket'[t].up <=> socket[t].up)
        /\ \A c \in Conversations : c # d => socket'[t].joining[c] = socket[t].joining[c]
        /\ socket[t].rooms \subseteq socket'[t].rooms /\ (IsMember(t, d) => d \in socket'[t].rooms)
        /\ UNCHANGED page /\ \A o \in Tabs : o # t => socket'[o] = socket[o]
    BY <1>7, <1>11 DEF FinishJoin, Join, Socket
  <2>2. ASSUME NEW c \in Conversations, RoomOK(t, c) PROVE RoomOK(t, c)'
    BY <2>1, <2>2 DEF RoomOK, OpenOn, IsMember
  <2> QED
    BY <1>1, <1>5, <2>1, <2>2
<1>12. ASSUME NEW t \in Tabs, Connect(t) PROVE HeadsForRoom'
  <2> DEFINE q == socket[t].out
             d == page[t].conv
  <2>1. q \in Queue /\ UNCHANGED page
    BY <1>12, SocketParts DEF Connect, Connected
  <2>2. \A o \in Tabs : o # t => socket'[o] = socket[o]
    BY <1>7, <1>12 DEF Connect, Connected
  <2>3. CASE d = None
    <3>1. \A c \in Conversations : ~OpenOn(t, c)'
      BY <2>1, <2>3, NoneIsNoConversation DEF OpenOn
    <3> QED
      BY <1>5, <2>1, <2>2, <3>1 DEF RoomOK
  <2>4. CASE d # None
    <3>1. d \in Conversations
      BY <1>7, <2>4 DEF Page
    <3>2. [name |-> "join", conv |-> d] \in Event
      BY <3>1 DEF Event
    <3>3. socket'[t].out = q \o <<[name |-> "join", conv |-> d]>>
      BY <1>7, <1>12, <2>4 DEF Connect, Connected, Socket
    <3> HIDE DEF q
    <3>4. q \o <<[name |-> "join", conv |-> d]>> = Append(q, [name |-> "join", conv |-> d])
      BY <2>1, <3>2 DEF Queue
    <3>5. JoinLast(socket'[t].out, d)
      BY <2>1, <3>1, <3>3, <3>4, JoinEmitted
    <3>6. \A c \in Conversations : RoomOK(t, c)'
      BY <2>1, <3>5 DEF RoomOK, OpenOn
    <3> QED
      BY <1>5, <2>1, <2>2, <3>6
  <2> QED
    BY <2>3, <2>4
<1>13. ASSUME NEW t \in Tabs, NEW d \in Conversations, OpenPage(t, d) PROVE HeadsForRoom'
  <2> DEFINE p == Blank(t, d, page[t].visit + 1)
  <2>1. page' = [page EXCEPT ![t] = p] /\ page[t].visit + 1 \in 0..MaxVisits
    BY <1>13, Limits DEF OpenPage, TypeOK, Page
  <2>2. p.conv = d
    BY <2>1, BlankIs
  <2> HIDE DEF p
  <2>3. page'[t].conv = d /\ \A o \in Tabs : o # t => page'[o] = page[o] /\ socket'[o] = socket[o]
    BY <1>7, <1>13, <2>1, <2>2 DEF OpenPage
  <2>4. CASE socket[t].up
    <3>1. socket'[t].out = Append(socket[t].out, [name |-> "join", conv |-> d])
      BY <1>7, <1>13, <2>4 DEF OpenPage, Emit, Socket
    <3>2. JoinLast(socket'[t].out, d)
      BY <3>1, SocketParts, JoinEmitted
    <3>3. \A c \in Conversations : RoomOK(t, c)'
      BY <2>3, <3>2 DEF RoomOK, OpenOn
    <3> QED
      BY <1>5, <2>3, <3>3
  <2>5. CASE ~socket[t].up
    BY <1>4, <1>5, <1>13, <2>3, <2>5 DEF OpenPage
  <2> QED
    BY <2>4, <2>5
<1>14. ASSUME NEW t \in Tabs, ClosePage(t) PROVE HeadsForRoom'
  <2> DEFINE p == Blank(t, None, page[t].visit)
  <2>1. page' = [page EXCEPT ![t] = p]
    BY <1>14 DEF ClosePage
  <2>2. p.conv = None
    BY BlankIs DEF TypeOK, Page
  <2> HIDE DEF p
  <2>3. page'[t].conv = None /\ \A o \in Tabs : o # t => page'[o] = page[o] /\ socket'[o] = socket[o]
    BY <1>7, <1>14, <2>1, <2>2 DEF ClosePage
  <2>4. \A c \in Conversations : ~OpenOn(t, c)'
    BY <2>3, NoneIsNoConversation DEF OpenOn
  <2> QED
    BY <1>5, <2>3, <2>4 DEF RoomOK
<1>15. ASSUME NEW t \in Tabs, Drop(t) PROVE HeadsForRoom'
  <2>1. ~socket'[t].up /\ UNCHANGED page /\ \A o \in Tabs : o # t => socket'[o] = socket[o]
    BY <1>7, <1>15 DEF Drop, Down
  <2> QED
    BY <1>4, <1>5, <2>1
<1>16. CASE Crash
  <2>1. \A t \in Tabs : ~socket'[t].up
    BY <1>16 DEF Crash, Down
  <2> QED
    BY <1>2, <1>4, <2>1
<1>17. ASSUME NEW t \in Tabs, Receive(t) PROVE HeadsForRoom'
  <2>1. \A o \in Tabs : SameSocket(o)
    BY <1>7, <1>17 DEF Receive, Socket
  <2>2. \A o \in Tabs : page'[o].conv = page[o].conv
    BY <1>7, <1>17 DEF Receive, Page
  <2> QED
    BY <1>6, <2>1, <2>2
<1>18. ASSUME NEW s \in Slots, Publish(s) PROVE HeadsForRoom'
  <2>1. \A o \in Tabs : SameSocket(o)
    BY <1>7, <1>18 DEF Publish, Broadcast, Socket
  <2> QED
    BY <1>6, <1>18, <2>1 DEF Publish
<1>19. ASSUME NEW S, page' = Freed(S), UNCHANGED socket PROVE HeadsForRoom'
  BY <1>6, <1>8, <1>19, FreedIs
<1>20. ASSUME UNCHANGED socket, \A t \in Tabs : page'[t].conv = page[t].conv PROVE HeadsForRoom'
  BY <1>6, <1>20
<1>21. ASSUME NEW s \in Slots, ApplyHistory(s) \/ SendAnswered(s) \/ SendRefused(s) PROVE HeadsForRoom'
  <2>1. UNCHANGED socket
    BY <1>21 DEF ApplyHistory, Load, SendAnswered, SendRefused, Settle
  <2>2. ASSUME NEW t \in Tabs PROVE page'[t].conv = page[t].conv
    <3>1. CASE ApplyHistory(s)
      BY <3>1, LoadIs
    <3>2. CASE SendAnswered(s) \/ SendRefused(s)
      <4>1. PICK list : Settle(s, list, FALSE)
        BY <3>2 DEF SendAnswered, SendRefused
      <4> QED
        BY <1>7, <4>1 DEF Settle, Page
    <3> QED
      BY <1>21, <3>1, <3>2
  <2> QED
    BY <1>20, <2>1, <2>2
<1>22. ASSUME NEW t \in Tabs, Submit(t) PROVE HeadsForRoom'
  BY <1>7, <1>20, <1>22 DEF Submit, Page
<1>23. CASE UNCHANGED <<page, socket>>
  BY <1>20, <1>23
<1>24. ASSUME NEW s \in Slots, Serve(s) PROVE HeadsForRoom'
  BY <1>18, <1>21, <1>23, <1>24
     DEF Serve, List, ListRefused, MarkRead, MarkAs, CheckSend, CreateMessage
<1> QED
  BY <1>9, <1>10, <1>11, <1>12, <1>13, <1>14, <1>15, <1>16, <1>17, <1>19, <1>22, <1>23, <1>24
     DEF Next, Progress, Deliver, Lose, LoseRunning, EndConnection, ReviveConnection, vars

-----------------------------------------------------------------------------
(* The invariant holds *)

Inv ==
  /\ TypeOK /\ CallsOK /\ PagesOK /\ SocketsOK /\ Written /\ ReadByOther /\ OneLoad
  /\ FormIsAwaited /\ HeadsForRoom

\* The invariant holds at first.
LEMMA Start == Init => Inv
<1> SUFFICES ASSUME Init PROVE Inv
  OBVIOUS
<1>1. TypeOK
  <2>1. NoPage \in Page
    BY Limits DEF NoPage, Page
  <2>2. log \in Seq([conv : Conversations, sender : Users]) /\ Messages = {}
    BY DEF Init, Messages
  <2> QED
    BY <2>1, <2>2, NoCallIs, DownIs DEF Init, TypeOK
<1>2. \A t \in Tabs : PageOK(t)
  BY DEF Init, PageOK, Thread, NoPage
<1>3. \A t \in Tabs : SocketOK(t)
  BY DEF Init, SocketOK, Down
<1>4. Written /\ ReadByOther
  BY DEF Init, Written, ReadByOther, Messages
<1>5. CallsOK /\ OneLoad
  BY NoCallIs DEF Init, CallsOK, OneLoad, Loads
<1>6. FormIsAwaited
  BY NoCallIs DEF Init, FormIsAwaited, Awaited, SendsInFlight, NoPage
<1>7. HeadsForRoom
  BY DEF Init, HeadsForRoom, Down
<1> QED
  BY <1>1, <1>2, <1>3, <1>4, <1>5, <1>6, <1>7 DEF Inv, PagesOK, SocketsOK

\* Every step keeps the invariant.
LEMMA Step == Inv /\ [Next]_vars => Inv'
  BY TypeStep, CallsStep, PagesStep, SocketsStep, WrittenStep, ReadStep, LoadsStep, FormStep, RoomStep DEF Inv

\* The invariant always holds.
LEMMA Always == Spec => []Inv
  BY Start, Step, PTL DEF Spec

-----------------------------------------------------------------------------
(* Theorems *)

\* Tables, pages, calls and sockets have their types, however many there are.
THEOREM ChatTypes == Spec => []TypeOK
<1>1. Inv => TypeOK
  BY DEF Inv
<1> QED
  BY <1>1, Always, PTL

\* No room, socket, response, screen or row of a conversation is anyone's but
\* its members': isParticipant guards handleJoin, listMessages and sendMessage,
\* and what passes it is delivered by room alone.
THEOREM NobodyElse == Spec => []Private
<1>1. Inv => Private
  <2> SUFFICES ASSUME Inv PROVE Private
    OBVIOUS
  <2>1. ASSUME NEW t \in Tabs
        PROVE  /\ \A c \in socket[t].rooms : IsMember(t, c)
               /\ \A m \in Range(socket[t].in) \cup Range(page[t].shown) : IsMember(t, log[m].conv)
    <3>1. socket[t].in \in Seq(Nat) /\ page[t].shown \in Seq(Nat) /\ SocketOK(t) /\ PageOK(t)
      BY SocketParts DEF Inv, TypeOK, Page, SocketsOK, PagesOK
    <3>2. \A m \in Range(socket[t].in) : IsMember(t, log[m].conv)
      <4>1. DOMAIN socket[t].in = 1..Len(socket[t].in)
        BY <3>1
      <4> QED
        BY <3>1, <4>1 DEF SocketOK, Range
    <3>3. \A m \in Range(page[t].shown) : IsMember(t, log[m].conv)
      <4>1. DOMAIN page[t].shown = 1..Len(page[t].shown)
        BY <3>1
      <4>2. \A i \in 1..Len(page[t].shown) : IsMember(t, log[page[t].shown[i]].conv)
        BY <3>1 DEF PageOK, Thread
      <4> QED
        BY <4>1, <4>2 DEF Range
    <3> QED
      BY <3>1, <3>2, <3>3 DEF SocketOK
  <2>2. \A s \in Slots : calls[s].rows # <<>> => IsMember(Caller(s), calls[s].conv)
    BY NoCallIs DEF Inv, CallsOK, CallOK, Caller
  <2> QED
    BY <2>1, <2>2 DEF Private, Inv, Written
<1> QED
  BY <1>1, Always, PTL

\* The list on screen is of the page's own conversation and without repeats,
\* whatever mixture of history, broadcasts and responses of other visits arrives
\* (page.tsx: "cancelled", and the check by id in setMessages).
THEOREM CleanThreads == Spec => []ThreadClean
<1>1. Inv => ThreadClean
  <2> SUFFICES ASSUME Inv, NEW t \in Tabs
               PROVE  IsInjective(page[t].shown) /\ \A m \in Range(page[t].shown) : OpenOn(t, log[m].conv)
    BY DEF ThreadClean
  <2>1. page[t].shown \in Seq(Nat) /\ Thread(page[t].shown, page[t].conv)
    BY DEF Inv, TypeOK, Page, PagesOK, PageOK
  <2> QED
    <3>1. DOMAIN page[t].shown = 1..Len(page[t].shown)
      BY <2>1
    <3>2. IsInjective(page[t].shown)
      BY <2>1, <3>1 DEF Thread, IsInjective
    <3>3. \A m \in Range(page[t].shown) : OpenOn(t, log[m].conv)
      BY <2>1, <3>1 DEF Thread, Range, OpenOn
    <3> QED
      BY <3>2, <3>3
<1> QED
  BY <1>1, Always, PTL

\* messages/read never marks a message for its own sender, and only for a member
\* a tab of whom has had the history of that very chat.
THEOREM OnlyTheOtherReads == Spec => []ReadByOther
<1>1. Inv => ReadByOther
  BY DEF Inv
<1> QED
  BY <1>1, Always, PTL

\* A list with its history on screen is never replaced: a visit has one load,
\* and no retry, late answer or load of another visit reaches it afterwards.
THEOREM NothingVanishes == Spec => KeepsShown
<1>1. Inv /\ [Next]_vars =>
        [\A t \in Tabs :
           page[t].applied /\ page'[t].visit = page[t].visit /\ page'[t].conv # None
             => IsPrefix(page[t].shown, page'[t].shown)]_vars
  BY ShownStep DEF Inv
<1> QED
  BY <1>1, Always, PTL DEF Spec, KeepsShown

\* The form waits for exactly one send of its page or for none: no loss, retry,
\* late answer, closed page or restart of the API frees it early or leaves it
\* disabled with nothing on the way.
THEOREM FormsAwaited == Spec => []FormIsAwaited
<1>1. Inv => FormIsAwaited
  BY DEF Inv
<1> QED
  BY <1>1, Always, PTL

\* An open page with a socket has a way into its room: it is in it, its join is
\* waiting or its join is on the wire after every leave of an earlier visit.
THEOREM RoomsAhead == Spec => []HeadsForRoom
<1>1. Inv => HeadsForRoom
  BY DEF Inv
<1> QED
  BY <1>1, Always, PTL
=============================================================================
