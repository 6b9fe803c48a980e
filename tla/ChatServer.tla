------------------------------ MODULE ChatServer ------------------------------
(***************************************************************************)
(* ChatService behind ChatController, and ChatGateway.  Membership of a    *)
(* conversation never changes, so a participant check is one step with the *)
(* statement it guards; whether the connection has ended does, so the      *)
(* check of sendMessage is a step of its own.                              *)
(***************************************************************************)
EXTENDS ChatState

\* listMessages: 403 for a non-member, also after the connection has ended.
List(s) ==
  LET c == calls[s].conv IN
  /\ At(s, "list", "sent")
  /\ \/ IsMember(Caller(s), c)
        /\ \E rows \in Newest(c) : calls' = [calls EXCEPT ![s].pc = "done", ![s].rows = rows]
     \/ ~IsMember(Caller(s), c) /\ Goto(s, "refused")
  /\ UNCHANGED <<log, read, ended, page, socket, drops>>

MarkAs(s, messages) ==
  /\ At(s, "read", "sent") /\ IsMember(Caller(s), calls[s].conv)
  /\ read' = read \cup messages
  /\ Done(s) /\ UNCHANGED <<log, ended, page, socket, drops>>

\* Every chat of the caller: without "conversationId".
MarkEveryChat(s) ==
  LET t == Caller(s) IN
  MarkAs(s, {m \in Messages : IsMember(t, log[m].conv) /\ log[m].sender # Owner[t]})

\* markRead: every message the other member has sent so far.  The page does
\* nothing with the response.
MarkRead(s) ==
  MarkAs(s, {m \in MessagesOf(calls[s].conv) : log[m].sender # Owner[Caller(s)]})

\* sendMessage, its checks; api.ts repeats a 403 once, to the same end.
CheckSend(s) ==
  LET c == calls[s].conv
      allowed == IsMember(Caller(s), c) /\ c \notin ended
  IN
  /\ At(s, "send", "sent")
  /\ \/ allowed /\ Goto(s, "create")
     \/ ~allowed /\ Goto(s, "refused")
  /\ UNCHANGED <<log, read, ended, page, socket, drops>>

CreateMessage(s) ==
  /\ At(s, "send", "create")
  /\ log' = Append(log, [conv |-> calls[s].conv, sender |-> Owner[Caller(s)]])
  /\ calls' = [calls EXCEPT ![s].pc = "publish", ![s].row = Len(log) + 1]
  /\ UNCHANGED <<read, ended, page, socket, drops>>

\* publishMessageSent runs handleMessageSent synchronously.
Broadcast(c, m) ==
  socket' = [t \in Tabs |->
    IF c \in socket[t].rooms THEN [socket[t] EXCEPT !.in = Append(@, m)] ELSE socket[t]]
\* Only to the room's other sockets.
BroadcastToOthers(u, c, m) ==
  socket' = [t \in Tabs |->
    IF c \in socket[t].rooms /\ Owner[t] # u THEN [socket[t] EXCEPT !.in = Append(@, m)]
    ELSE socket[t]]

PublishToOthers(s) ==
  /\ At(s, "send", "publish")
  /\ BroadcastToOthers(Owner[Caller(s)], calls[s].conv, calls[s].row)
  /\ Goto(s, "done") /\ UNCHANGED <<log, read, ended, page, drops>>

Publish(s) ==
  /\ At(s, "send", "publish")
  /\ Broadcast(calls[s].conv, calls[s].row)
  /\ Goto(s, "done") /\ UNCHANGED <<log, read, ended, page, drops>>

-----------------------------------------------------------------------------
(* Gateway *)

TakeEvent(t, joining, rooms) ==
  /\ socket' = [socket EXCEPT ![t].out = Tail(@), ![t].joining = joining, ![t].rooms = rooms]
  /\ UNCHANGED <<log, read, ended, page, calls, drops>>

Arrives(t, name, c) ==
  /\ socket[t].up /\ socket[t].out # <<>>
  /\ Head(socket[t].out) = [name |-> name, conv |-> c]

\* handleJoin up to its await.
JoinArrives(t, c) ==
  /\ Arrives(t, "join", c)
  /\ TakeEvent(t, [socket[t].joining EXCEPT ![c] = @ + 1], socket[t].rooms)

\* A leave that takes back a join.
LeaveUndoes(t, c) ==
  /\ Arrives(t, "leave", c)
  /\ TakeEvent(t, [socket[t].joining EXCEPT ![c] = @ - 1], socket[t].rooms)

\* handleLeave; it does not touch a join still waiting.
LeaveArrives(t, c) ==
  /\ Arrives(t, "leave", c)
  /\ TakeEvent(t, socket[t].joining, socket[t].rooms \ {c})

Join(t, c, allowed) ==
  /\ socket[t].joining[c] > 0
  /\ socket' = [socket EXCEPT ![t].joining[c] = @ - 1,
                              ![t].rooms = IF allowed THEN @ \cup {c} ELSE @]
  /\ UNCHANGED <<log, read, ended, page, calls, drops>>

\* Joining on the client's word.
JoinUnchecked(t, c) == Join(t, c, TRUE)

\* The rest of handleJoin.
FinishJoin(t, c) == Join(t, c, IsMember(t, c))
=============================================================================
