--------------------------------- MODULE Chat ---------------------------------
(***************************************************************************)
(* Chat pages and the API together.                                        *)
(***************************************************************************)
EXTENDS ChatServer, ChatPage, SequencesExt

\* removeConnection or createBlock, and a later acceptRequest.
EndConnection(c) ==
  /\ c \in Endable
  /\ ended' = ended \cup {c} /\ c \notin ended
  /\ UNCHANGED <<log, read, page, calls, socket, drops>>
ReviveConnection(c) ==
  /\ ended' = ended \ {c} /\ c \in ended
  /\ UNCHANGED <<log, read, page, calls, socket, drops>>

\* One slot's call moves on.
Serve(s) ==
  \/ List(s) \/ ApplyHistory(s) \/ ListRefused(s) \/ MarkRead(s)
  \/ CheckSend(s) \/ CreateMessage(s) \/ Publish(s)
  \/ SendAnswered(s) \/ SendRefused(s)
\* One tab's socket moves on.
Deliver(t) == \E c \in Conversations : JoinArrives(t, c) \/ LeaveArrives(t, c)
Progress(t) == Deliver(t) \/ Receive(t) \/ Connect(t)

Next ==
  \/ \E s \in Slots : Serve(s) \/ Lose(s) \/ \E o \in Slots : LoseRunning(s, o)
  \/ \E t \in Tabs :
       \/ Progress(t) \/ Drop(t)
       \/ Submit(t) \/ ClosePage(t)
       \/ \E c \in Conversations : OpenPage(t, c) \/ FinishJoin(t, c)
  \/ \E c \in Conversations : EndConnection(c) \/ ReviveConnection(c)
  \/ Crash

Spec == Init /\ [][Next]_vars

\* The event loop resumes every call, the network moves what it has not lost,
\* Socket.IO reconnects.  Nobody has to open, send, close or unmatch.
Fairness ==
  /\ \A s \in Slots : WF_vars(Serve(s))
  /\ \A t \in Tabs :
       /\ WF_vars(Deliver(t)) /\ WF_vars(Receive(t)) /\ WF_vars(Connect(t))
       /\ \A c \in Conversations : WF_vars(FinishJoin(t, c))
FairSpec == Spec /\ Fairness

-----------------------------------------------------------------------------
(* Safety *)

\* Nothing of a conversation reaches anyone but its members: no room, no
\* message on a socket, in a response or on a screen, no row written.
Private ==
  /\ \A m \in Messages : log[m].sender \in Members[log[m].conv]
  /\ \A t \in Tabs :
       /\ \A c \in socket[t].rooms : IsMember(t, c)
       /\ \A m \in Range(socket[t].in) \cup Range(page[t].shown) : IsMember(t, log[m].conv)
  /\ \A s \in Slots : calls[s].rows # <<>> => IsMember(Caller(s), calls[s].conv)

\* A page shows messages of its own conversation, each once, whatever history,
\* broadcast and response bring in whatever order.
ThreadClean ==
  \A t \in Tabs :
    /\ IsInjective(page[t].shown)
    /\ \A m \in Range(page[t].shown) : OpenOn(t, log[m].conv)

\* A message has been read only if a tab of the other member has had the history
\* of that very chat, and never because its sender has (page.tsx:38,
\* DATABASE.md:264): being refused in a chat, or opening another one, reads nothing.
ReadByOther ==
  \A m \in read : \E t \in Tabs :
    /\ IsMember(t, log[m].conv) /\ Owner[t] # log[m].sender
    /\ log[m].conv \in page[t].loaded

\* Once its history is on screen, a page only ever adds messages at the end.
KeepsShown ==
  [][\A t \in Tabs :
       page[t].applied /\ page'[t].visit = page[t].visit /\ page'[t].conv # None
         => IsPrefix(page[t].shown, page'[t].shown)]_vars

\* The form is disabled exactly while one send of its own page is on its way,
\* whatever is lost, left, answered late or crashed meanwhile.
Awaited(t) == {s \in SendsInFlight : Caller(s) = t /\ OnPage(s)}
FormIsAwaited ==
  \A t \in Tabs :
    /\ page[t].sending <=> Awaited(t) # {}
    /\ \A r, s \in Awaited(t) : r = s

\* A page that is open while its socket is up is in its room, or joining it, or
\* its join is on the wire, and no leave of an earlier visit comes after.
Emitted(t, name, c) ==
  {i \in 1..Len(socket[t].out) : socket[t].out[i] = [name |-> name, conv |-> c]}
HeadsForRoom ==
  \A t \in Tabs, c \in Conversations :
    OpenOn(t, c) /\ socket[t].up /\ IsMember(t, c) =>
      \/ \E i \in Emitted(t, "join", c) : \A j \in Emitted(t, "leave", c) : j < i
      \/ Emitted(t, "leave", c) = {} /\ (c \in socket[t].rooms \/ socket[t].joining[c] > 0)

\* No message enters a conversation whose connection has ended.
NoMessageOnceEnded ==
  [][Len(log') > Len(log) => log'[Len(log')].conv \notin ended]_vars

-----------------------------------------------------------------------------
(* Liveness *)

\* The form never stays disabled: every send is answered or given up.
SendingEnds == \A t \in Tabs : page[t].sending ~> ~page[t].sending

\* A page that stays open while its socket stays up ends up in its room for
\* good, across reconnections and earlier visits.
StaysJoined ==
  \A t \in Tabs, c \in Conversations :
    <>[](OpenOn(t, c) /\ socket[t].up /\ IsMember(t, c)) => <>[](c \in socket[t].rooms)

\* A message published to a page that is loaded and joined appears there,
\* unless the page closes or loses its socket first.
Leaving(t, c) == Shows(socket[t].out, [name |-> "leave", conv |-> c])
Awaits(t, s) ==
  /\ calls[s].pc = "publish" /\ calls[s].conv \in socket[t].rooms
  /\ OpenOn(t, calls[s].conv) /\ page[t].applied /\ ~Leaving(t, calls[s].conv)
LiveDelivery ==
  \A t \in Tabs, m \in 1..MaxMessages :
    (\E s \in Slots : calls[s].row = m /\ Awaits(t, s))
      ~> (Shows(page[t].shown, m) \/ page[t].conv = None \/ ~socket[t].up)

\* A page that has loaded its history comes to show every message of the other
\* member, unless it closes or loses its socket first (chat.gateway.ts:30).
OpenTabsSee ==
  \A t \in Tabs, m \in 1..MaxMessages :
    /\ m \in Messages /\ OpenOn(t, log[m].conv) /\ page[t].applied
    /\ log[m].sender # Owner[t]
    ~>
      (Shows(page[t].shown, m) \/ page[t].conv = None \/ ~socket[t].up)
=============================================================================
