------------------------------ MODULE ChatState ------------------------------
(***************************************************************************)
(* What a chat consists of: the messages table, the page open in each      *)
(* browser tab, the HTTP calls of those pages, and each tab's Socket.IO    *)
(* connection.                                                             *)
(*                                                                         *)
(* A message is its position in log: rows are numbered in sentAt order.    *)
(***************************************************************************)
EXTENDS Naturals, Sequences, FiniteSets

CONSTANTS
  Users,
  Tabs,           \* browser tabs; each has at most one socket
  Owner,          \* tab -> the user logged in there
  Conversations,
  Members,        \* conversation -> the two users of its connection
  Slots,          \* HTTP calls that can be in flight at once
  Endable,        \* conversations whose connection may end or be revived
  PageSize,       \* DEFAULT_MESSAGE_PAGE_SIZE
  MaxAttempts,    \* attempts of fetchWithRetry
  MaxMessages,    \* bound on Len(log)
  MaxVisits,      \* bound on how often a tab opens a chat page
  MaxDrops,       \* bound on lost sockets and API restarts
  None

ASSUME OwnerIsUser == Owner \in [Tabs -> Users]
ASSUME MembersAreUsers == Members \in [Conversations -> SUBSET Users]
ASSUME NoneIsNoConversation == None \notin Conversations \cup Tabs
ASSUME Limits ==
  /\ PageSize \in Nat \ {0} /\ MaxAttempts \in Nat \ {0}
  /\ MaxMessages \in Nat /\ MaxVisits \in Nat /\ MaxDrops \in Nat

VARIABLES
  log,    \* messages: Seq([conv, sender])
  read,   \* messages with a readAt
  ended,  \* conversations whose connection has a removedAt
  page,   \* tab -> the chat page it shows
  calls,  \* slot -> the HTTP call it carries
  socket, \* tab -> its socket, both ends
  drops   \* sockets and processes lost so far

vars == <<log, read, ended, page, calls, socket, drops>>

-----------------------------------------------------------------------------
(* Messages *)

Messages == 1..Len(log)
MessagesOf(c) == {m \in Messages : log[m].conv = c}
IsMember(t, c) == Owner[t] \in Members[c]

\* The newest PageSize messages of c, oldest first: there is one such list.
Newest(c) ==
  LET recent == {m \in MessagesOf(c) : Cardinality({n \in MessagesOf(c) : n > m}) < PageSize} IN
  {list \in [1..Cardinality(recent) -> recent] : \A i, j \in DOMAIN list : i < j => list[i] < list[j]}

Shows(list, m) == \E i \in 1..Len(list) : list[i] = m

-----------------------------------------------------------------------------
(* Pages.  visit tells one mounting of the page from the next. *)

Page == [conv : Conversations \cup {None}, visit : 0..MaxVisits,
         applied : BOOLEAN,     \* the history has been put on screen
         shown : Seq(Nat),      \* messages
         sending : BOOLEAN,
         loaded : SUBSET (Conversations \cup {None})] \* chats whose history the tab has had, here or on a page before
NoPage == [conv |-> None, visit |-> 0, applied |-> FALSE, shown |-> <<>>, sending |-> FALSE,
           loaded |-> {}]
OpenOn(t, c) == page[t].conv = c

-----------------------------------------------------------------------------
(* Calls.  pc "sent": at the server, on the way there, or sleeping before    *)
(* the next attempt; "create": a send past its checks; "publish": its row is *)
(* committed; "done", "refused": the response is on the way back.  visit 0:  *)
(* the client no longer waits for it.                                        *)

Call == [op : {"none", "list", "read", "send"},
         pc : {"free", "sent", "create", "publish", "done", "refused"},
         tab : Tabs \cup {None}, conv : Conversations \cup {None},
         visit : 0..MaxVisits, attempt : 0..MaxAttempts,
         rows : Seq(Nat),   \* the history a list read
         row : Nat]         \* the message a send created
NoCall == [op |-> "none", pc |-> "free", tab |-> None, conv |-> None,
           visit |-> 0, attempt |-> 0, rows |-> <<>>, row |-> 0]

At(s, op, pc) == calls[s].op = op /\ calls[s].pc = pc
Goto(s, pc) == calls' = [calls EXCEPT ![s].pc = pc]
Done(s) == calls' = [calls EXCEPT ![s] = NoCall]
Caller(s) == calls[s].tab
\* The page that issued s is still on screen.
OnPage(s) ==
  /\ calls[s].visit # 0 /\ page[Caller(s)].visit = calls[s].visit
  /\ page[Caller(s)].conv # None
SendsInFlight == {s \in Slots : calls[s].op = "send"}

-----------------------------------------------------------------------------
(* Sockets.  While a socket is down, out is the client's send buffer. *)

Event == [name : {"join", "leave"}, conv : Conversations]
Socket == [up : BOOLEAN,
           out : Seq(Event),                  \* client to server, FIFO
           joining : [Conversations -> Nat],  \* joins awaiting isParticipant
           rooms : SUBSET Conversations,
           in : Seq(Nat)]                     \* server to client, FIFO
NoJoins == [c \in Conversations |-> 0]
Down(buffer) == [up |-> FALSE, out |-> buffer, joining |-> NoJoins, rooms |-> {}, in |-> <<>>]
Emit(t, name, c) == Append(socket[t].out, [name |-> name, conv |-> c])

Init ==
  /\ log = <<>> /\ read = {} /\ ended = {} /\ drops = 0
  /\ page = [t \in Tabs |-> NoPage]
  /\ calls = [s \in Slots |-> NoCall]
  /\ socket = [t \in Tabs |-> Down(<<>>)]

\* Tables, pages, calls and sockets have their types.
TypeOK ==
  /\ log \in Seq([conv : Conversations, sender : Users])
  /\ read \subseteq Messages
  /\ ended \subseteq Conversations
  /\ page \in [Tabs -> Page]
  /\ calls \in [Slots -> Call]
  /\ socket \in [Tabs -> Socket]
  /\ drops \in Nat
=============================================================================
