-------------------------------- MODULE Store --------------------------------
(***************************************************************************)
(* The PostgreSQL tables behind connection requests, connections and       *)
(* blocks, and the API calls in flight over them.                          *)
(*                                                                         *)
(* The API runs one call per handler: an async method of a NestJS service  *)
(* suspended at its next database statement.  Statements of different      *)
(* calls interleave freely, under READ COMMITTED (the default of both      *)
(* PostgreSQL and Prisma, which the code never overrides):                 *)
(*   - a statement sees the rows committed when it started;                *)
(*   - an UPDATE or DELETE that meets a row locked by another transaction  *)
(*     waits, then tests its WHERE clause again on the committed row;      *)
(*   - what a transaction wrote reaches the others when it commits.        *)
(* A row lock is therefore not a variable: who holds and who wants which   *)
(* row follows from where each call stands.                                *)
(***************************************************************************)
EXTENDS Naturals, FiniteSets

CONSTANTS
  Users,        \* user ids; < on them stands for the order [a, b].sort() uses
  ActiveUsers,  \* users whose status is ACTIVE (no code under src/ changes it)
  Activities,   \* activity ids
  RequestIds,   \* connection request ids; also bounds how many are ever sent
  Handlers,     \* API calls that can be in flight at once
  None          \* absence of a user, an activity or a request

ASSUME UsersOrdered == Users \subseteq Nat
ASSUME ActiveAreUsers == ActiveUsers \subseteq Users
ASSUME NoneIsNothing == None \notin Users \cup Activities \cup RequestIds

VARIABLES
  requests,       \* connection_requests: id -> row
  connections,    \* connections: sorted pair and activity -> removedAt state
  conversations,  \* conversations: the keys of the connections that have one
  blocks,         \* blocks: <<blockerId, blockedId>>, committed
  calls           \* handler -> the call it is running

tables == <<requests, connections, conversations, blocks>>
vars == <<requests, connections, conversations, blocks, calls>>

-----------------------------------------------------------------------------
(* Rows. *)

Pair == Users \X Users
Key == Users \X Users \X Activities

\* "free" is an id not yet used; "gone" is a hard-deleted row, whose id (a
\* UUID) never comes back.
Status == {"free", "PENDING", "ACCEPTED", "DECLINED", "gone"}
Request == [requester : Users \cup {None}, recipient : Users \cup {None},
            activity : Activities \cup {None}, status : Status]
FreeRequest == [requester |-> None, recipient |-> None, activity |-> None,
                status |-> "free"]
ConnectionState == {"none", "active", "removed"}

\* "sorted", and the bug of leaving the sort out.
AsGivenKey(u, v, x) == <<u, v, x>>
SortedKey(u, v, x) == IF u < v THEN <<u, v, x>> ELSE <<v, u, x>>

RequestKey(r) ==
  SortedKey(requests[r].requester, requests[r].recipient, requests[r].activity)
KeysBetween(u, v) == {SortedKey(u, v, x) : x \in Activities}

Pending(r) == requests[r].status = "PENDING"
PendingFrom(u, v) ==
  {r \in RequestIds : Pending(r) /\ requests[r].requester = u /\ requests[r].recipient = v}
PendingBetween(u, v) == PendingFrom(u, v) \cup PendingFrom(v, u)
PendingFor(u, v, x) == {r \in PendingFrom(u, v) : requests[r].activity = x}

Active(k) == connections[k] = "active"
Blocked(u, v) == <<u, v>> \in blocks \/ <<v, u>> \in blocks

-----------------------------------------------------------------------------
(* Calls.  pc names the next statement, or the answer about to be returned. *)

SendPc == {"sendConnected", "sendCreate"}
AcceptPc == {"acceptClaim", "acceptConnect"}
BlockPc == {"blockInsert", "blockScanConnections", "blockEndConnections",
            "blockScanRequests", "blockDeclineRequests"}
Answer == {"accepted", "declined", "cancelled"}
Pc == {"idle", "declineWrite", "cancelWrite", "removeWrite"}
        \cup SendPc \cup AcceptPc \cup BlockPc \cup Answer

Call == [pc : Pc,
         me : Users \cup {None},           \* sender or blocker
         peer : Users \cup {None},         \* recipientId or blockedUserId
         activity : Activities \cup {None},
         request : RequestIds \cup {None}, \* the request id of the route
         conns : SUBSET Key,               \* connections to end
         rows : SUBSET RequestIds]         \* requests to decline
Idle == [pc |-> "idle", me |-> None, peer |-> None, activity |-> None,
         request |-> None, conns |-> {}, rows |-> {}]

At(h, pc) == calls[h].pc = pc
Begin(h, call) == calls[h] = Idle /\ calls' = [calls EXCEPT ![h] = call]
Goto(h, pc) == calls' = [calls EXCEPT ![h].pc = pc]
Finish(h) == calls' = [calls EXCEPT ![h] = Idle]

\* Rows locked by h's open transaction.
HeldRequests(h) == IF At(h, "acceptConnect") THEN {calls[h].request} ELSE {}
HeldConnections(h) ==
  IF calls[h].pc \in {"blockScanRequests", "blockDeclineRequests"}
  THEN calls[h].conns ELSE {}

\* An accept whose second statement also resolves the pair's other requests.
WantedWithCrossing(h) ==
  LET c == calls[h]  q == requests[c.request] IN
  CASE c.pc \in {"acceptClaim", "declineWrite", "cancelWrite"} -> {c.request}
    [] At(h, "acceptConnect") -> PendingBetween(q.requester, q.recipient) \ {c.request}
    [] At(h, "blockDeclineRequests") -> c.rows
    [] OTHER -> {}

\* Rows h's next statement has to lock.  An INSERT waits for a row that its
\* unique index already holds and that another transaction is changing.
WantedRequests(h) ==
  CASE calls[h].pc \in {"acceptClaim", "declineWrite", "cancelWrite"} -> {calls[h].request}
    [] At(h, "blockDeclineRequests") -> calls[h].rows
    [] At(h, "sendCreate") -> PendingFor(calls[h].me, calls[h].peer, calls[h].activity)
    [] OTHER -> {}
WantedConnections(h) ==
  CASE At(h, "acceptConnect") -> {RequestKey(calls[h].request)}
    [] calls[h].pc \in {"removeWrite", "blockEndConnections"} -> calls[h].conns
    [] OTHER -> {}

WaitsFor(h, g) ==
  /\ g # h
  /\ \/ WantedRequests(h) \cap HeldRequests(g) # {}
     \/ WantedConnections(h) \cap HeldConnections(g) # {}
Clear(h) == \A g \in Handlers : ~WaitsFor(h, g)

\* h is on a cycle of waiting transactions.
Deadlocked(h) ==
  \E S \in SUBSET Handlers :
    /\ h \in S
    /\ \A g \in S : (\E k \in S : WaitsFor(g, k)) /\ (\E k \in S : WaitsFor(k, g))

-----------------------------------------------------------------------------
NoVictim(h) == FALSE

\* PostgreSQL aborts a transaction on a wait cycle; the call answers 500.
DeadlockVictim(h) == Deadlocked(h) /\ Finish(h) /\ UNCHANGED tables

\* A call dies before its commit: process crash, lost database connection,
\* the 5 s timeout of an interactive transaction.  Its transaction rolls back.
Fail(h) == calls[h].pc \notin {"idle"} \cup Answer /\ Finish(h) /\ UNCHANGED tables

\* The response leaves.
Return(h) == calls[h].pc \in Answer /\ Finish(h) /\ UNCHANGED tables

Init ==
  /\ requests = [r \in RequestIds |-> FreeRequest]
  /\ connections = [k \in Key |-> "none"]
  /\ conversations = {}
  /\ blocks = {}
  /\ calls = [h \in Handlers |-> Idle]

\* Tables and calls have their types.
TypeOK ==
  /\ requests \in [RequestIds -> Request]
  /\ connections \in [Key -> ConnectionState]
  /\ conversations \subseteq Key
  /\ blocks \subseteq Pair
  /\ calls \in [Handlers -> Call]
=============================================================================
