----------------------------- MODULE OverlapProofs -----------------------------
(***************************************************************************)
(* What calls do to each other.  A call writes, waits and deadlocks within *)
(* the pair of users it is about; and calls that overlap without crossing, *)
(* which leaves out a send and an accept of one pair, or a block and       *)
(* either, keep the documented promise, sever and never deadlock.          *)
(***************************************************************************)
EXTENDS LifecycleProofs

Busy(h) == calls[h] # Idle

-----------------------------------------------------------------------------
(* The pair of a call. *)

\* Only an idle call has no pair.
LEMMA PartiesBusy ==
  ASSUME NEW h \in Handlers, Parties(h) # {}
  PROVE  Busy(h)
<1>1. ASSUME calls[h].pc = "idle" PROVE Parties(h) = {}
  BY <1>1 DEF Parties, SendPc, BlockPc
<1> QED
  BY <1>1 DEF Busy, Idle

\* The pair of a send or a block, of an unmatch, and of a call on a request.
LEMMA PartiesAre ==
  ASSUME NEW h \in Handlers
  PROVE  /\ calls[h].pc \in SendPc \cup BlockPc => Parties(h) = {calls[h].me, calls[h].peer}
         /\ \A k \in Key :
              calls[h].pc = "removeWrite" /\ calls[h].conns = {k} => Parties(h) = {k[1], k[2]}
         /\ calls[h].pc \in RequestPc =>
              Parties(h) = {requests[calls[h].request].requester, requests[calls[h].request].recipient}
<1>1. /\ "idle" \notin SendPc \cup BlockPc \cup RequestPc /\ "removeWrite" \notin SendPc \cup BlockPc
      /\ RequestPc \cap (SendPc \cup BlockPc \cup {"removeWrite"}) = {}
  BY DEF SendPc, BlockPc, RequestPc, AcceptPc, Answer
<1>2. \A k \in Key : UNION {{j[1], j[2]} : j \in {k}} = {k[1], k[2]}
  OBVIOUS
<1>3. calls[h].pc \in SendPc \cup BlockPc => Parties(h) = {calls[h].me, calls[h].peer}
  BY <1>1 DEF Parties, SendPc, BlockPc
<1>4. ASSUME NEW k \in Key, calls[h].pc = "removeWrite", calls[h].conns = {k}
      PROVE  Parties(h) = {k[1], k[2]}
  BY <1>1, <1>2, <1>4 DEF Parties
<1>5. calls[h].pc \in RequestPc =>
        Parties(h) = {requests[calls[h].request].requester, requests[calls[h].request].recipient}
  BY <1>1 DEF Parties, SendPc, BlockPc
<1> QED
  BY <1>3, <1>4, <1>5

\* A connection's key names its pair.
LEMMA KeyNames ==
  ASSUME NEW u \in Users, NEW v \in Users, NEW k \in KeysBetween(u, v)
  PROVE  k \in Key /\ {k[1], k[2]} = {u, v}
<1>1. PICK x \in Activities : k = SortedKey(u, v, x)
  BY DEF KeysBetween
<1>2. CASE k = <<u, v, x>>
  BY <1>2 DEF Key
<1>3. CASE k = <<v, u, x>>
  BY <1>3 DEF Key
<1> QED
  BY <1>1, <1>2, <1>3 DEF SortedKey

\* So does the key of a request.
LEMMA RequestKeyNames ==
  ASSUME NEW r \in RequestIds, RowShape(r), requests[r].status # "free"
  PROVE  /\ RequestKey(r) \in Key
         /\ {RequestKey(r)[1], RequestKey(r)[2]} = {requests[r].requester, requests[r].recipient}
<1> DEFINE u == requests[r].requester
           v == requests[r].recipient
<1>1. u \in Users /\ v \in Users /\ requests[r].activity \in Activities
  BY DEF RowShape
<1>2. RequestKey(r) \in KeysBetween(u, v)
  BY <1>1 DEF RequestKey, KeysBetween
<1> QED
  BY <1>1, <1>2, KeyNames

-----------------------------------------------------------------------------
(* Calls wait within their pair. *)

\* A row that one call holds and another wants belongs to the pair of both.
LEMMA WaitsWithin ==
  ASSUME Inv, Scopes, NEW g \in Handlers, NEW h \in Handlers, WaitsFor(h, g)
  PROVE  Parties(h) = Parties(g) /\ Busy(g) /\ Busy(h)
<1> USE DEF Inv, TypeOK, At
<1>1. ASSUME NEW r \in WantedRequests(h) \cap HeldRequests(g)
      PROVE  Parties(h) = Parties(g) /\ Busy(g) /\ Busy(h)
  <2>1. /\ Busy(g) /\ calls[g].request = r /\ r \in RequestIds
        /\ Parties(g) = {requests[r].requester, requests[r].recipient}
    BY <1>1, PartiesAre DEF HeldRequests, Busy, Idle, RequestPc, AcceptPc, Shapes, CallShape
  <2>2. CASE calls[h].pc \in {"acceptClaim", "declineWrite", "cancelWrite"}
    BY <1>1, <2>1, <2>2, PartiesAre DEF WantedRequests, Busy, Idle, RequestPc, AcceptPc
  <2>3. CASE At(h, "blockDeclineRequests")
    <3>1. {requests[r].requester, requests[r].recipient} = {calls[h].me, calls[h].peer}
      BY <1>1, <2>3 DEF WantedRequests, Scopes, Scoped
    <3>2. Busy(h) /\ Parties(h) = {calls[h].me, calls[h].peer}
      BY <2>3, PartiesAre DEF Busy, Idle, BlockPc
    <3> QED
      BY <2>1, <3>1, <3>2
  <2>4. CASE At(h, "sendCreate")
    <3>1. requests[r].requester = calls[h].me /\ requests[r].recipient = calls[h].peer
      BY <1>1, <2>4 DEF WantedRequests, PendingFor, PendingFrom
    <3> QED
      BY <2>1, <2>4, <3>1, PartiesAre DEF Busy, Idle, SendPc
  <2> QED
    BY <1>1, <2>2, <2>3, <2>4 DEF WantedRequests
<1>2. ASSUME NEW k \in WantedConnections(h) \cap HeldConnections(g)
      PROVE  Parties(h) = Parties(g) /\ Busy(g) /\ Busy(h)
  <2> DEFINE u == calls[g].me
             v == calls[g].peer
  <2>1. calls[g].pc \in {"blockScanRequests", "blockDeclineRequests"} /\ k \in calls[g].conns
    BY <1>2 DEF HeldConnections
  <2>2. u \in Users /\ v \in Users /\ Busy(g) /\ Parties(g) = {u, v}
    BY <2>1, PartiesAre DEF Shapes, CallShape, BlockPc, Busy, Idle
  <2>3. k \in Key /\ {k[1], k[2]} = {u, v}
    <3>1. k \in KeysBetween(u, v)
      BY <2>1 DEF Scopes, Scoped, Inserted, BlockPc
    <3> QED
      BY <2>2, <3>1, KeyNames
  <2>4. CASE At(h, "acceptConnect")
    <3> DEFINE r == calls[h].request
    <3>1. r \in RequestIds /\ RowShape(r) /\ requests[r].status # "free"
      BY <2>4 DEF Shapes, CallShape, RequestPc, AcceptPc
    <3>2. k = RequestKey(r)
      BY <1>2, <2>4 DEF WantedConnections
    <3>3. {k[1], k[2]} = {requests[r].requester, requests[r].recipient}
      BY <3>1, <3>2, RequestKeyNames
    <3>4. Busy(h) /\ Parties(h) = {requests[r].requester, requests[r].recipient}
      BY <2>4, PartiesAre DEF Busy, Idle, RequestPc, AcceptPc
    <3> QED
      BY <2>2, <2>3, <3>3, <3>4
  <2>5. CASE At(h, "removeWrite")
    <3>1. calls[h].conns = {k}
      BY <1>2, <2>5 DEF WantedConnections, Scopes, Scoped
    <3> QED
      BY <2>2, <2>3, <2>5, <3>1, PartiesAre DEF Busy, Idle
  <2>6. CASE At(h, "blockEndConnections")
    <3>1. /\ calls[h].me \in Users /\ calls[h].peer \in Users
          /\ k \in KeysBetween(calls[h].me, calls[h].peer)
      BY <1>2, <2>6 DEF WantedConnections, Scopes, Scoped, Inserted, BlockPc, Shapes, CallShape
    <3>2. {k[1], k[2]} = {calls[h].me, calls[h].peer}
      BY <3>1, KeyNames
    <3> QED
      BY <2>2, <2>3, <2>6, <3>2, PartiesAre DEF Busy, Idle, BlockPc
  <2> QED
    BY <1>2, <2>4, <2>5, <2>6 DEF WantedConnections
<1> QED
  BY <1>1, <1>2 DEF WaitsFor

\* A call that both waits and is waited for is an accept or a block, each
\* waiting for the other kind.
LEMMA CycleKinds ==
  ASSUME NEW f \in Handlers, NEW g \in Handlers, NEW h \in Handlers,
         NEW j \in Handlers, WaitsFor(f, h), WaitsFor(h, g), WaitsFor(g, j)
  PROVE  {calls[g].pc, calls[h].pc} = {"acceptConnect", "blockDeclineRequests"}
<1> USE DEF WaitsFor, HeldRequests, HeldConnections, WantedRequests, WantedConnections, At
<1>1. calls[h].pc \in {"acceptConnect", "blockScanRequests", "blockDeclineRequests"}
  BY DEF WaitsFor
<1>2. calls[g].pc \in {"acceptConnect", "blockScanRequests", "blockDeclineRequests"}
  OBVIOUS
<1>3. calls[h].pc # "blockScanRequests" /\ calls[g].pc # "blockScanRequests"
  OBVIOUS
<1>4. CASE calls[h].pc = "acceptConnect"
  BY <1>2, <1>3, <1>4
<1>5. CASE calls[h].pc = "blockDeclineRequests"
  BY <1>2, <1>3, <1>5
<1> QED
  BY <1>1, <1>3, <1>4, <1>5

\* A deadlock joins an accept and a block of one pair.
LEMMA DeadlockKinds == Inv /\ Scopes => OnlyBlocksDeadlock
<1> SUFFICES ASSUME Inv, Scopes, NEW h \in Handlers, Deadlocked(h)
             PROVE  \E g \in Handlers :
                      /\ WaitsFor(h, g) /\ Deadlocked(g) /\ Parties(g) = Parties(h)
                      /\ {calls[g].pc, calls[h].pc} = {"acceptConnect", "blockDeclineRequests"}
  BY DEF OnlyBlocksDeadlock
<1>1. PICK S \in SUBSET Handlers :
        /\ h \in S
        /\ \A g \in S : (\E k \in S : WaitsFor(g, k)) /\ (\E k \in S : WaitsFor(k, g))
  BY DEF Deadlocked
<1>2. PICK g \in S : WaitsFor(h, g)
  BY <1>1
<1>3. PICK f \in S, j \in S : WaitsFor(f, h) /\ WaitsFor(g, j)
  BY <1>1, <1>2
<1>4. g \in Handlers /\ Deadlocked(g)
  BY <1>1, <1>2 DEF Deadlocked
<1>5. {calls[g].pc, calls[h].pc} = {"acceptConnect", "blockDeclineRequests"}
  BY <1>2, <1>3, <1>4, CycleKinds
<1>6. Parties(g) = Parties(h)
  BY <1>2, <1>4, WaitsWithin
<1> QED
  BY <1>2, <1>4, <1>5, <1>6

\* The invariant of overlapping calls: rows, claims and scopes.
THEOREM ScopedInvariance == Spec => [](Inv /\ Scopes)
<1>1. Inv /\ Scopes /\ [Next]_vars => (Inv /\ Scopes)'
  BY InvStep, ScopeStep
<1> QED
  BY <1>1, InvInit, InitMaps, PTL DEF Spec

\* However many calls overlap, only an accept and a block of the same two users
\* can deadlock, each holding the row the other is waiting for.
THEOREM DeadlocksAreBlocks == Spec => []OnlyBlocksDeadlock
  BY ScopedInvariance, DeadlockKinds, PTL

-----------------------------------------------------------------------------
(* Calls write within their pair. *)

\* What is between two users after a step is what was, unless the call that
\* moved is about those two.
LEMMA Elsewhere ==
  ASSUME Inv, Scopes, [Next]_vars, NEW u \in Users, NEW v \in Users
  PROVE  \/ /\ PendingBetween(u, v)' = PendingBetween(u, v)
            /\ ActiveBetween(u, v)' = ActiveBetween(u, v)
            /\ Blocked(u, v)' => Blocked(u, v)
         \/ \E h \in Handlers : calls'[h] # calls[h] /\ Parties(h) = {u, v}
<1> DEFINE Kept == /\ PendingBetween(u, v)' = PendingBetween(u, v)
                   /\ ActiveBetween(u, v)' = ActiveBetween(u, v)
                   /\ Blocked(u, v)' => Blocked(u, v)
<1> USE DEF Inv, TypeOK, At
\* It is enough to look at single rows.
<1>1. ASSUME \A r \in RequestIds :
               {requests[r].requester, requests[r].recipient} = {u, v} \/
               {requests'[r].requester, requests'[r].recipient} = {u, v} => requests'[r] = requests[r],
             \A k \in KeysBetween(u, v) : connections'[k] = connections[k],
             <<u, v>> \in blocks' \/ <<v, u>> \in blocks' => Blocked(u, v)
      PROVE  Kept
  <2>1. PendingBetween(u, v)' = PendingBetween(u, v)
    <3>1. \A r \in RequestIds : r \in PendingBetween(u, v)' <=> r \in PendingBetween(u, v)
      BY <1>1 DEF PendingBetween, PendingFrom, Pending
    <3> QED
      BY <3>1 DEF PendingBetween, PendingFrom
  <2>2. ActiveBetween(u, v)' = ActiveBetween(u, v)
    BY <1>1 DEF ActiveBetween, Active, KeysBetween
  <2> QED
    BY <1>1, <2>1, <2>2 DEF Blocked
\* A key between the two names the two.
<1>2. \A k \in KeysBetween(u, v) : k \in Key /\ {k[1], k[2]} = {u, v}
  BY KeyNames
<1>3. ASSUME UNCHANGED <<requests, connections>>, blocks' \subseteq blocks PROVE Kept
  BY <1>1, <1>3 DEF Blocked
<1>4. ASSUME NEW h \in Handlers, Passive(h) \/ AcceptClaim(h) PROVE Kept
  BY <1>3, <1>4 DEF Passive, AcceptClaim, tables
<1>5. ASSUME NEW h \in Handlers, SendInsert(h), Parties(h) # {u, v} PROVE Kept
  <2>1. PICK r \in FreeIds : InsertRequest(h, r)
    BY <1>5 DEF SendInsert
  <2>2. Parties(h) = {calls[h].me, calls[h].peer}
    BY <1>5, PartiesAre DEF SendInsert, SendPc
  <2>3. r \in RequestIds /\ requests[r].status = "free"
    BY DEF FreeIds
  <2>4. /\ \A q \in RequestIds \ {r} : requests'[q] = requests[q]
        /\ {requests'[r].requester, requests'[r].recipient} = Parties(h)
    BY <2>1, <2>2, <2>3 DEF InsertRequest
  <2>5. PendingBetween(u, v)' = PendingBetween(u, v)
    <3>1. \A q \in RequestIds : q \in PendingBetween(u, v)' <=> q \in PendingBetween(u, v)
      BY <1>5, <2>3, <2>4 DEF PendingBetween, PendingFrom, Pending
    <3> QED
      BY <3>1 DEF PendingBetween, PendingFrom
  <2> QED
    BY <2>1, <2>5 DEF InsertRequest, ActiveBetween, Active, Blocked
<1>6. ASSUME NEW h \in Handlers, AcceptCommit(h), Parties(h) # {u, v} PROVE Kept
  <2> DEFINE r == calls[h].request
             k == RequestKey(r)
  <2>1. /\ r \in RequestIds /\ RowShape(r) /\ requests[r].status # "free"
        /\ Parties(h) = {requests[r].requester, requests[r].recipient}
    BY <1>6, PartiesAre DEF AcceptCommit, Connect, Shapes, CallShape, RequestPc, AcceptPc
  <2>2. k \in Key /\ {k[1], k[2]} = Parties(h)
    BY <2>1, RequestKeyNames
  <2>3. Connect(h, k, {k})
    BY <1>6 DEF AcceptCommit
  <2> HIDE DEF k
  <2>4. \A q \in RequestIds : q # r => requests'[q] = requests[q]
    BY <2>3 DEF Connect
  <2>5. {requests'[r].requester, requests'[r].recipient} = Parties(h)
    BY <2>1, <2>3 DEF Connect
  <2>6. \A j \in KeysBetween(u, v) : connections'[j] = connections[j]
    BY <1>2, <1>6, <2>2, <2>3 DEF Connect
  <2> QED
    BY <1>1, <1>6, <2>1, <2>3, <2>4, <2>5, <2>6 DEF Connect, Blocked
<1>7. ASSUME NEW h \in Handlers, DeclineWrite(h) \/ CancelWrite(h), Parties(h) # {u, v} PROVE Kept
  <2> DEFINE r == calls[h].request
  <2>1. /\ r \in RequestIds
        /\ Parties(h) = {requests[r].requester, requests[r].recipient}
    BY <1>7, PartiesAre DEF DeclineWrite, CancelWrite, Shapes, CallShape, RequestPc
  <2>2. PICK status \in Status, answer \in Answer : Resolve(h, status, answer)
    BY <1>7 DEF DeclineWrite, CancelWrite, Status, Answer
  <2>3. \A q \in RequestIds : q # r => requests'[q] = requests[q]
    BY <2>2 DEF Resolve
  <2>4. {requests'[r].requester, requests'[r].recipient} = Parties(h)
    BY <2>1, <2>2 DEF Resolve
  <2> QED
    BY <1>1, <1>7, <2>1, <2>2, <2>3, <2>4 DEF Resolve, Blocked
<1>8. ASSUME NEW h \in Handlers, RemoveWrite(h), Parties(h) # {u, v} PROVE Kept
  <2>1. PICK k \in Key : calls[h].conns = {k}
    BY <1>8 DEF RemoveWrite, Scopes, Scoped
  <2>2. Parties(h) = {k[1], k[2]}
    BY <1>8, <2>1, PartiesAre DEF RemoveWrite
  <2>3. \A j \in KeysBetween(u, v) : connections'[j] = connections[j]
    BY <1>2, <1>8, <2>1, <2>2 DEF RemoveWrite
  <2> QED
    BY <1>1, <1>8, <2>3 DEF RemoveWrite, Blocked
<1>9. ASSUME NEW h \in Handlers, BlockCommit(h), Parties(h) # {u, v} PROVE Kept
  <2> DEFINE a == calls[h].me
             b == calls[h].peer
  <2>1. a \in Users /\ b \in Users /\ Parties(h) = {a, b}
    BY <1>9, PartiesAre DEF BlockCommit, Sever, Shapes, CallShape, BlockPc
  <2>2. /\ calls[h].conns \subseteq KeysBetween(a, b)
        /\ \A r \in calls[h].rows : {requests[r].requester, requests[r].recipient} = {a, b}
    BY <1>9 DEF BlockCommit, Sever, Scopes, Scoped, Inserted, BlockPc
  <2>3. \A j \in KeysBetween(u, v) : connections'[j] = connections[j]
    <3>1. \A k \in calls[h].conns : {k[1], k[2]} = {a, b}
      BY <2>1, <2>2, KeyNames
    <3> QED
      BY <1>2, <1>9, <2>1, <3>1 DEF BlockCommit, Sever
  <2>4. \A r \in RequestIds :
          \/ requests'[r] = requests[r]
          \/ /\ {requests[r].requester, requests[r].recipient} = {a, b}
             /\ {requests'[r].requester, requests'[r].recipient} = {a, b}
    <3> SUFFICES ASSUME NEW r \in RequestIds, requests'[r] # requests[r]
                 PROVE  /\ {requests[r].requester, requests[r].recipient} = {a, b}
                        /\ {requests'[r].requester, requests'[r].recipient} = {a, b}
      OBVIOUS
    <3>1. r \in calls[h].rows /\ requests'[r] = [requests[r] EXCEPT !.status = "DECLINED"]
      BY <1>9 DEF BlockCommit, Sever, Decline
    <3> QED
      BY <2>2, <3>1
  <2>5. <<u, v>> \in blocks' \/ <<v, u>> \in blocks' => Blocked(u, v)
    BY <1>9, <2>1 DEF BlockCommit, Sever, Blocked
  <2> QED
    BY <1>1, <1>9, <2>1, <2>3, <2>4, <2>5
<1>10. ASSUME NEW a \in Users, NEW b \in Users, Unblock(a, b) PROVE Kept
  BY <1>3, <1>10 DEF Unblock
<1>11. CASE UNCHANGED vars
  BY <1>3, <1>11 DEF vars
\* The call that writes goes on or ends.
<1>12. ASSUME NEW h \in Handlers, Writes(h) PROVE calls'[h] # calls[h]
  <2>1. CASE calls[h].pc # "idle" /\ Finish(h)
    BY <2>1 DEF Finish, Idle
  <2>2. ASSUME NEW answer \in Answer, calls[h].pc \notin Answer, Goto(h, answer)
        PROVE  calls'[h] # calls[h]
    <3>1. calls'[h].pc = answer
      BY <2>2 DEF Goto, Call
    <3> QED
      BY <2>2, <3>1
  <2> QED
    BY <1>12, <2>1, <2>2
       DEF Writes, SendInsert, InsertRequest, AcceptCommit, Connect, DeclineWrite, CancelWrite,
           Resolve, RemoveWrite, BlockCommit, Sever, Answer
<1> QED
  BY <1>4, <1>5, <1>6, <1>7, <1>8, <1>9, <1>10, <1>11, <1>12, Moves DEF Writes

\* Every step, of any call, stays within the pair it is about.
THEOREM WritesStayInPair == Spec => StaysWithinPair
<1>1. ASSUME Inv, Scopes, [Next]_vars
      PROVE  \A u, v \in Users :
               \/ /\ PendingBetween(u, v)' = PendingBetween(u, v)
                  /\ ActiveBetween(u, v)' = ActiveBetween(u, v)
                  /\ Blocked(u, v)' => Blocked(u, v)
               \/ \E h \in Handlers : calls'[h] # calls[h] /\ Parties(h) = {u, v}
  BY <1>1, Elsewhere
<1> QED
  BY <1>1, ScopedInvariance, PTL DEF Spec, StaysWithinPair

-----------------------------------------------------------------------------
(* Only a send adds to what is pending between two users, only an accept to   *)
(* what is active, only a block blocks.                                       *)

\* A call about u and v moves.
Moving(h, u, v) == calls'[h] # calls[h] /\ Parties(h) = {u, v}

\* What a step adds between two users tells which call of theirs moved.
LEMMA GrowsBy ==
  ASSUME Inv, Scopes, [Next]_vars, NEW u \in Users, NEW v \in Users
  PROVE  /\ \/ PendingBetween(u, v)' \subseteq PendingBetween(u, v)
            \/ \E h \in Handlers : Moving(h, u, v) /\ calls[h].pc \in SendPc
         /\ \/ ActiveBetween(u, v)' \subseteq ActiveBetween(u, v)
            \/ \E h \in Handlers : Moving(h, u, v) /\ calls[h].pc \in AcceptPc
         /\ \/ Blocked(u, v)' => Blocked(u, v)
            \/ \E h \in Handlers : Moving(h, u, v) /\ calls[h].pc \in BlockPc
<1> DEFINE P == PendingBetween(u, v)' \subseteq PendingBetween(u, v)
           A == ActiveBetween(u, v)' \subseteq ActiveBetween(u, v)
           B == Blocked(u, v)' => Blocked(u, v)
<1> USE DEF Inv, TypeOK
<1>1. ASSUME NEW h \in Handlers, \A g \in Handlers \ {h} : calls'[g] = calls[g]
      PROVE  (P /\ A /\ B) \/ Moving(h, u, v)
  BY <1>1, Elsewhere DEF Moving
<1>2. ASSUME \A r \in RequestIds : Pending(r)' => requests'[r] = requests[r] PROVE P
  BY <1>2 DEF PendingBetween, PendingFrom, Pending
<1>3. ASSUME \A k \in Key : Active(k)' => Active(k) PROVE A
  <2>1. \A k \in KeysBetween(u, v) : k \in Key
    BY KeyNames
  <2> QED
    BY <1>3, <2>1 DEF ActiveBetween, KeysBetween
<1>4. ASSUME blocks' \subseteq blocks PROVE B
  BY <1>4 DEF Blocked
<1>5. ASSUME UNCHANGED <<requests, connections, blocks>> PROVE P /\ A /\ B
  BY <1>2, <1>3, <1>4, <1>5 DEF Active
<1>6. ASSUME NEW h \in Handlers, Passive(h) \/ AcceptClaim(h) PROVE P /\ A /\ B
  BY <1>5, <1>6 DEF Passive, AcceptClaim, tables
<1>7. ASSUME NEW h \in Handlers, SendInsert(h)
      PROVE  A /\ B /\ (P \/ Moving(h, u, v)) /\ calls[h].pc \in SendPc
  BY <1>1, <1>3, <1>4, <1>7 DEF SendInsert, InsertRequest, Finish, Active, At, SendPc
<1>8. ASSUME NEW h \in Handlers, AcceptCommit(h)
      PROVE  P /\ B /\ (A \/ Moving(h, u, v)) /\ calls[h].pc \in AcceptPc
  <2>1. \A r \in RequestIds : Pending(r)' => requests'[r] = requests[r]
    BY <1>8 DEF AcceptCommit, Connect, Request, Pending
  <2> QED
    BY <1>1, <1>2, <1>4, <1>8, <2>1 DEF AcceptCommit, Connect, Goto, At, AcceptPc
<1>9. ASSUME NEW h \in Handlers, DeclineWrite(h) \/ CancelWrite(h) PROVE P /\ A /\ B
  <2>1. PICK status \in {"DECLINED", "gone"}, answer \in Answer : Resolve(h, status, answer)
    BY <1>9 DEF DeclineWrite, CancelWrite, Answer
  <2>2. \A r \in RequestIds : Pending(r)' => requests'[r] = requests[r]
    BY <2>1 DEF Resolve, Request, Pending
  <2> QED
    BY <1>2, <1>3, <1>4, <2>1, <2>2 DEF Resolve, Active
<1>10. ASSUME NEW h \in Handlers, RemoveWrite(h) PROVE P /\ A /\ B
  BY <1>2, <1>3, <1>4, <1>10 DEF RemoveWrite, Active
<1>11. ASSUME NEW h \in Handlers, BlockCommit(h)
       PROVE  P /\ A /\ (B \/ Moving(h, u, v)) /\ calls[h].pc \in BlockPc
  <2>1. \A r \in RequestIds : Pending(r)' => requests'[r] = requests[r]
    BY <1>11 DEF BlockCommit, Sever, Decline, Request, Pending
  <2>2. \A k \in Key : Active(k)' => Active(k)
    BY <1>11 DEF BlockCommit, Sever, Active
  <2> QED
    BY <1>1, <1>2, <1>3, <1>11, <2>1, <2>2 DEF BlockCommit, Sever, Finish, At, BlockPc
<1>12. ASSUME NEW a \in Users, NEW b \in Users, Unblock(a, b) PROVE P /\ A /\ B
  BY <1>2, <1>3, <1>4, <1>12 DEF Unblock, Active
<1>13. CASE UNCHANGED vars
  BY <1>5, <1>13 DEF vars
<1> QED
  BY <1>6, <1>7, <1>8, <1>9, <1>10, <1>11, <1>12, <1>13, Moves DEF Writes

-----------------------------------------------------------------------------
(* Calls that overlap without crossing. *)

\* Severed row by row: no PENDING request and no active connection belongs
\* to a blocked pair.
Apart ==
  /\ \A r \in RequestIds :
       Pending(r) => ~Blocked(requests[r].requester, requests[r].recipient)
  /\ \A k \in Key : Active(k) => ~Blocked(k[1], k[2])

\* What let a send through still holds, and a block's scans have missed nothing.
Fresh(h) ==
  LET u == calls[h].me  v == calls[h].peer IN
  /\ calls[h].pc \in SendPc => ~Blocked(u, v)
  /\ At(h, "sendCreate") => ~HasActiveConnection(u, v, calls[h].activity)
  /\ calls[h].pc \in {"blockEndConnections", "blockScanRequests", "blockDeclineRequests"} =>
       ActiveBetween(u, v) \subseteq calls[h].conns
  /\ At(h, "blockDeclineRequests") => PendingBetween(u, v) \subseteq calls[h].rows

OrderlyInv == Inv /\ Scopes /\ NoneCross /\ Apart /\ \A h \in Handlers : Fresh(h)

\* A blocked pair kept apart is severed.
LEMMA ApartSevers == TypeOK /\ Apart => Severed
<1> SUFFICES ASSUME TypeOK, Apart, NEW u \in Users, NEW v \in Users, Blocked(u, v)
             PROVE  PendingBetween(u, v) = {} /\ ActiveBetween(u, v) = {}
  BY DEF Severed
<1>1. PendingBetween(u, v) = {}
  BY DEF Apart, PendingBetween, PendingFrom, Blocked
<1>2. ASSUME NEW x \in Activities, Active(SortedKey(u, v, x)) PROVE FALSE
  BY <1>2 DEF Apart, SortedKey, Key, Blocked
<1> QED
  BY <1>1, <1>2 DEF ActiveBetween, KeysBetween

\* A step in which no calls cross is a step.
LEMMA OrderlyIsNext == [OrderlyNext]_vars => [Next]_vars
  BY DEF OrderlyNext

\* What a call has read stays good while others move: none of them crosses it.
LEMMA FreshOthers ==
  ASSUME OrderlyInv, [Next]_vars, NEW h \in Handlers, calls'[h] = calls[h]
  PROVE  Fresh(h)'
<1> DEFINE u == calls[h].me
           v == calls[h].peer
<1> USE DEF OrderlyInv, Inv, At
<1>1. ASSUME calls[h].pc \in SendPc \cup BlockPc
      PROVE  u \in Users /\ v \in Users /\ Parties(h) = {u, v}
  BY <1>1, PartiesAre DEF Shapes, CallShape
\* No accept or block moves under a send, no send or accept under a block.
<1>2. CASE calls[h].pc \in SendPc
  <2>1. ~\E g \in Handlers : Moving(g, u, v) /\ calls[g].pc \in AcceptPc \cup BlockPc
    BY <1>1, <1>2 DEF NoneCross, Cross, Moving
  <2>2. ActiveBetween(u, v)' \subseteq ActiveBetween(u, v) /\ (Blocked(u, v)' => Blocked(u, v))
    BY <1>1, <1>2, <2>1, GrowsBy
  <2>3. ASSUME At(h, "sendCreate"), HasActiveConnection(u, v, calls[h].activity)' PROVE FALSE
    <3> DEFINE k == SortedKey(u, v, calls[h].activity)
    <3>1. k \in KeysBetween(u, v)
      BY <1>2 DEF KeysBetween, Shapes, CallShape
    <3>2. k \in ActiveBetween(u, v)'
      BY <2>3, <3>1 DEF HasActiveConnection, ActiveBetween, KeysBetween
    <3>3. HasActiveConnection(u, v, calls[h].activity)
      BY <2>2, <3>2 DEF ActiveBetween, HasActiveConnection
    <3> QED
      BY <2>3, <3>3 DEF Fresh
  <2> QED
    BY <1>2, <2>2, <2>3 DEF Fresh, SendPc
<1>3. CASE calls[h].pc \in BlockPc
  <2>1. ~\E g \in Handlers : Moving(g, u, v) /\ calls[g].pc \in SendPc \cup AcceptPc
    BY <1>1, <1>3 DEF NoneCross, Cross, Moving
  <2>2. /\ PendingBetween(u, v)' \subseteq PendingBetween(u, v)
        /\ ActiveBetween(u, v)' \subseteq ActiveBetween(u, v)
    BY <1>1, <1>3, <2>1, GrowsBy
  <2> QED
    BY <1>3, <2>2 DEF Fresh, SendPc, BlockPc
<1>4. CASE calls[h].pc \notin SendPc \cup BlockPc
  BY <1>4 DEF Fresh, SendPc, BlockPc
<1> QED
  BY <1>2, <1>3, <1>4

\* What it reads in a step is true after it.
LEMMA FreshMoves ==
  ASSUME OrderlyInv, [Next]_vars, NEW h \in Handlers, calls'[h] # calls[h]
  PROVE  Fresh(h)'
<1> USE DEF OrderlyInv, Inv, TypeOK
<1>1. ASSUME calls'[h].pc \notin SendPc \cup BlockPc PROVE Fresh(h)'
  BY <1>1 DEF Fresh, At, SendPc, BlockPc
<1>2. ASSUME NEW g \in Handlers, Finish(g) PROVE Fresh(h)'
  <2>1. calls'[h] = Idle
    BY <1>2 DEF Finish
  <2> QED
    BY <1>1, <2>1 DEF Idle, SendPc, BlockPc
<1>3. ASSUME NEW g \in Handlers, Start(g) PROVE Fresh(h)'
  <2>1. ASSUME NEW u \in Users, NEW v \in Users, NEW x \in Activities, SendEligible(g, u, v, x)
        PROVE  Fresh(h)'
    BY <2>1 DEF SendEligible, IsEligibleRecipient, BeginSend, Begin, tables, Fresh, At, Idle, Blocked
  <2>2. ASSUME NEW u \in Users, NEW r \in RequestIds,
               AcceptLoad(g, u, r) \/ DeclineLoad(g, u, r) \/ CancelLoad(g, u, r)
        PROVE  Fresh(h)'
    <3>1. calls'[h].pc \in {"acceptClaim", "declineWrite", "cancelWrite"}
      BY <2>2, ZenonT(60) DEF AcceptLoad, DeclineLoad, CancelLoad, Begin, Idle
    <3> QED
      BY <1>1, <3>1 DEF SendPc, BlockPc
  <2>3. ASSUME NEW u \in Users, NEW k \in Key, RemoveLoad(g, u, k) PROVE Fresh(h)'
    <3>1. calls'[h].pc = "removeWrite"
      BY <2>3 DEF RemoveLoad, Begin, Idle
    <3> QED
      BY <1>1, <3>1 DEF SendPc, BlockPc
  <2>4. ASSUME StartSafety(g) PROVE Fresh(h)'
    <3>1. calls'[h].pc = "blockInsert"
      BY <2>4 DEF StartSafety, BlockStart, Begin, Idle
    <3> QED
      BY <3>1 DEF Fresh, At, SendPc
  <2> QED
    BY <1>3, <2>1, <2>2, <2>3, <2>4 DEF Start, StartConnections
<1>4. ASSUME NEW g \in Handlers, StepConnections(g) PROVE Fresh(h)'
  <2>1. CASE Goto(g, "sendCreate") /\ SendConnected(g)
    <3>1. /\ g = h /\ calls'[h].pc = "sendCreate" /\ UNCHANGED tables
          /\ calls'[h].me = calls[h].me /\ calls'[h].peer = calls[h].peer
          /\ calls'[h].activity = calls[h].activity
      BY <2>1 DEF Goto, SendConnected
    <3>2. /\ At(h, "sendConnected")
          /\ ~HasActiveConnection(calls[h].me, calls[h].peer, calls[h].activity)
      BY <2>1, <3>1 DEF SendConnected, Finish, Idle
    <3>3. ~Blocked(calls[h].me, calls[h].peer)
      BY <3>2 DEF Fresh, At, SendPc
    <3> QED
      BY <3>1, <3>2, <3>3 DEF Fresh, At, tables, Blocked, HasActiveConnection, Active
  <2>2. ASSUME NEW pc \in {"acceptConnect"} \cup Answer, Goto(g, pc) PROVE Fresh(h)'
    <3>1. calls'[h].pc = pc
      BY <2>2 DEF Goto, Call
    <3> QED
      BY <1>1, <3>1 DEF Answer, SendPc, BlockPc
  <2> QED
    BY <1>2, <1>4, <2>1, <2>2
       DEF StepConnections, SendConnected, SendDuplicate, SendInsert, InsertRequest, AcceptClaim,
           AcceptCommit, Connect, DeclineWrite, CancelWrite, Resolve, NoLongerPending, RemoveWrite,
           Answer
<1>5. ASSUME NEW g \in Handlers, StepSafety(g) PROVE Fresh(h)'
  <2> USE DEF At, Fresh, SendPc, tables, ActiveBetween, PendingBetween, PendingFrom, Active, Pending
  <2>1. CASE BlockInsert(g) /\ Goto(g, "blockScanConnections")
    <3>1. calls'[h].pc = "blockScanConnections"
      BY <2>1 DEF Goto, Call
    <3> QED
      BY <3>1
  <2>2. CASE BlockScanConnections(g)
    <3>1. /\ g = h /\ calls'[h].pc = "blockEndConnections" /\ UNCHANGED tables
          /\ calls'[h].me = calls[h].me /\ calls'[h].peer = calls[h].peer
          /\ calls'[h].conns = ActiveBetween(calls[h].me, calls[h].peer)
      BY <2>2 DEF BlockScanConnections, ScanConnections
    <3> QED
      BY <3>1
  <2>3. CASE BlockEndConnections(g)
    <3>1. /\ g = h /\ calls'[h].pc = "blockScanRequests" /\ UNCHANGED tables
          /\ calls'[h].me = calls[h].me /\ calls'[h].peer = calls[h].peer
          /\ calls'[h].conns = {k \in calls[h].conns : Active(k)}
          /\ ActiveBetween(calls[h].me, calls[h].peer) \subseteq calls[h].conns
      BY <2>3 DEF BlockEndConnections
    <3> QED
      BY <3>1
  <2>4. CASE BlockScanRequests(g)
    <3>1. /\ g = h /\ calls'[h].pc = "blockDeclineRequests" /\ UNCHANGED tables
          /\ calls'[h].me = calls[h].me /\ calls'[h].peer = calls[h].peer
          /\ calls'[h].conns = calls[h].conns
          /\ ActiveBetween(calls[h].me, calls[h].peer) \subseteq calls[h].conns
          /\ calls'[h].rows = PendingBetween(calls[h].me, calls[h].peer)
      BY <2>4 DEF BlockScanRequests, ScanRequests
    <3> QED
      BY <3>1
  <2> QED
    BY <1>2, <1>5, <2>1, <2>2, <2>3, <2>4 DEF StepSafety, BlockInsert, BlockCommit, Sever
<1> QED
  BY <1>2, <1>3, <1>4, <1>5
     DEF Next, Step, End, DeadlockVictim, Return, Fail, Unblock, vars

\* So a blocked pair stays apart.
LEMMA ApartStep ==
  ASSUME OrderlyInv, [Next]_vars
  PROVE  Apart'
<1> USE DEF OrderlyInv, Inv, TypeOK, Apart, Pending, Active, Blocked
<1>1. ASSUME UNCHANGED <<requests, connections, blocks>> PROVE Apart'
  BY <1>1
\* Steps that only resolve requests, end connections or remove blocks.
<1>2. ASSUME \A r \in RequestIds : Pending(r)' => requests'[r] = requests[r],
             \A k \in Key : Active(k)' => Active(k),
             blocks' \subseteq blocks
      PROVE  Apart'
  BY <1>2
<1>3. ASSUME NEW h \in Handlers, Passive(h) \/ AcceptClaim(h) PROVE Apart'
  BY <1>1, <1>3 DEF Passive, AcceptClaim, tables
<1>4. ASSUME NEW h \in Handlers, SendInsert(h) PROVE Apart'
  <2>1. PICK r \in FreeIds : InsertRequest(h, r)
    BY <1>4 DEF SendInsert
  <2>2. r \in RequestIds /\ \A q \in RequestIds \ {r} : requests'[q] = requests[q]
    BY <2>1 DEF InsertRequest, FreeIds
  <2>3. requests'[r].requester = calls[h].me /\ requests'[r].recipient = calls[h].peer
    BY <2>1, <2>2 DEF InsertRequest
  <2>4. ~Blocked(calls[h].me, calls[h].peer)
    BY <1>4 DEF SendInsert, At, Fresh, SendPc
  <2> QED
    BY <2>1, <2>2, <2>3, <2>4 DEF InsertRequest
<1>5. ASSUME NEW h \in Handlers, AcceptCommit(h) PROVE Apart'
  <2> DEFINE r == calls[h].request
             k == RequestKey(r)
  <2>1. r \in RequestIds /\ Pending(r)
    BY <1>5 DEF AcceptCommit, Connect, Claims, Claimed, Shapes, CallShape, RequestPc, AcceptPc, At
  <2>2. ~Blocked(k[1], k[2])
    BY <2>1 DEF RequestKey, SortedKey
  <2>3. \A q \in RequestIds : Pending(q)' => requests'[q] = requests[q]
    BY <1>5, <2>1 DEF AcceptCommit, Connect, Request
  <2>4. \A j \in Key : Active(j)' => Active(j) \/ j = k
    BY <1>5 DEF AcceptCommit, Connect
  <2>5. blocks' = blocks
    BY <1>5 DEF AcceptCommit, Connect
  <2> HIDE DEF k
  <2> QED
    BY <2>2, <2>3, <2>4, <2>5
<1>6. ASSUME NEW h \in Handlers, DeclineWrite(h) \/ CancelWrite(h) PROVE Apart'
  <2>1. PICK status \in {"DECLINED", "gone"}, answer \in Answer : Resolve(h, status, answer)
    BY <1>6 DEF DeclineWrite, CancelWrite, Answer
  <2>2. \A r \in RequestIds : Pending(r)' => requests'[r] = requests[r]
    BY <2>1 DEF Resolve, Request
  <2> QED
    BY <1>2, <2>1, <2>2 DEF Resolve
<1>7. ASSUME NEW h \in Handlers, RemoveWrite(h) PROVE Apart'
  BY <1>2, <1>7 DEF RemoveWrite
<1>8. ASSUME NEW h \in Handlers, BlockCommit(h) PROVE Apart'
  <2> DEFINE u == calls[h].me
             v == calls[h].peer
  <2>1. /\ u \in Users /\ v \in Users /\ u # v
        /\ ActiveBetween(u, v) \subseteq calls[h].conns /\ PendingBetween(u, v) \subseteq calls[h].rows
    BY <1>8 DEF BlockCommit, Sever, At, Fresh, Shapes, CallShape, BlockPc
  <2>2. blocks' = blocks \cup {<<u, v>>}
    BY <1>8 DEF BlockCommit, Sever
  <2>3. \A r \in RequestIds : Pending(r)' => requests'[r] = requests[r] /\ r \notin PendingBetween(u, v)
    BY <1>8, <2>1 DEF BlockCommit, Sever, Decline, Request
  <2>4. \A k \in Key : Active(k)' => Active(k) /\ k \notin ActiveBetween(u, v)
    BY <1>8, <2>1 DEF BlockCommit, Sever
  <2>5. ASSUME NEW r \in RequestIds, Pending(r)'
        PROVE  ~Blocked(requests[r].requester, requests[r].recipient)'
    BY <2>1, <2>2, <2>3, <2>5 DEF PendingBetween, PendingFrom
  <2>6. ASSUME NEW k \in Key, Active(k)' PROVE ~Blocked(k[1], k[2])'
    <3>1. k[1] < k[2] /\ k[1] \in Users /\ k[2] \in Users /\ k[3] \in Activities
      BY <2>4, <2>6 DEF Links, Key
    <3>2. {k[1], k[2]} # {u, v}
      <4> SUFFICES ASSUME {k[1], k[2]} = {u, v} PROVE k = SortedKey(u, v, k[3])
        BY <2>4, <2>6, <3>1 DEF ActiveBetween, KeysBetween
      <4>1. k = <<k[1], k[2], k[3]>>
        BY DEF Key
      <4>2. CASE k[1] = u /\ k[2] = v
        BY <3>1, <4>1, <4>2 DEF SortedKey
      <4>3. CASE k[1] = v /\ k[2] = u
        BY <3>1, <4>1, <4>3, UsersOrdered DEF SortedKey
      <4> QED
        BY <4>2, <4>3
    <3> QED
      BY <2>2, <2>4, <2>6, <3>2
  <2> QED
    BY <2>5, <2>6
<1>9. ASSUME NEW u \in Users, NEW v \in Users, Unblock(u, v) PROVE Apart'
  BY <1>2, <1>9 DEF Unblock
<1>10. CASE UNCHANGED vars
  BY <1>1, <1>10 DEF vars
<1> QED
  BY <1>3, <1>4, <1>5, <1>6, <1>7, <1>8, <1>9, <1>10, Moves DEF Writes

\* Empty tables and idle handlers satisfy the invariant of calls that do not cross.
LEMMA OrderlyInit == Init => OrderlyInv
<1> SUFFICES ASSUME Init PROVE OrderlyInv
  OBVIOUS
<1>1. Inv /\ Scopes
  BY InvInit, InitMaps
<1>2. \A h \in Handlers : calls[h].pc = "idle"
  BY DEF Init, Idle
<1>3. NoneCross
  BY <1>2 DEF NoneCross, Cross, AcceptPc, BlockPc
<1>4. Apart
  BY DEF Init, Apart, Pending, Active, FreeRequest
<1>5. \A h \in Handlers : Fresh(h)
  BY <1>2 DEF Fresh, At, SendPc
<1> QED
  BY <1>1, <1>3, <1>4, <1>5 DEF OrderlyInv

\* It is inductive.
LEMMA OrderlyStep == OrderlyInv /\ [OrderlyNext]_vars => OrderlyInv'
<1> SUFFICES ASSUME OrderlyInv, [OrderlyNext]_vars PROVE OrderlyInv'
  OBVIOUS
<1>1. Inv' /\ Scopes'
  BY InvStep, ScopeStep, OrderlyIsNext DEF OrderlyInv
<1>2. NoneCross'
  <2>1. CASE UNCHANGED vars
    BY <2>1 DEF vars, OrderlyInv, NoneCross, Cross, Parties
  <2> QED
    BY <2>1 DEF OrderlyNext
<1>3. Apart'
  BY ApartStep, OrderlyIsNext
<1>4. \A h \in Handlers : Fresh(h)'
  BY FreshOthers, FreshMoves, OrderlyIsNext
<1> QED
  BY <1>1, <1>2, <1>3, <1>4 DEF OrderlyInv

\* As long as no calls cross, nothing is left between a blocked pair.
THEOREM OrderlyCallsSever == OrderlySpec => []Severed
<1>1. OrderlyInv => Severed
  BY ApartSevers DEF OrderlyInv, Inv
<1> QED
  BY <1>1, OrderlyInit, OrderlyStep, PTL DEF OrderlySpec

\* And no calls wait for each other in a circle.
THEOREM OrderlyCallsNeverDeadlock == OrderlySpec => []NobodyDeadlocks
<1>1. OrderlyInv => NobodyDeadlocks
  <2> SUFFICES ASSUME OrderlyInv, NEW h \in Handlers, Deadlocked(h) PROVE FALSE
    BY DEF NobodyDeadlocks
  <2>1. PICK g \in Handlers :
          Parties(g) = Parties(h) /\ {calls[g].pc, calls[h].pc} = {"acceptConnect", "blockDeclineRequests"}
    BY DeadlockKinds DEF OrderlyInv, OnlyBlocksDeadlock
  <2> QED
    BY <2>1 DEF OrderlyInv, NoneCross, Cross, AcceptPc, BlockPc
<1> QED
  BY <1>1, OrderlyInit, OrderlyStep, PTL DEF OrderlySpec

\* A send asks where nothing blocks and nothing is active.
LEMMA OrderlyAsk ==
  ASSUME OrderlyInv, NEW h \in Handlers, SendInsert(h)
  PROVE  L!Next
<1> DEFINE u == calls[h].me
           v == calls[h].peer
           x == calls[h].activity
<1>1. L!NewRequest(u, v, x) /\ At(h, "sendCreate")
  BY SendAsks DEF OrderlyInv
<1>2. u \in Users /\ v \in Users /\ x \in Activities
  BY <1>1 DEF OrderlyInv, Inv, Shapes, CallShape, SendPc, At
<1>3. ~L!Blocked(u, v)
  BY <1>1 DEF OrderlyInv, Fresh, SendPc, At, Blocked, L!Blocked
<1>4. <<{u, v}, x>> \notin Together
  <2> SUFFICES ASSUME NEW k \in Key, Active(k), About(k) = <<{u, v}, x>> PROVE FALSE
    BY TogetherRows
  <2>1. k[1] < k[2]
    BY ActiveOrdered DEF OrderlyInv, Inv
  <2>2. SortedKey(u, v, x) \in Key /\ About(SortedKey(u, v, x)) = <<{u, v}, x>>
    BY <1>2, AboutSorted
  <2>3. SortedKey(u, v, x)[1] < SortedKey(u, v, x)[2]
    BY <1>1, <1>2, SortedKeyInOrder DEF L!NewRequest
  <2>4. k = SortedKey(u, v, x)
    BY <2>1, <2>2, <2>3, AboutOnce
  <2> QED
    BY <1>1, <2>4 DEF OrderlyInv, Fresh, At, HasActiveConnection
<1> QED
  BY <1>1, <1>2, <1>3, <1>4 DEF L!Ask, L!Next

\* A block severs all there is.
LEMMA OrderlyBlock ==
  ASSUME OrderlyInv, NEW h \in Handlers, BlockCommit(h)
  PROVE  L!Next
<1> DEFINE u == calls[h].me
           v == calls[h].peer
           R == {r \in calls[h].rows : Pending(r)}
<1>1. u \in Users /\ v \in Users /\ u # v /\ <<u, v>> \notin blocks
  BY DEF BlockCommit, Sever, At, OrderlyInv, Inv, Shapes, CallShape, BlockPc, Scopes, Scoped, Inserted,
         Names
<1>2. /\ ActiveBetween(u, v) \subseteq calls[h].conns /\ calls[h].conns \subseteq KeysBetween(u, v)
      /\ PendingBetween(u, v) \subseteq calls[h].rows
      /\ \A r \in calls[h].rows : {requests[r].requester, requests[r].recipient} = {u, v}
  BY DEF BlockCommit, Sever, At, OrderlyInv, Fresh, Scopes, Scoped, Inserted, BlockPc
<1>3. R \subseteq RequestIds /\ calls[h].conns \subseteq Key
  BY DEF OrderlyInv, Inv, TypeOK, Call
<1>4. Asked' = Asked \ L!AskedBetween(u, v)
  <2>1. /\ \A r \in RequestIds \ R : requests'[r] = requests[r]
        /\ \A r \in R : requests'[r].status # "PENDING"
    BY <1>3 DEF BlockCommit, Sever, Decline, OrderlyInv, Inv, TypeOK, Request
  <2>2. Asked' = Asked \ {Asks(r) : r \in {q \in R : Pending(q)}}
    BY <1>3, <2>1, AskedEnds DEF OrderlyInv, Inv
  <2>3. \A r \in RequestIds :
          Pending(r) /\ {requests[r].requester, requests[r].recipient} = {u, v} => r \in R
    BY <1>2 DEF PendingBetween, PendingFrom
  <2>4. \A r \in R : {requests[r].requester, requests[r].recipient} = {u, v}
    BY <1>2
  <2>5. \A r \in RequestIds :
          Asks(r) \in L!AskedBetween(u, v) <=>
            Asks(r) \in Asked /\ {requests[r].requester, requests[r].recipient} = {u, v}
    BY DEF L!AskedBetween, Asks
  <2>6. \A a \in Asked : \E r \in RequestIds : Pending(r) /\ a = Asks(r)
    BY AskedRows
  <2> QED
    BY <1>3, <2>2, <2>3, <2>4, <2>5, <2>6
<1>5. Together' = Together \ L!TogetherAs({u, v})
  <2>1. Together' = Together \ {About(k) : k \in {j \in calls[h].conns : Active(j)}}
    BY <1>3, TogetherEnds DEF BlockCommit, Sever, OrderlyInv, Inv
  <2>2. ASSUME NEW k \in Key, Active(k), About(k)[1] = {u, v} PROVE k \in calls[h].conns
    <3>1. k[1] < k[2] /\ k[3] \in Activities
      BY <2>2, ActiveOrdered DEF OrderlyInv, Inv, Key
    <3>2. About(k) = <<{u, v}, k[3]>>
      BY <2>2 DEF About
    <3>3. k = SortedKey(u, v, k[3])
      <4>1. /\ SortedKey(u, v, k[3]) \in Key /\ About(SortedKey(u, v, k[3])) = About(k)
            /\ SortedKey(u, v, k[3])[1] < SortedKey(u, v, k[3])[2]
        BY <1>1, <3>1, <3>2, AboutSorted, SortedKeyInOrder
      <4> QED
        BY <3>1, <4>1, AboutOnce
    <3> QED
      BY <1>2, <2>2, <3>1, <3>3 DEF ActiveBetween, KeysBetween
  <2>3. \A k \in calls[h].conns : About(k)[1] = {u, v}
    BY <1>1, <1>2, AboutSorted DEF KeysBetween
  <2> QED
    BY <1>3, <2>1, <2>2, <2>3, TogetherRows DEF L!TogetherAs
<1>6. blocks' = blocks \cup {<<u, v>>}
  BY DEF BlockCommit, Sever
<1> QED
  BY <1>1, <1>4, <1>5, <1>6 DEF L!Block, L!Next

\* Every step of a call that nothing crosses keeps the promise.
LEMMA OrderlyPromise ==
  ASSUME OrderlyInv, [Next]_vars
  PROVE  [L!Next]_L!lvars
<1>1. ASSUME NEW h \in Handlers, Passive(h) \/ AcceptClaim(h) PROVE UNCHANGED L!lvars
  BY <1>1, SameRows DEF Passive, AcceptClaim, tables, L!lvars
<1>2. ASSUME NEW h \in Handlers, SendInsert(h) \/ BlockCommit(h) PROVE L!Next
  BY <1>2, OrderlyAsk, OrderlyBlock
<1>3. ASSUME NEW h \in Handlers, AcceptCommit(h) PROVE L!Next
  BY <1>3, AcceptAgrees DEF L!Next, L!Answered, OrderlyInv
<1>4. ASSUME NEW h \in Handlers, DeclineWrite(h) \/ CancelWrite(h) PROVE L!Next
  BY <1>4, ResolveDrops DEF L!Next, L!Answered, OrderlyInv
<1>5. ASSUME NEW h \in Handlers, RemoveWrite(h) PROVE [L!Next]_L!lvars
  BY <1>5, RemoveParts DEF L!Next, L!Answered, OrderlyInv
<1>6. ASSUME NEW u \in Users, NEW v \in Users, Unblock(u, v) PROVE L!Next
  BY <1>6, SameRows DEF Unblock, L!Next, L!Answered, L!Unblock
<1>7. CASE UNCHANGED vars
  BY <1>7, SameRows DEF vars, L!lvars
<1> QED
  BY <1>1, <1>2, <1>3, <1>4, <1>5, <1>6, <1>7, Moves DEF Writes, OrderlyInv, Inv

\* As long as no calls cross, the services implement the promise as it is
\* documented: a block prevents new requests and severs everything.
THEOREM OrderlyPromiseKept == OrderlySpec => KeepsPromise
<1>1. OrderlyInv /\ [OrderlyNext]_vars => OrderlyInv' /\ [L!Next]_L!lvars
  BY OrderlyStep, OrderlyPromise, OrderlyIsNext
<1> QED
  BY <1>1, OrderlyInit, InitMaps, PTL DEF OrderlySpec, KeepsPromise, L!Spec
=============================================================================
