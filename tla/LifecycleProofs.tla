---------------------------- MODULE LifecycleProofs ----------------------------
(***************************************************************************)
(* Relationships implements Lifecycle: however calls overlap, they keep    *)
(* the raced promise.                                                      *)
(***************************************************************************)
EXTENDS RelationshipsProofs

-----------------------------------------------------------------------------
(* What a step does to the rows that others rely on. *)

\* A used row keeps its users and activity.
LEMMA RowsKeep ==
  ASSUME TypeOK, Shapes, Claims, [Next]_vars, NEW r \in RequestIds, requests[r].status # "free"
  PROVE  /\ requests'[r].status # "free"
         /\ requests'[r].requester = requests[r].requester
         /\ requests'[r].recipient = requests[r].recipient
         /\ requests'[r].activity = requests[r].activity
<1> USE DEF TypeOK, Pending
<1>1. ASSUME NEW h \in Handlers, Passive(h) \/ AcceptClaim(h) \/ RemoveWrite(h)
      PROVE  requests'[r] = requests[r]
  BY <1>1 DEF Passive, AcceptClaim, RemoveWrite, tables
<1>2. ASSUME NEW h \in Handlers, SendInsert(h) PROVE requests'[r] = requests[r]
  BY <1>2 DEF SendInsert, InsertRequest, FreeIds
<1>3. ASSUME NEW status \in Status \ {"free"}, NEW q \in RequestIds,
             requests' = [requests EXCEPT ![q].status = status]
      PROVE  requests'[r] = requests[r] \/ requests'[r] = [requests[r] EXCEPT !.status = status]
  BY <1>3
<1>4. ASSUME NEW h \in Handlers, AcceptCommit(h) \/ DeclineWrite(h) \/ CancelWrite(h)
      PROVE  \E status \in Status \ {"free"} :
               requests'[r] = requests[r] \/ requests'[r] = [requests[r] EXCEPT !.status = status]
  <2>1. calls[h].request \in RequestIds
    BY <1>4 DEF Shapes, CallShape, RequestPc, AcceptPc, AcceptCommit, Connect, DeclineWrite,
                CancelWrite, At
  <2>2. \E status \in Status \ {"free"} : requests' = [requests EXCEPT ![calls[h].request].status = status]
    <3>1. CASE AcceptCommit(h)
      BY <3>1 DEF AcceptCommit, Connect, Status
    <3>2. CASE DeclineWrite(h)
      BY <3>2 DEF DeclineWrite, Resolve, Status
    <3>3. CASE CancelWrite(h)
      BY <3>3 DEF CancelWrite, Resolve, Status
    <3> QED
      BY <1>4, <3>1, <3>2, <3>3
  <2> QED
    BY <1>3, <2>1, <2>2
<1>5. ASSUME NEW h \in Handlers, BlockCommit(h)
      PROVE  requests'[r] = requests[r] \/ requests'[r] = [requests[r] EXCEPT !.status = "DECLINED"]
  BY <1>5 DEF BlockCommit, Sever, Decline
<1>6. ASSUME NEW u \in Users, NEW v \in Users, Unblock(u, v) PROVE requests'[r] = requests[r]
  BY <1>6 DEF Unblock
<1>7. CASE UNCHANGED vars
  BY <1>7 DEF vars
<1> QED
  BY <1>1, <1>2, <1>4, <1>5, <1>6, <1>7, Moves DEF Writes, Request, Status

Names(h) == <<calls[h].me, calls[h].peer>>

\* A block appears when the call that inserted it commits.
LEMMA BlocksGrow ==
  ASSUME TypeOK, [Next]_vars, NEW p \in blocks', p \notin blocks
  PROVE  \E h \in Handlers : BlockCommit(h) /\ p = Names(h)
<1>1. ASSUME NEW h \in Handlers, BlockCommit(h) PROVE blocks' = blocks \cup {Names(h)}
  BY <1>1 DEF BlockCommit, Sever, Names
<1> QED
  BY <1>1, Moves DEF Passive, AcceptClaim, tables, Writes, SendInsert, InsertRequest, AcceptCommit,
     Connect, DeclineWrite, CancelWrite, Resolve, RemoveWrite, Unblock, vars

-----------------------------------------------------------------------------
(* What a call is about stays between the two users it names. *)

Inserted == BlockPc \ {"blockInsert"}
Scoped(h) ==
  /\ At(h, "removeWrite") => \E k \in Key : calls[h].conns = {k}
  /\ calls[h].pc \in Inserted => Names(h) \notin blocks
  /\ calls[h].pc \in Inserted \ {"blockScanConnections"} =>
       calls[h].conns \subseteq KeysBetween(calls[h].me, calls[h].peer)
  /\ At(h, "blockDeclineRequests") =>
       \A r \in calls[h].rows :
         requests[r].status # "free" /\
         {requests[r].requester, requests[r].recipient} = {calls[h].me, calls[h].peer}
OneInserts ==
  \A g, h \in Handlers :
    calls[g].pc \in Inserted /\ calls[h].pc \in Inserted /\ Names(g) = Names(h) => g = h
Scopes == (\A h \in Handlers : Scoped(h)) /\ OneInserts

\* The calls that do not move keep their scope.
LEMMA ScopeOthers ==
  ASSUME TypeOK, Shapes, Claims, Scopes, [Next]_vars,
         NEW g \in Handlers, calls'[g] = calls[g]
  PROVE  Scoped(g)'
<1>1. calls[g].pc \in Inserted => Names(g) \notin blocks'
  <2> SUFFICES ASSUME calls[g].pc \in Inserted, Names(g) \in blocks' PROVE FALSE
    OBVIOUS
  <2>1. PICK h \in Handlers : BlockCommit(h) /\ Names(g) = Names(h)
    BY BlocksGrow DEF Scopes, Scoped
  <2>2. calls[h].pc \in Inserted
    BY <2>1 DEF BlockCommit, Sever, At, Inserted, BlockPc
  <2>3. calls'[h] = Idle
    BY <2>1 DEF BlockCommit, Sever, Finish, TypeOK
  <2> QED
    BY <2>1, <2>2, <2>3 DEF Scopes, OneInserts, Idle, Inserted, BlockPc
<1>2. calls[g].rows \subseteq RequestIds
  BY DEF TypeOK, Call
<1>3. At(g, "blockDeclineRequests") =>
        \A r \in calls[g].rows :
          requests'[r].status # "free" /\
          {requests'[r].requester, requests'[r].recipient} = {calls[g].me, calls[g].peer}
  <2> SUFFICES ASSUME At(g, "blockDeclineRequests"), NEW r \in calls[g].rows
               PROVE  requests'[r].status # "free" /\
                      {requests'[r].requester, requests'[r].recipient} = {calls[g].me, calls[g].peer}
    OBVIOUS
  <2>1. /\ r \in RequestIds /\ requests[r].status # "free"
        /\ {requests[r].requester, requests[r].recipient} = {calls[g].me, calls[g].peer}
    BY <1>2 DEF Scopes, Scoped
  <2> QED
    BY <2>1, RowsKeep
<1> QED
  BY <1>1, <1>3 DEF Scopes, Scoped, Names, At, KeysBetween

\* Nothing is inserted twice: g, which moves, is the only one of its pair.
LEMMA InsertsOthers ==
  ASSUME Scopes, NEW g \in Handlers, \A h \in Handlers \ {g} : calls'[h] = calls[h],
         calls'[g].pc \in Inserted =>
           /\ Names(g)' = Names(g)
           /\ \A h \in Handlers \ {g} : calls[h].pc \in Inserted => Names(h) # Names(g)
  PROVE  OneInserts'
  BY DEF Scopes, OneInserts, Names

\* Every statement keeps the scopes.
LEMMA ScopeStep ==
  ASSUME Inv, Scopes, [Next]_vars
  PROVE  Scopes'
<1> USE DEF Inv, TypeOK, At
\* A step of h alone after which it is no block under way, and no unmatch.
<1>1. ASSUME NEW h \in Handlers, \A g \in Handlers \ {h} : calls'[g] = calls[g],
             calls'[h].pc \notin Inserted \cup {"removeWrite"}
      PROVE  Scopes'
  <2>1. Scoped(h)'
    BY <1>1 DEF Scoped, Inserted, BlockPc
  <2>2. OneInserts'
    BY <1>1, InsertsOthers
  <2>3. \A g \in Handlers \ {h} : Scoped(g)'
    BY <1>1, ScopeOthers
  <2> QED
    BY <2>1, <2>2, <2>3 DEF Scopes
\* A step of h alone that goes on with its block.
<1>2. ASSUME NEW h \in Handlers, \A g \in Handlers \ {h} : calls'[g] = calls[g],
             calls[h].pc \in Inserted, Names(h)' = Names(h), Scoped(h)'
      PROVE  Scopes'
  <2>1. OneInserts'
    <3>1. \A g \in Handlers \ {h} : calls[g].pc \in Inserted => Names(g) # Names(h)
      BY <1>2 DEF Scopes, OneInserts
    <3> QED
      BY <1>2, <3>1, InsertsOthers
  <2>2. \A g \in Handlers \ {h} : Scoped(g)'
    BY <1>2, ScopeOthers
  <2> QED
    BY <1>2, <2>1, <2>2 DEF Scopes
<1>3. ASSUME NEW h \in Handlers, Finish(h) PROVE Scopes'
  BY <1>1, <1>3 DEF Finish, Idle, Inserted, BlockPc
<1>4. ASSUME NEW h \in Handlers, Start(h) PROVE Scopes'
  <2>2. ASSUME NEW u \in Users, NEW k \in Key, RemoveLoad(h, u, k) PROVE Scopes'
    <3>1. /\ \A g \in Handlers \ {h} : calls'[g] = calls[g]
          /\ calls'[h] = [Idle EXCEPT !.pc = "removeWrite", !.conns = {k}]
      BY <2>2 DEF RemoveLoad, Begin
    <3>2. calls'[h].pc = "removeWrite" /\ calls'[h].conns = {k}
      BY <3>1 DEF Idle
    <3>3. Scoped(h)' /\ OneInserts'
      BY <3>1, <3>2, InsertsOthers DEF Scoped, Inserted, BlockPc
    <3> QED
      BY <3>1, <3>3, ScopeOthers DEF Scopes
  <2>3. ASSUME NEW u \in Users,
               \/ \E v \in Users, x \in Activities : SendEligible(h, u, v, x)
               \/ \E v \in Users : BlockStart(h, u, v)
               \/ \E r \in RequestIds : AcceptLoad(h, u, r) \/ DeclineLoad(h, u, r) \/ CancelLoad(h, u, r)
        PROVE  Scopes'
    <3>1. /\ \A g \in Handlers \ {h} : calls'[g] = calls[g]
          /\ calls'[h].pc \in {"sendConnected", "blockInsert", "acceptClaim", "declineWrite", "cancelWrite"}
      BY <2>3 DEF SendEligible, BeginSend, BlockStart, AcceptLoad, DeclineLoad, CancelLoad, Begin, Idle
    <3> QED
      BY <1>1, <3>1 DEF Inserted, BlockPc
  <2> QED
    BY <1>4, <2>2, <2>3 DEF Start, StartConnections, StartSafety
<1>5. ASSUME NEW h \in Handlers, StepConnections(h) PROVE Scopes'
  <2>1. CASE Finish(h)
    BY <1>3, <2>1
  <2>2. ASSUME NEW pc \in {"sendCreate", "acceptConnect"} \cup Answer, Goto(h, pc)
        PROVE  Scopes'
    BY <1>1, <2>2 DEF Goto, Inserted, BlockPc, Answer
  <2> QED
    BY <1>5, <2>1, <2>2
       DEF StepConnections, SendConnected, SendDuplicate, SendInsert, InsertRequest, AcceptClaim,
           AcceptCommit, Connect, DeclineWrite, CancelWrite, Resolve, NoLongerPending, RemoveWrite,
           Answer
<1>6. ASSUME NEW h \in Handlers, BlockInsert(h) PROVE Scopes'
  <2>1. CASE Finish(h)
    BY <1>3, <2>1
  <2>2. CASE Names(h) \notin blocks /\ ~InsertingSame(h) /\ Goto(h, "blockScanConnections")
    <3>1. /\ \A g \in Handlers \ {h} : calls'[g] = calls[g]
          /\ calls'[h].pc = "blockScanConnections" /\ Names(h)' = Names(h) /\ blocks' = blocks
      BY <1>6, <2>2 DEF Goto, Names, BlockInsert, tables
    <3>2. \A g \in Handlers \ {h} : calls[g].pc \in Inserted => Names(g) # Names(h)
      BY <2>2 DEF InsertingSame, Inserted, Names
    <3>3. OneInserts'
      BY <3>1, <3>2, InsertsOthers
    <3>4. Scoped(h)'
      BY <2>2, <3>1 DEF Scoped, Inserted
    <3> QED
      BY <3>1, <3>3, <3>4, ScopeOthers DEF Scopes
  <2> QED
    BY <1>6, <2>1, <2>2 DEF BlockInsert, Names
<1>7. ASSUME NEW h \in Handlers, BlockScanConnections(h) PROVE Scopes'
  <2>1. /\ \A g \in Handlers \ {h} : calls'[g] = calls[g]
        /\ calls[h].pc \in Inserted /\ calls'[h].pc = "blockEndConnections"
        /\ calls'[h].me = calls[h].me /\ calls'[h].peer = calls[h].peer
        /\ calls'[h].conns \subseteq KeysBetween(calls[h].me, calls[h].peer) /\ blocks' = blocks
    BY <1>7 DEF BlockScanConnections, ScanConnections, Inserted, BlockPc, tables, ActiveBetween
  <2>2. Scoped(h)'
    BY <2>1 DEF Scopes, Scoped, Names, KeysBetween
  <2> QED
    BY <1>2, <2>1, <2>2 DEF Names
<1>8. ASSUME NEW h \in Handlers, BlockEndConnections(h) PROVE Scopes'
  <2>1. /\ \A g \in Handlers \ {h} : calls'[g] = calls[g]
        /\ calls[h].pc \in Inserted \ {"blockScanConnections"} /\ calls'[h].pc = "blockScanRequests"
        /\ calls'[h].me = calls[h].me /\ calls'[h].peer = calls[h].peer
        /\ calls'[h].conns \subseteq calls[h].conns /\ blocks' = blocks
    BY <1>8 DEF BlockEndConnections, Inserted, BlockPc, tables
  <2>2. Scoped(h)'
    BY <2>1 DEF Scopes, Scoped, Names, KeysBetween
  <2> QED
    BY <1>2, <2>1, <2>2 DEF Names
<1>9. ASSUME NEW h \in Handlers, BlockScanRequests(h) PROVE Scopes'
  <2>1. /\ \A g \in Handlers \ {h} : calls'[g] = calls[g]
        /\ calls[h].pc \in Inserted \ {"blockScanConnections"} /\ calls'[h].pc = "blockDeclineRequests"
        /\ calls'[h].me = calls[h].me /\ calls'[h].peer = calls[h].peer
        /\ calls'[h].conns = calls[h].conns /\ UNCHANGED <<blocks, requests>>
        /\ calls'[h].rows = PendingBetween(calls[h].me, calls[h].peer)
    BY <1>9 DEF BlockScanRequests, ScanRequests, Inserted, BlockPc, tables
  <2>2. \A r \in PendingBetween(calls[h].me, calls[h].peer) :
          requests[r].status # "free" /\
          {requests[r].requester, requests[r].recipient} = {calls[h].me, calls[h].peer}
    BY DEF PendingBetween, PendingFrom, Pending
  <2>3. Scoped(h)'
    BY <2>1, <2>2 DEF Scopes, Scoped, Names, KeysBetween
  <2> QED
    BY <1>2, <2>1, <2>3 DEF Names
<1>10. ASSUME UNCHANGED calls PROVE Scopes'
  BY <1>10, ScopeOthers DEF Scopes, OneInserts, Names
<1> QED
  BY <1>3, <1>4, <1>5, <1>6, <1>7, <1>8, <1>9, <1>10
     DEF Next, Step, End, StepSafety, BlockCommit, Sever, DeadlockVictim, Return, Fail, Unblock, vars

-----------------------------------------------------------------------------
(* The tables, and who is together. *)

\* A pair and an activity, whoever asked.
About(k) == <<{k[1], k[2]}, k[3]>>

\* A pair's key is about the pair, in whichever order it was named.
LEMMA AboutSorted ==
  ASSUME NEW u \in Users, NEW v \in Users, NEW x \in Activities
  PROVE  SortedKey(u, v, x) \in Key /\ About(SortedKey(u, v, x)) = <<{u, v}, x>>
  BY DEF SortedKey, Key, About

\* Ordered keys of one pair and activity are one key.
LEMMA AboutOnce ==
  ASSUME NEW j \in Key, NEW k \in Key, j[1] < j[2], k[1] < k[2], About(j) = About(k)
  PROVE  j = k
<1>1. /\ j[1] \in Nat /\ j[2] \in Nat /\ k[1] \in Nat /\ k[2] \in Nat
      /\ j = <<j[1], j[2], j[3]>> /\ k = <<k[1], k[2], k[3]>>
  <2>1. j[1] \in Users /\ j[2] \in Users /\ k[1] \in Users /\ k[2] \in Users
    BY DEF Key
  <2>2. j = <<j[1], j[2], j[3]>> /\ k = <<k[1], k[2], k[3]>>
    BY DEF Key
  <2> QED
    BY <2>1, <2>2, UsersOrdered
<1>2. {j[1], j[2]} = {k[1], k[2]} /\ j[3] = k[3]
  BY DEF About
<1>3. j[1] = k[1] /\ j[2] = k[2]
  <2>1. (j[1] = k[1] /\ j[2] = k[2]) \/ (j[1] = k[2] /\ j[2] = k[1])
    BY <1>2
  <2> QED
    BY <1>1, <2>1
<1> QED
  BY <1>1, <1>2, <1>3

\* Who is together, row by row.
LEMMA TogetherRows == Together = {About(k) : k \in {j \in Key : Active(j)}}
  BY DEF Together, About

\* An active connection is kept under an ordered key.
LEMMA ActiveOrdered == ASSUME Links, TypeOK, NEW k \in Key, Active(k) PROVE k[1] < k[2]
  BY DEF Links, Active, TypeOK

\* Connections that a step ends are no longer together, and no others part.
LEMMA TogetherEnds ==
  ASSUME TypeOK, Links, NEW K \in SUBSET Key,
         connections' = [k \in Key |-> IF k \in K THEN "removed" ELSE connections[k]]
  PROVE  Together' = Together \ {About(k) : k \in {j \in K : Active(j)}}
<1>1. \A k \in Key : Active(k)' <=> Active(k) /\ k \notin K
  BY DEF Active
<1>2. ASSUME NEW j \in Key, NEW k \in Key, Active(j), Active(k), About(j) = About(k) PROVE j = k
  BY <1>2, ActiveOrdered, AboutOnce
<1>3. Together' = {About(k) : k \in {j \in Key : Active(j) /\ j \notin K}}
  BY <1>1 DEF Together, About
<1> QED
  BY <1>2, <1>3, TogetherRows

\* What a row asks.
Asks(r) == <<requests[r].requester, requests[r].recipient, requests[r].activity>>

\* Who has asked, row by row.
LEMMA AskedRows == Asked = {Asks(r) : r \in {q \in RequestIds : Pending(q)}}
  BY DEF Asked, Asks

\* A PENDING row is the only one that asks what it asks.
LEMMA AskedOnce ==
  ASSUME PendingUnique, NEW q \in RequestIds, NEW r \in RequestIds,
         Pending(q), Pending(r), Asks(q) = Asks(r)
  PROVE  q = r
  BY DEF PendingUnique, Asks

\* Rows that a step resolves ask no longer, and no others stop asking.
LEMMA AskedEnds ==
  ASSUME PendingUnique, NEW R \in SUBSET RequestIds,
         \A r \in RequestIds \ R : requests'[r] = requests[r],
         \A r \in R : requests'[r].status # "PENDING"
  PROVE  Asked' = Asked \ {Asks(r) : r \in {q \in R : Pending(q)}}
<1>1. \A r \in RequestIds : Pending(r)' <=> Pending(r) /\ r \notin R
  BY DEF Pending
<1>2. \A r \in RequestIds : Pending(r)' => Asks(r)' = Asks(r)
  BY <1>1 DEF Asks
<1>3. Asked' = {Asks(r) : r \in {q \in RequestIds : Pending(q) /\ q \notin R}}
  <2>1. Asked' = {Asks(r)' : r \in {q \in RequestIds : Pending(q)'}}
    BY DEF Asked, Asks
  <2> QED
    BY <1>1, <1>2, <2>1
<1>4. \A q, r \in RequestIds : Pending(q) /\ Pending(r) /\ Asks(q) = Asks(r) => q = r
  BY AskedOnce
<1> QED
  BY <1>3, <1>4, AskedRows

\* Steps that write neither requests nor connections.
LEMMA SameRows ==
  (requests' = requests => Asked' = Asked) /\ (connections' = connections => Together' = Together)
  BY DEF Asked, Pending, Together, Active

-----------------------------------------------------------------------------
(* The writes, as steps of Lifecycle. *)

\* An insert is a new request.
LEMMA SendAsks ==
  ASSUME Inv, NEW h \in Handlers, SendInsert(h)
  PROVE  L!NewRequest(calls[h].me, calls[h].peer, calls[h].activity) /\ At(h, "sendCreate")
<1> DEFINE a == <<calls[h].me, calls[h].peer, calls[h].activity>>
<1>1. PICK r \in FreeIds : InsertRequest(h, r)
  BY DEF SendInsert
<1>2. r \in RequestIds /\ ~Pending(r)
  BY DEF FreeIds, Pending
<1>3. /\ \A q \in RequestIds \ {r} : requests'[q] = requests[q]
      /\ requests'[r] = [requester |-> calls[h].me, recipient |-> calls[h].peer,
                         activity |-> calls[h].activity, status |-> "PENDING"]
  BY <1>1, <1>2 DEF InsertRequest, Inv, TypeOK
<1>4. Asked' = Asked \cup {a}
  <2>1. \A q \in RequestIds : Pending(q)' <=> Pending(q) \/ q = r
    BY <1>3 DEF Pending
  <2>2. \A q \in RequestIds \ {r} : Asks(q)' = Asks(q)
    BY <1>3 DEF Asks
  <2>3. Asks(r)' = a
    BY <1>3 DEF Asks
  <2>4. Asked' = {Asks(q)' : q \in {p \in RequestIds : Pending(p)'}}
    BY DEF Asked, Asks
  <2> QED
    BY <1>2, <2>1, <2>2, <2>3, <2>4, AskedRows
<1>5. a \notin Asked
  BY DEF SendInsert, PendingFor, PendingFrom, Asked
<1>6. calls[h].me # calls[h].peer /\ At(h, "sendCreate")
  BY DEF SendInsert, At, Inv, Shapes, CallShape, SendPc
<1>7. connections' = connections /\ blocks' = blocks
  BY <1>1 DEF InsertRequest
<1> QED
  BY <1>4, <1>5, <1>6, <1>7, SameRows DEF L!NewRequest

\* Accepting is agreeing to what the claimed request asks.
LEMMA AcceptAgrees ==
  ASSUME Inv, NEW h \in Handlers, AcceptCommit(h)
  PROVE  \E u, v \in Users, x \in Activities : L!Agree(u, v, x)
<1> DEFINE r == calls[h].request
           u == requests[r].requester
           v == requests[r].recipient
           x == requests[r].activity
           k == SortedKey(u, v, x)
<1>1. r \in RequestIds /\ Pending(r)
  BY DEF AcceptCommit, Connect, Inv, Claims, Claimed, Shapes, CallShape, RequestPc, AcceptPc, At
<1>2. u \in Users /\ v \in Users /\ x \in Activities
  BY <1>1 DEF Inv, Shapes, RowShape, Pending
<1>3. k \in Key /\ About(k) = <<{u, v}, x>>
  BY <1>2, AboutSorted
<1>4. /\ requests' = [requests EXCEPT ![r].status = "ACCEPTED"]
      /\ connections' = [connections EXCEPT ![k] = "active"] /\ blocks' = blocks
  BY DEF AcceptCommit, Connect, RequestKey
<1>5. <<u, v, x>> \in Asked
  BY <1>1 DEF Asked
<1>6. Asked' = Asked \ {<<u, v, x>>}
  <2>1. \A q \in RequestIds \ {r} : requests'[q] = requests[q]
    BY <1>4 DEF Inv, TypeOK
  <2>2. requests'[r].status = "ACCEPTED"
    BY <1>1, <1>4 DEF Inv, TypeOK, Request
  <2>3. Asked' = Asked \ {Asks(q) : q \in {p \in {r} : Pending(p)}}
    BY <1>1, <2>1, <2>2, AskedEnds DEF Inv
  <2> QED
    BY <1>1, <2>3 DEF Asks
<1>7. Together' = Together \cup {<<{u, v}, x>>}
  <2> HIDE DEF k
  <2>1. \A j \in Key : Active(j)' <=> Active(j) \/ j = k
    BY <1>3, <1>4 DEF Active, Inv, TypeOK
  <2>2. Together' = {About(j) : j \in {i \in Key : Active(i) \/ i = k}}
    BY <2>1 DEF Together, About
  <2> QED
    BY <1>3, <2>2, TogetherRows
<1> QED
  BY <1>2, <1>4, <1>5, <1>6, <1>7 DEF L!Agree

\* Declining and cancelling drop it.
LEMMA ResolveDrops ==
  ASSUME Inv, NEW h \in Handlers, DeclineWrite(h) \/ CancelWrite(h)
  PROVE  \E u, v \in Users, x \in Activities : L!Drop(u, v, x)
<1> DEFINE r == calls[h].request
           u == requests[r].requester
           v == requests[r].recipient
           x == requests[r].activity
<1>1. r \in RequestIds /\ Pending(r)
  BY DEF DeclineWrite, CancelWrite, Inv, Shapes, CallShape, RequestPc, At
<1>2. u \in Users /\ v \in Users /\ x \in Activities
  BY <1>1 DEF Inv, Shapes, RowShape, Pending
<1>3. PICK status \in {"DECLINED", "gone"}, answer \in Answer : Resolve(h, status, answer)
  BY DEF DeclineWrite, CancelWrite, Answer
<1>4. <<u, v, x>> \in Asked
  BY <1>1 DEF Asked
<1>5. Asked' = Asked \ {<<u, v, x>>}
  <2>1. \A q \in RequestIds \ {r} : requests'[q] = requests[q]
    BY <1>3 DEF Inv, TypeOK, Resolve
  <2>2. requests'[r].status = status
    BY <1>1, <1>3 DEF Inv, TypeOK, Request, Resolve
  <2>3. Asked' = Asked \ {Asks(q) : q \in {p \in {r} : Pending(p)}}
    BY <1>1, <2>1, <2>2, AskedEnds DEF Inv
  <2> QED
    BY <1>1, <2>3 DEF Asks
<1>6. Together' = Together /\ blocks' = blocks
  BY <1>3, SameRows DEF Resolve
<1> QED
  BY <1>2, <1>4, <1>5, <1>6 DEF L!Drop

\* An unmatch parts the pair, or finds it parted.
LEMMA RemoveParts ==
  ASSUME Inv, Scopes, NEW h \in Handlers, RemoveWrite(h)
  PROVE  (\E t \in Together : L!Part(t)) \/ UNCHANGED L!lvars
<1>1. PICK k \in Key : calls[h].conns = {k}
  BY DEF RemoveWrite, Scopes, Scoped
<1>2. Together' = Together \ {About(j) : j \in {i \in {k} : Active(i)}}
  BY <1>1, TogetherEnds DEF RemoveWrite, Inv
<1>3. Asked' = Asked /\ blocks' = blocks
  BY SameRows DEF RemoveWrite
<1>4. CASE Active(k)
  <2>1. About(k) \in Together
    BY <1>4, TogetherRows
  <2>2. Together' = Together \ {About(k)}
    BY <1>2, <1>4
  <2> QED
    BY <1>3, <2>1, <2>2 DEF L!Part
<1>5. CASE ~Active(k)
  BY <1>2, <1>3, <1>5 DEF L!lvars
<1> QED
  BY <1>4, <1>5

\* A block ends some of what is between its pair, and nothing else.
LEMMA BlockRaced ==
  ASSUME Inv, Scopes, NEW h \in Handlers, BlockCommit(h)
  PROVE  \E u, v \in Users : L!RacedBlock(u, v)
<1> DEFINE u == calls[h].me
           v == calls[h].peer
           R == {r \in calls[h].rows : Pending(r)}
<1>1. u \in Users /\ v \in Users /\ u # v /\ <<u, v>> \notin blocks
  BY DEF BlockCommit, Sever, At, Inv, Shapes, CallShape, BlockPc, Scopes, Scoped, Inserted, Names
<1>2. /\ calls[h].conns \subseteq KeysBetween(u, v)
      /\ \A r \in calls[h].rows : {requests[r].requester, requests[r].recipient} = {u, v}
  BY DEF BlockCommit, Sever, At, Scopes, Scoped, Inserted, BlockPc
<1>3. R \subseteq RequestIds /\ calls[h].conns \subseteq Key
  BY DEF Inv, TypeOK, Call
<1>4. Asked' = Asked \ {Asks(r) : r \in {q \in R : Pending(q)}}
  <2>1. /\ \A r \in RequestIds \ R : requests'[r] = requests[r]
        /\ \A r \in R : requests'[r].status # "PENDING"
    BY <1>3 DEF BlockCommit, Sever, Decline, Inv, TypeOK, Request
  <2> QED
    BY <1>3, <2>1, AskedEnds DEF Inv
<1>5. Together' = Together \ {About(k) : k \in {j \in calls[h].conns : Active(j)}}
  BY <1>3, TogetherEnds DEF BlockCommit, Sever, Inv
<1>6. Asked' \subseteq Asked /\ Asked \ Asked' \subseteq L!AskedBetween(u, v)
  BY <1>2, <1>4 DEF L!AskedBetween, Asks
<1>7. Together' \subseteq Together /\ Together \ Together' \subseteq L!TogetherAs({u, v})
  <2>1. \A k \in calls[h].conns : About(k)[1] = {u, v}
    BY <1>1, <1>2, AboutSorted DEF KeysBetween
  <2> QED
    BY <1>5, <2>1 DEF L!TogetherAs
<1>8. blocks' = blocks \cup {<<u, v>>}
  BY DEF BlockCommit, Sever
<1> QED
  BY <1>1, <1>6, <1>7, <1>8 DEF L!RacedBlock

-----------------------------------------------------------------------------
(* Overlapping calls keep the raced promise. *)

\* Empty tables: nobody has asked, nobody is together.
LEMMA InitMaps == Init => L!Init /\ Scopes
  BY DEF Init, L!Init, Asked, Together, Pending, Active, FreeRequest, Scopes, Scoped, OneInserts,
         Inserted, BlockPc, At, Idle

\* Every step is a step of the raced promise, or changes nothing it speaks of.
LEMMA RacedStep ==
  ASSUME Inv, Scopes, [Next]_vars
  PROVE  [L!RacedNext]_L!lvars
<1>1. ASSUME NEW h \in Handlers, Passive(h) \/ AcceptClaim(h) PROVE UNCHANGED L!lvars
  BY <1>1, SameRows DEF Passive, AcceptClaim, tables, L!lvars
<1>2. ASSUME NEW h \in Handlers, SendInsert(h) PROVE L!RacedNext
  <2>1. calls[h].me \in Users /\ calls[h].peer \in Users /\ calls[h].activity \in Activities
    BY <1>2 DEF SendInsert, At, Inv, Shapes, CallShape, SendPc
  <2> QED
    BY <1>2, <2>1, SendAsks DEF L!RacedNext
<1>3. ASSUME NEW h \in Handlers, AcceptCommit(h) PROVE L!RacedNext
  BY <1>3, AcceptAgrees DEF L!RacedNext, L!Answered
<1>4. ASSUME NEW h \in Handlers, DeclineWrite(h) \/ CancelWrite(h) PROVE L!RacedNext
  BY <1>4, ResolveDrops DEF L!RacedNext, L!Answered
<1>5. ASSUME NEW h \in Handlers, RemoveWrite(h) PROVE [L!RacedNext]_L!lvars
  BY <1>5, RemoveParts DEF L!RacedNext, L!Answered
<1>6. ASSUME NEW h \in Handlers, BlockCommit(h) PROVE L!RacedNext
  BY <1>6, BlockRaced DEF L!RacedNext
<1>7. ASSUME NEW u \in Users, NEW v \in Users, Unblock(u, v) PROVE L!RacedNext
  BY <1>7, SameRows DEF Unblock, L!RacedNext, L!Answered, L!Unblock
<1>8. CASE UNCHANGED vars
  BY <1>8, SameRows DEF vars, L!lvars
<1> QED
  BY <1>1, <1>2, <1>3, <1>4, <1>5, <1>6, <1>7, <1>8, Moves DEF Writes, Inv

\* However calls overlap, fail and lock each other out, the services implement
\* the raced promise.
THEOREM RacedPromiseKept == Spec => KeepsRacedPromise
<1>1. Inv /\ Scopes /\ [Next]_vars => (Inv /\ Scopes)' /\ [L!RacedNext]_L!lvars
  BY InvStep, ScopeStep, RacedStep
<1> QED
  BY <1>1, InvInit, InitMaps, PTL DEF Spec, KeepsRacedPromise, L!RacedSpec
=============================================================================
