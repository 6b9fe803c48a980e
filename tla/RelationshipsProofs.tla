-------------------------- MODULE RelationshipsProofs --------------------------
(***************************************************************************)
(* Theorems about Relationships, for any number of users, activities,      *)
(* requests and concurrent calls.                                          *)
(***************************************************************************)
EXTENDS Relationships, TLAPS

-----------------------------------------------------------------------------
(* The inductive invariant, in parts. *)

\* A row that was ever sent names two different users and an activity.
RowShape(r) ==
  requests[r].status # "free" =>
    /\ requests[r].requester \in Users /\ requests[r].recipient \in Users
    /\ requests[r].requester # requests[r].recipient
    /\ requests[r].activity \in Activities

\* A call carries the arguments its next statement reads.
RequestPc == AcceptPc \cup {"declineWrite", "cancelWrite"} \cup Answer
CallShape(h) ==
  /\ calls[h].pc \in SendPc \cup BlockPc =>
       calls[h].me \in Users /\ calls[h].peer \in Users /\ calls[h].me # calls[h].peer
  /\ calls[h].pc \in SendPc => calls[h].activity \in Activities
  /\ calls[h].pc \in RequestPc =>
       calls[h].request \in RequestIds /\ requests[calls[h].request].status # "free"

Shapes == (\A r \in RequestIds : RowShape(r)) /\ (\A h \in Handlers : CallShape(h))

\* A row keeps its type when its status changes, a call when its pc does and
\* when it records what its statement found.
LEMMA SetStatus ==
  ASSUME TypeOK, NEW r \in RequestIds, NEW s \in Status
  PROVE  [requests EXCEPT ![r].status = s] \in [RequestIds -> Request]
  BY DEF TypeOK, Request

\* A call keeps its type when it goes on.
LEMMA SetPc ==
  ASSUME TypeOK, NEW h \in Handlers, NEW pc \in Pc
  PROVE  [calls EXCEPT ![h].pc = pc] \in [Handlers -> Call]
  BY DEF TypeOK, Call

\* ... when a block has found its connections.
LEMMA SetConnections ==
  ASSUME TypeOK, NEW h \in Handlers, NEW pc \in Pc, NEW K \in SUBSET Key
  PROVE  [calls EXCEPT ![h].pc = pc, ![h].conns = K] \in [Handlers -> Call]
<1>1. [calls[h] EXCEPT !.pc = pc, !.conns = K] \in Call
  BY DEF TypeOK, Call
<1>2. [calls EXCEPT ![h].pc = pc, ![h].conns = K]
        = [calls EXCEPT ![h] = [calls[h] EXCEPT !.pc = pc, !.conns = K]]
  BY DEF TypeOK
<1> QED
  BY <1>1, <1>2 DEF TypeOK

\* ... and when it has found its requests.
LEMMA SetRows ==
  ASSUME TypeOK, NEW h \in Handlers, NEW pc \in Pc, NEW R \in SUBSET RequestIds
  PROVE  [calls EXCEPT ![h].pc = pc, ![h].rows = R] \in [Handlers -> Call]
<1>1. [calls[h] EXCEPT !.pc = pc, !.rows = R] \in Call
  BY DEF TypeOK, Call
<1>2. [calls EXCEPT ![h].pc = pc, ![h].rows = R]
        = [calls EXCEPT ![h] = [calls[h] EXCEPT !.pc = pc, !.rows = R]]
  BY DEF TypeOK
<1> QED
  BY <1>1, <1>2 DEF TypeOK

\* Empty tables and idle calls have their types and shapes.
LEMMA TypeInit == Init => TypeOK /\ Shapes
  BY DEF Init, TypeOK, Shapes, RowShape, CallShape, RequestPc, Request, Status, FreeRequest,
         ConnectionState, Call, Pc, SendPc, AcceptPc, BlockPc, Answer, Idle

\* Every statement, answer and failure keeps the types and the shapes.
LEMMA TypeStep == TypeOK /\ Shapes /\ [Next]_vars => TypeOK' /\ Shapes'
<1> SUFFICES ASSUME TypeOK, Shapes, [Next]_vars PROVE TypeOK' /\ Shapes'
  OBVIOUS
<1> USE DEF TypeOK, Shapes, RowShape, CallShape, RequestPc, Request, Status, ConnectionState,
            Call, Pc, SendPc, AcceptPc, BlockPc, Answer, Idle, tables, Begin, Goto, Finish, At
<1>1. ASSUME NEW h \in Handlers, NEW u \in Users, NEW v \in Users, NEW x \in Activities,
             SendEligible(h, u, v, x)
      PROVE  TypeOK' /\ Shapes'
  BY <1>1 DEF SendEligible, BeginSend
<1>2. ASSUME NEW h \in Handlers, NEW u \in Users, NEW r \in RequestIds,
             AcceptLoad(h, u, r) \/ DeclineLoad(h, u, r) \/ CancelLoad(h, u, r)
      PROVE  TypeOK' /\ Shapes'
  <2>1. CASE AcceptLoad(h, u, r)
    BY <2>1 DEF AcceptLoad, LoadForRecipient, Pending
  <2>2. CASE DeclineLoad(h, u, r)
    BY <2>2 DEF DeclineLoad, LoadForRecipient, Pending
  <2>3. CASE CancelLoad(h, u, r)
    BY <2>3 DEF CancelLoad
  <2> QED
    BY <1>2, <2>1, <2>2, <2>3
<1>3. ASSUME NEW h \in Handlers, NEW u \in Users, NEW k \in Key, RemoveLoad(h, u, k)
      PROVE  TypeOK' /\ Shapes'
  BY <1>3 DEF RemoveLoad
<1>4. ASSUME NEW h \in Handlers, NEW u \in Users, NEW v \in Users, BlockStart(h, u, v)
      PROVE  TypeOK' /\ Shapes'
  BY <1>4 DEF BlockStart
<1>5. ASSUME NEW h \in Handlers, SendConnected(h) PROVE TypeOK' /\ Shapes'
  BY <1>5 DEF SendConnected
<1>6. ASSUME NEW h \in Handlers, SendInsert(h) PROVE TypeOK' /\ Shapes'
  BY <1>6 DEF SendInsert, InsertRequest, FreeIds
<1>7. ASSUME NEW h \in Handlers, AcceptClaim(h) PROVE TypeOK' /\ Shapes'
  BY <1>7 DEF AcceptClaim
<1>8. ASSUME NEW h \in Handlers, AcceptCommit(h) PROVE TypeOK' /\ Shapes'
  <2> DEFINE r == calls[h].request
             k == RequestKey(r)
  <2>1. r \in RequestIds /\ requests[r].status # "free"
    BY <1>8 DEF AcceptCommit, Connect
  <2>2. k \in Key
    BY <2>1 DEF RequestKey, SortedKey, Key
  <2> HIDE DEF k
  <2>3. Connect(h, k, {k})
    BY <1>8 DEF AcceptCommit, k
  <2>4. TypeOK'
    <3>1. requests' \in [RequestIds -> Request] /\ calls' \in [Handlers -> Call]
      BY <2>1, <2>3, SetStatus, SetPc DEF Connect
    <3> QED
      BY <2>2, <2>3, <3>1 DEF Connect
  <2>5. Shapes'
    BY <2>1, <2>2, <2>3 DEF Connect
  <2> QED
    BY <2>4, <2>5
<1>9. ASSUME NEW h \in Handlers, DeclineWrite(h) \/ CancelWrite(h) PROVE TypeOK' /\ Shapes'
  <2>1. CASE DeclineWrite(h)
    <3>1. requests' \in [RequestIds -> Request] /\ calls' \in [Handlers -> Call]
      BY <2>1, SetStatus, SetPc DEF DeclineWrite, Resolve
    <3>3. TypeOK'
      BY <2>1, <3>1 DEF DeclineWrite, Resolve
    <3>2. Shapes'
      BY <2>1 DEF DeclineWrite, Resolve
    <3> QED
      BY <3>2, <3>3
  <2>2. CASE CancelWrite(h)
    <3>1. requests' \in [RequestIds -> Request] /\ calls' \in [Handlers -> Call]
      BY <2>2, SetStatus, SetPc DEF CancelWrite, Resolve
    <3>3. TypeOK'
      BY <2>2, <3>1 DEF CancelWrite, Resolve
    <3>2. Shapes'
      BY <2>2 DEF CancelWrite, Resolve
    <3> QED
      BY <3>2, <3>3
  <2> QED
    BY <1>9, <2>1, <2>2
<1>10. ASSUME NEW h \in Handlers,
              SendDuplicate(h) \/ NoLongerPending(h) \/ DeadlockVictim(h) \/ Return(h) \/ Fail(h)
       PROVE  TypeOK' /\ Shapes'
  <2>1. Finish(h) /\ UNCHANGED tables
    BY <1>10 DEF SendDuplicate, NoLongerPending, DeadlockVictim, Return, Fail
  <2> QED
    BY <2>1
<1>11. ASSUME NEW h \in Handlers, RemoveWrite(h) PROVE TypeOK' /\ Shapes'
  BY <1>11 DEF RemoveWrite
<1>12. ASSUME NEW h \in Handlers, BlockInsert(h) PROVE TypeOK' /\ Shapes'
  BY <1>12, SMTT(30) DEF BlockInsert
<1>13. ASSUME NEW h \in Handlers, BlockScanConnections(h) \/ BlockEndConnections(h)
       PROVE  TypeOK' /\ Shapes'
  <2>1. CASE BlockScanConnections(h)
    <3>1. ActiveBetween(calls[h].me, calls[h].peer) \subseteq Key
      BY <2>1 DEF BlockScanConnections, ScanConnections, ActiveBetween, KeysBetween, SortedKey, Key
    <3>2. TypeOK'
      BY <2>1, <3>1, SetConnections DEF BlockScanConnections, ScanConnections
    <3>3. Shapes'
      BY <2>1 DEF BlockScanConnections, ScanConnections
    <3> QED
      BY <3>2, <3>3
  <2>2. CASE BlockEndConnections(h)
    <3>1. TypeOK'
      BY <2>2, SetConnections DEF BlockEndConnections
    <3>2. Shapes'
      BY <2>2 DEF BlockEndConnections
    <3> QED
      BY <3>1, <3>2
  <2> QED
    BY <1>13, <2>1, <2>2
<1>14. ASSUME NEW h \in Handlers, BlockScanRequests(h) PROVE TypeOK' /\ Shapes'
  <2>1. PendingBetween(calls[h].me, calls[h].peer) \subseteq RequestIds
    BY DEF PendingBetween, PendingFrom
  <2>2. TypeOK'
    BY <1>14, <2>1, SetRows DEF BlockScanRequests, ScanRequests
  <2>3. Shapes'
    BY <1>14 DEF BlockScanRequests, ScanRequests
  <2> QED
    BY <2>2, <2>3
<1>15. ASSUME NEW h \in Handlers, BlockCommit(h) PROVE TypeOK' /\ Shapes'
  BY <1>15, SMTT(30) DEF BlockCommit, Sever, Decline, Pair, Pending
<1>16. ASSUME NEW u \in Users, NEW v \in Users, Unblock(u, v) PROVE TypeOK' /\ Shapes'
  BY <1>16 DEF Unblock
<1>17. CASE UNCHANGED vars
  BY <1>17 DEF vars
<1> QED
  BY <1>1, <1>2, <1>3, <1>4, <1>5, <1>6, <1>7, <1>8, <1>9, <1>10, <1>11, <1>12, <1>13, <1>14,
     <1>15, <1>16, <1>17
     DEF Next, Start, Step, End, StartConnections, StepConnections, StartSafety, StepSafety

-----------------------------------------------------------------------------
(* Which steps write.  A passive step writes no table, and no call claims  *)
(* a request or gets its answer by it.                                     *)

Passive(h) ==
  /\ UNCHANGED tables
  /\ \A g \in Handlers \ {h} : calls'[g] = calls[g]
  /\ calls'[h].pc \notin {"acceptConnect"} \cup Answer
  /\ \A k \in calls'[h].conns : k \in calls[h].conns \/ Active(k)

Writes(h) ==
  \/ SendInsert(h) \/ AcceptCommit(h) \/ DeclineWrite(h) \/ CancelWrite(h)
  \/ RemoveWrite(h) \/ BlockCommit(h)

\* Every step is passive, a claim, a write, an unblock, or a stutter.
LEMMA Moves ==
  ASSUME TypeOK, [Next]_vars
  PROVE  \/ \E h \in Handlers : Passive(h) \/ AcceptClaim(h) \/ Writes(h)
         \/ \E u, v \in Users : Unblock(u, v)
         \/ UNCHANGED vars
<1> USE DEF TypeOK, Passive, tables, Begin, Goto, Finish, Idle, Answer
<1>1. ASSUME NEW h \in Handlers, StartConnections(h) PROVE Passive(h)
  <2>1. ASSUME NEW u \in Users, NEW v \in Users, NEW x \in Activities, SendEligible(h, u, v, x)
        PROVE  Passive(h)
    BY <2>1 DEF SendEligible, BeginSend
  <2>2. ASSUME NEW u \in Users, NEW r \in RequestIds, AcceptLoad(h, u, r) PROVE Passive(h)
    BY <2>2 DEF AcceptLoad
  <2>3. ASSUME NEW u \in Users, NEW r \in RequestIds, DeclineLoad(h, u, r) PROVE Passive(h)
    BY <2>3 DEF DeclineLoad
  <2>4. ASSUME NEW u \in Users, NEW r \in RequestIds, CancelLoad(h, u, r) PROVE Passive(h)
    BY <2>4 DEF CancelLoad
  <2>5. ASSUME NEW u \in Users, NEW k \in Key, RemoveLoad(h, u, k) PROVE Passive(h)
    BY <2>5 DEF RemoveLoad
  <2> QED
    BY <1>1, <2>1, <2>2, <2>3, <2>4, <2>5 DEF StartConnections
<1>2. ASSUME NEW h \in Handlers, StartSafety(h) PROVE Passive(h)
  BY <1>2 DEF StartSafety, BlockStart
<1>3. ASSUME NEW h \in Handlers,
             Finish(h) /\ UNCHANGED tables
      PROVE  Passive(h)
  BY <1>3
<1>4. ASSUME NEW h \in Handlers,
             \/ SendDuplicate(h) \/ NoLongerPending(h) \/ DeadlockVictim(h)
             \/ Return(h) \/ Fail(h)
      PROVE  Passive(h)
  BY <1>3, <1>4 DEF SendDuplicate, NoLongerPending, DeadlockVictim, Return, Fail
<1>5. ASSUME NEW h \in Handlers, SendConnected(h) PROVE Passive(h)
  <2>1. CASE Finish(h)
    BY <1>5, <1>3, <2>1 DEF SendConnected
  <2>2. CASE Goto(h, "sendCreate")
    BY <1>5, <2>2 DEF SendConnected
  <2> QED
    BY <1>5, <2>1, <2>2 DEF SendConnected
<1>6. ASSUME NEW h \in Handlers, BlockInsert(h) PROVE Passive(h)
  <2>1. CASE Finish(h)
    BY <1>6, <1>3, <2>1 DEF BlockInsert
  <2>2. CASE Goto(h, "blockScanConnections")
    BY <1>6, <2>2 DEF BlockInsert
  <2> QED
    BY <1>6, <2>1, <2>2 DEF BlockInsert
<1>7. ASSUME NEW h \in Handlers, BlockScanConnections(h) PROVE Passive(h)
  BY <1>7 DEF BlockScanConnections, ScanConnections, ActiveBetween
<1>8. ASSUME NEW h \in Handlers, BlockEndConnections(h) PROVE Passive(h)
  BY <1>8 DEF BlockEndConnections
<1>9. ASSUME NEW h \in Handlers, BlockScanRequests(h) PROVE Passive(h)
  BY <1>9 DEF BlockScanRequests, ScanRequests
<1> QED
  BY <1>1, <1>2, <1>4, <1>5, <1>6, <1>7, <1>8, <1>9
     DEF Next, Start, Step, End, StepConnections, StepSafety, Writes

-----------------------------------------------------------------------------
(* A claimed request is PENDING and claimed once: the row lock is exclusive *)
(* and every writer of a request waits for it.                              *)

Claimed(h) == At(h, "acceptConnect")
Claims ==
  /\ \A h \in Handlers : Claimed(h) => Pending(calls[h].request)
  /\ \A g, h \in Handlers :
       Claimed(g) /\ Claimed(h) /\ calls[g].request = calls[h].request => g = h

\* A statement that got its locks wants no request that another call claimed.
LEMMA ClearOfClaims ==
  ASSUME NEW h \in Handlers, Clear(h), NEW g \in Handlers, g # h, Claimed(g)
  PROVE  calls[g].request \notin WantedRequests(h)
  BY DEF Clear, WaitsFor, HeldRequests, Claimed, At

\* A claimed request stays PENDING and claimed by one call until its owner ends.
LEMMA ClaimsStep ==
  ASSUME TypeOK, Shapes, Claims, [Next]_vars
  PROVE  Claims'
<1> USE DEF TypeOK, Claims, Claimed, At, Pending
<1>1. ASSUME NEW h \in Handlers, Passive(h) PROVE Claims'
  BY <1>1 DEF Passive, tables
<1>2. ASSUME NEW h \in Handlers, AcceptClaim(h) PROVE Claims'
  <2>1. WantedRequests(h) = {calls[h].request}
    BY <1>2 DEF AcceptClaim, WantedRequests
  <2>2. \A g \in Handlers \ {h} : Claimed(g) => calls[g].request # calls[h].request
    BY <1>2, <2>1, ClearOfClaims DEF AcceptClaim
  <2> QED
    BY <1>2, <2>2 DEF AcceptClaim, Goto, tables
<1>3. ASSUME NEW h \in Handlers, SendInsert(h) PROVE Claims'
  <2>1. PICK r \in FreeIds : InsertRequest(h, r)
    BY <1>3 DEF SendInsert
  <2>2. r \in RequestIds /\ requests[r].status = "free"
    BY DEF FreeIds
  <2>3. \A q \in RequestIds : q # r => requests'[q] = requests[q]
    BY <2>1 DEF InsertRequest
  <2>4. \A g \in Handlers : Claimed(g)' => Claimed(g) /\ calls'[g] = calls[g]
    BY <2>1 DEF InsertRequest, Finish, Idle
  <2>5. \A g \in Handlers : Claimed(g) => calls[g].request \in RequestIds
    BY DEF Shapes, CallShape, RequestPc, AcceptPc
  <2> QED
    BY <2>2, <2>3, <2>4, <2>5
<1>4. ASSUME NEW h \in Handlers, AcceptCommit(h) PROVE Claims'
  <2>1. /\ At(h, "acceptConnect") /\ Goto(h, "accepted")
        /\ requests' = [requests EXCEPT ![calls[h].request].status = "ACCEPTED"]
    BY <1>4 DEF AcceptCommit, Connect
  <2>2. \A q \in RequestIds : q # calls[h].request => requests'[q] = requests[q]
    BY <2>1
  <2>3. \A g \in Handlers : Claimed(g)' => g # h /\ Claimed(g) /\ calls'[g] = calls[g]
    BY <2>1 DEF Goto
  <2>4. \A g \in Handlers : Claimed(g) => calls[g].request \in RequestIds
    BY DEF Shapes, CallShape, RequestPc, AcceptPc
  <2> QED
    BY <2>1, <2>2, <2>3, <2>4
<1>5. ASSUME NEW h \in Handlers, DeclineWrite(h) \/ CancelWrite(h) PROVE Claims'
  <2>1. PICK status \in Status, answer \in Answer : Clear(h) /\ Resolve(h, status, answer)
    BY <1>5 DEF DeclineWrite, CancelWrite, Status, Answer
  <2>2. WantedRequests(h) = {calls[h].request}
    BY <1>5 DEF DeclineWrite, CancelWrite, WantedRequests
  <2>3. \A q \in RequestIds : q # calls[h].request => requests'[q] = requests[q]
    BY <2>1 DEF Resolve
  <2>4. \A g \in Handlers : Claimed(g)' => g # h /\ Claimed(g) /\ calls'[g] = calls[g]
    BY <2>1 DEF Resolve, Goto, Answer
  <2>5. \A g \in Handlers : Claimed(g) => calls[g].request \in RequestIds
    BY DEF Shapes, CallShape, RequestPc, AcceptPc
  <2>6. \A g \in Handlers \ {h} : Claimed(g) => calls[g].request # calls[h].request
    BY <2>1, <2>2, ClearOfClaims
  <2> QED
    BY <2>3, <2>4, <2>5, <2>6
<1>6. ASSUME NEW h \in Handlers, RemoveWrite(h) PROVE Claims'
  BY <1>6 DEF RemoveWrite, Finish, Idle
<1>7. ASSUME NEW h \in Handlers, BlockCommit(h) PROVE Claims'
  <2>1. Clear(h) /\ Finish(h) /\ WantedRequests(h) = calls[h].rows
    BY <1>7 DEF BlockCommit, Sever, WantedRequests
  <2>2. \A q \in RequestIds : q \notin calls[h].rows => requests'[q] = requests[q]
    BY <1>7 DEF BlockCommit, Sever, Decline
  <2>3. \A g \in Handlers : Claimed(g)' => g # h /\ Claimed(g) /\ calls'[g] = calls[g]
    BY <2>1 DEF Finish, Idle
  <2>4. \A g \in Handlers : Claimed(g) => calls[g].request \in RequestIds
    BY DEF Shapes, CallShape, RequestPc, AcceptPc
  <2>5. \A g \in Handlers \ {h} : Claimed(g) => calls[g].request \notin calls[h].rows
    BY <2>1, ClearOfClaims
  <2> QED
    BY <2>2, <2>3, <2>4, <2>5
<1>8. ASSUME NEW u \in Users, NEW v \in Users, Unblock(u, v) PROVE Claims'
  BY <1>8 DEF Unblock
<1>9. CASE UNCHANGED vars
  BY <1>9 DEF vars
<1> QED
  BY <1>1, <1>2, <1>3, <1>4, <1>5, <1>6, <1>7, <1>8, <1>9, Moves DEF Writes

\* What the steps that write do to the requests: one that was sent and is
\* not PENDING stays as it is.
Resolved(r) == requests[r].status \in {"ACCEPTED", "DECLINED", "gone"}

\* No step touches a row that is not PENDING, once it is used.
LEMMA ResolvedStep ==
  ASSUME TypeOK, Shapes, Claims, [Next]_vars, NEW r \in RequestIds, Resolved(r)
  PROVE  requests'[r] = requests[r]
<1> USE DEF TypeOK, Resolved, Pending
<1>1. ASSUME NEW h \in Handlers, Passive(h) \/ AcceptClaim(h) \/ RemoveWrite(h)
      PROVE  requests'[r] = requests[r]
  BY <1>1 DEF Passive, AcceptClaim, RemoveWrite, tables
<1>2. ASSUME NEW h \in Handlers, SendInsert(h) PROVE requests'[r] = requests[r]
  BY <1>2 DEF SendInsert, InsertRequest, FreeIds
<1>3. ASSUME NEW h \in Handlers, AcceptCommit(h) PROVE requests'[r] = requests[r]
  BY <1>3 DEF AcceptCommit, Connect, Claims, Claimed
<1>4. ASSUME NEW h \in Handlers, DeclineWrite(h) \/ CancelWrite(h)
      PROVE  requests'[r] = requests[r]
  BY <1>4 DEF DeclineWrite, CancelWrite, Resolve
<1>5. ASSUME NEW h \in Handlers, BlockCommit(h) PROVE requests'[r] = requests[r]
  BY <1>5 DEF BlockCommit, Sever, Decline
<1>6. CASE UNCHANGED vars
  BY <1>6 DEF vars
<1>7. ASSUME NEW u \in Users, NEW v \in Users, Unblock(u, v) PROVE requests'[r] = requests[r]
  BY <1>7 DEF Unblock
<1> QED
  BY <1>1, <1>2, <1>3, <1>4, <1>5, <1>6, <1>7, Moves DEF Writes

-----------------------------------------------------------------------------
(* Answers *)

\* Answers stay true: what they report is final, and only one call got there.
LEMMA AnswersStep ==
  ASSUME TypeOK, Shapes, Claims, HonestAnswers, [Next]_vars
  PROVE  HonestAnswers'
<1> USE DEF TypeOK, HonestAnswers, At, Answer
\* An answer given before this step is still true.
<1>1. ASSUME NEW g \in Handlers, calls'[g] = calls[g], calls[g].pc \in Answer
      PROVE  /\ Resolved(calls[g].request)
             /\ requests'[calls'[g].request] = requests[calls[g].request]
  <2>1. calls[g].request \in RequestIds
    BY <1>1 DEF Shapes, CallShape, RequestPc
  <2>2. Resolved(calls[g].request)
    BY <1>1 DEF Resolved
  <2> QED
    BY <1>1, <2>1, <2>2, ResolvedStep
\* A step that gives no new answer.
<1>2. ASSUME \A g \in Handlers : calls'[g].pc \in Answer => calls'[g] = calls[g]
      PROVE  HonestAnswers'
  BY <1>1, <1>2
\* A step that answers h resolves a request that nobody had resolved.
<1>3. ASSUME NEW h \in Handlers, NEW answer \in Answer, NEW status \in Status,
             Goto(h, answer), calls[h].request \in RequestIds, Pending(calls[h].request),
             <<answer, status>> \in {<<"accepted", "ACCEPTED">>, <<"declined", "DECLINED">>,
                                     <<"cancelled", "gone">>},
             requests' = [requests EXCEPT ![calls[h].request].status = status]
      PROVE  HonestAnswers'
  <2>1. /\ \A g \in Handlers \ {h} : calls'[g] = calls[g]
        /\ calls'[h].pc = answer /\ calls'[h].request = calls[h].request
    BY <1>3 DEF Goto
  <2>2. requests'[calls[h].request].status = status
    BY <1>3 DEF Request
  <2>3. \A g \in Handlers \ {h} :
          calls[g].pc \in Answer => calls[g].request # calls[h].request
    BY <1>1, <1>3, <2>1 DEF Resolved, Pending
  <2> QED
    BY <1>1, <1>3, <2>1, <2>2, <2>3
<1>4. ASSUME NEW h \in Handlers, Passive(h) PROVE HonestAnswers'
  BY <1>2, <1>4 DEF Passive
<1>5. ASSUME NEW h \in Handlers, AcceptClaim(h) PROVE HonestAnswers'
  BY <1>2, <1>5 DEF AcceptClaim, Goto
<1>6. ASSUME NEW h \in Handlers, SendInsert(h) \/ RemoveWrite(h) \/ BlockCommit(h)
      PROVE  HonestAnswers'
  <2>1. Finish(h)
    BY <1>6 DEF SendInsert, InsertRequest, RemoveWrite, BlockCommit, Sever
  <2> QED
    BY <1>2, <2>1 DEF Finish, Idle
<1>7. ASSUME NEW h \in Handlers, AcceptCommit(h) PROVE HonestAnswers'
  <2>1. calls[h].request \in RequestIds /\ Pending(calls[h].request)
    BY <1>7 DEF AcceptCommit, Connect, Claims, Claimed, Shapes, CallShape, RequestPc, AcceptPc
  <2> QED
    BY <1>3, <1>7, <2>1 DEF AcceptCommit, Connect, Status
<1>8. ASSUME NEW h \in Handlers, DeclineWrite(h) PROVE HonestAnswers'
  <2>1. calls[h].request \in RequestIds
    BY <1>8 DEF DeclineWrite, Shapes, CallShape, RequestPc
  <2> QED
    BY <1>3, <1>8, <2>1 DEF DeclineWrite, Resolve, Status
<1>9. ASSUME NEW h \in Handlers, CancelWrite(h) PROVE HonestAnswers'
  <2>1. calls[h].request \in RequestIds
    BY <1>9 DEF CancelWrite, Shapes, CallShape, RequestPc
  <2> QED
    BY <1>3, <1>9, <2>1 DEF CancelWrite, Resolve, Status
<1>10. ASSUME NEW u \in Users, NEW v \in Users, Unblock(u, v) PROVE HonestAnswers'
  BY <1>2, <1>10 DEF Unblock
<1>11. CASE UNCHANGED vars
  BY <1>2, <1>11 DEF vars
<1> QED
  BY <1>4, <1>5, <1>6, <1>7, <1>8, <1>9, <1>10, <1>11, Moves DEF Writes

-----------------------------------------------------------------------------
(* Pending requests *)

\* A row that is PENDING after a step was so before, unless it was inserted.
LEMMA PendingOrigin ==
  ASSUME TypeOK, [Next]_vars, NEW r \in RequestIds, Pending(r)',
         ~ \E h \in Handlers : SendInsert(h)
  PROVE  requests'[r] = requests[r]
<1> USE DEF TypeOK, Pending
<1>1. ASSUME NEW h \in Handlers, Passive(h) \/ AcceptClaim(h) \/ RemoveWrite(h)
      PROVE  requests'[r] = requests[r]
  BY <1>1 DEF Passive, AcceptClaim, RemoveWrite, tables
<1>2. ASSUME NEW h \in Handlers, AcceptCommit(h) PROVE requests'[r] = requests[r]
  BY <1>2 DEF AcceptCommit, Connect, Request
<1>3. ASSUME NEW h \in Handlers, DeclineWrite(h) \/ CancelWrite(h)
      PROVE  requests'[r] = requests[r]
  BY <1>3 DEF DeclineWrite, CancelWrite, Resolve, Request
<1>4. ASSUME NEW h \in Handlers, BlockCommit(h) PROVE requests'[r] = requests[r]
  BY <1>4 DEF BlockCommit, Sever, Decline, Request
<1>5. ASSUME NEW u \in Users, NEW v \in Users, Unblock(u, v) PROVE requests'[r] = requests[r]
  BY <1>5 DEF Unblock
<1>6. CASE UNCHANGED vars
  BY <1>6 DEF vars
<1> QED
  BY <1>1, <1>2, <1>3, <1>4, <1>5, <1>6, Moves DEF Writes

\* A send inserts only where its requester, recipient and activity have no PENDING row.
LEMMA PendingStep ==
  ASSUME TypeOK, PendingUnique, [Next]_vars
  PROVE  PendingUnique'
<1>1. CASE \E h \in Handlers : SendInsert(h)
  <2>1. PICK h \in Handlers, r \in FreeIds :
          /\ InsertRequest(h, r)
          /\ PendingFor(calls[h].me, calls[h].peer, calls[h].activity) = {}
    BY <1>1 DEF SendInsert
  <2>2. \A q \in RequestIds \ {r} : requests'[q] = requests[q]
    BY <2>1 DEF InsertRequest, TypeOK
  <2>3. /\ r \in RequestIds
        /\ requests'[r] = [requester |-> calls[h].me, recipient |-> calls[h].peer,
                           activity |-> calls[h].activity, status |-> "PENDING"]
    BY <2>1 DEF InsertRequest, TypeOK, FreeIds
  <2>4. \A q \in RequestIds :
          ~ /\ Pending(q)
            /\ requests[q].requester = calls[h].me /\ requests[q].recipient = calls[h].peer
            /\ requests[q].activity = calls[h].activity
    BY <2>1 DEF PendingFor, PendingFrom
  <2> QED
    BY <2>2, <2>3, <2>4 DEF PendingUnique, Pending
<1>2. CASE ~ \E h \in Handlers : SendInsert(h)
  <2>1. \A r \in RequestIds : Pending(r)' => Pending(r) /\ requests'[r] = requests[r]
    BY <1>2, PendingOrigin DEF Pending
  <2> QED
    BY <2>1 DEF PendingUnique
<1> QED
  BY <1>1, <1>2

-----------------------------------------------------------------------------
(* Connections and conversations *)

Links ==
  /\ conversations = {k \in Key : connections[k] # "none"}
  /\ \A k \in conversations : k[1] < k[2]
  /\ \A h \in Handlers : calls[h].conns \subseteq conversations
  /\ \A r \in RequestIds : requests[r].status = "ACCEPTED" => RequestKey(r) \in conversations

\* The key of a pair is the same in either order, and ordered.
LEMMA SortedKeyInOrder ==
  ASSUME NEW u \in Users, NEW v \in Users, u # v, NEW x \in Activities
  PROVE  /\ SortedKey(u, v, x) \in Key
         /\ SortedKey(u, v, x)[1] < SortedKey(u, v, x)[2]
  BY UsersOrdered DEF SortedKey, Key

\* Connections, conversations and accepted requests stay linked.
LEMMA LinksStep ==
  ASSUME TypeOK, Shapes, Claims, Links, [Next]_vars
  PROVE  Links'
<1> USE DEF TypeOK, Links
\* A step that leaves connections and conversations alone, accepts nothing
\* and gives no call a connection that was not there.
<1>1. ASSUME UNCHANGED <<connections, conversations>>,
             \A h \in Handlers : \A k \in calls'[h].conns : k \in calls[h].conns \/ Active(k),
             \A r \in RequestIds : requests'[r].status = "ACCEPTED" => requests'[r] = requests[r]
      PROVE  Links'
  <2>1. \A h \in Handlers : calls'[h].conns \subseteq conversations'
    <3> SUFFICES ASSUME NEW h \in Handlers, NEW k \in calls'[h].conns PROVE k \in conversations
      BY <1>1
    <3>1. k \in Key
      BY TypeStep DEF Call
    <3> QED
      BY <1>1, <3>1 DEF Active
  <2>2. \A r \in RequestIds : requests'[r].status = "ACCEPTED" => RequestKey(r)' \in conversations'
    BY <1>1 DEF RequestKey
  <2> QED
    BY <1>1, <2>1, <2>2
\* A step that ends the connections its call names.
<1>2. ASSUME NEW h \in Handlers, Finish(h), UNCHANGED conversations,
             connections' = [k \in Key |-> IF k \in calls[h].conns THEN "removed" ELSE connections[k]],
             \A r \in RequestIds : requests'[r].status = "ACCEPTED" => requests'[r] = requests[r]
      PROVE  Links'
  <2>1. \A g \in Handlers : calls'[g].conns \subseteq calls[g].conns
    BY <1>2 DEF Finish, Idle
  <2>2. \A k \in Key : connections'[k] # "none" <=> connections[k] # "none"
    BY <1>2
  <2>3. \A r \in RequestIds : requests'[r].status = "ACCEPTED" => RequestKey(r)' \in conversations'
    BY <1>2 DEF RequestKey
  <2> QED
    BY <1>2, <2>1, <2>2, <2>3
<1>3. ASSUME NEW h \in Handlers, Passive(h) PROVE Links'
  BY <1>1, <1>3 DEF Passive, tables
<1>4. ASSUME NEW h \in Handlers, AcceptClaim(h) PROVE Links'
  BY <1>1, <1>4 DEF AcceptClaim, tables, Goto
<1>5. ASSUME NEW h \in Handlers, SendInsert(h) PROVE Links'
  BY <1>1, <1>5 DEF SendInsert, InsertRequest, FreeIds, Finish, Idle
<1>6. ASSUME NEW h \in Handlers, AcceptCommit(h) PROVE Links'
  <2> DEFINE r == calls[h].request
             k == RequestKey(r)
  <2>1. r \in RequestIds /\ requests[r].status = "PENDING"
    BY <1>6 DEF AcceptCommit, Connect, Claims, Claimed, Pending, Shapes, CallShape, RequestPc,
                AcceptPc, At
  <2>2. k \in Key /\ k[1] < k[2]
    BY <2>1, SortedKeyInOrder DEF Shapes, RowShape, RequestKey
  <2>3. \A q \in RequestIds : RequestKey(q)' = RequestKey(q)
    BY <1>6, <2>1 DEF AcceptCommit, Connect, RequestKey, Request
  <2>4. \A q \in RequestIds : q # r => requests'[q] = requests[q]
    BY <1>6 DEF AcceptCommit, Connect
  <2> HIDE DEF k
  <2>5. connections' = [connections EXCEPT ![k] = "active"] /\ conversations' = conversations \cup {k}
    BY <1>6 DEF AcceptCommit, Connect, k
  <2>6. \A g \in Handlers : calls'[g].conns = calls[g].conns
    BY <1>6 DEF AcceptCommit, Connect, Goto
  <2>7. \A q \in RequestIds : requests'[q].status = "ACCEPTED" => RequestKey(q)' \in conversations'
    BY <2>3, <2>4, <2>5 DEF k
  <2> QED
    BY <2>2, <2>5, <2>6, <2>7
<1>7. ASSUME NEW h \in Handlers, DeclineWrite(h) \/ CancelWrite(h) PROVE Links'
  <2>1. PICK status \in {"DECLINED", "gone"}, answer \in Answer : Resolve(h, status, answer)
    BY <1>7 DEF DeclineWrite, CancelWrite, Answer
  <2>2. \A r \in RequestIds : requests'[r].status = "ACCEPTED" => requests'[r] = requests[r]
    BY <2>1 DEF Resolve, Request
  <2>3. \A g \in Handlers : calls'[g].conns = calls[g].conns
    BY <2>1 DEF Resolve, Goto
  <2> QED
    BY <1>1, <2>1, <2>2, <2>3 DEF Resolve
<1>8. ASSUME NEW h \in Handlers, RemoveWrite(h) PROVE Links'
  BY <1>2, <1>8 DEF RemoveWrite
<1>9. ASSUME NEW h \in Handlers, BlockCommit(h) PROVE Links'
  BY <1>2, <1>9 DEF BlockCommit, Sever, Decline, Request
<1>10. ASSUME NEW u \in Users, NEW v \in Users, Unblock(u, v) PROVE Links'
  BY <1>1, <1>10 DEF Unblock
<1>11. CASE UNCHANGED vars
  BY <1>1, <1>11 DEF vars
<1> QED
  BY <1>3, <1>4, <1>5, <1>6, <1>7, <1>8, <1>9, <1>10, <1>11, Moves DEF Writes

-----------------------------------------------------------------------------
(* The theorems *)

Inv == TypeOK /\ Shapes /\ Claims /\ HonestAnswers /\ PendingUnique /\ Links

\* Empty tables satisfy the invariant.
LEMMA InvInit == Init => Inv
<1> SUFFICES ASSUME Init PROVE Inv
  OBVIOUS
<1>1. TypeOK /\ Shapes
  BY TypeInit
<1>2. Claims /\ HonestAnswers
  BY DEF Init, Claims, Claimed, HonestAnswers, At, Answer, Idle
<1>3. PendingUnique /\ Links
  BY DEF Init, PendingUnique, Links, Pending, FreeRequest, Idle
<1> QED
  BY <1>1, <1>2, <1>3 DEF Inv

\* The invariant is inductive.
LEMMA InvStep == Inv /\ [Next]_vars => Inv'
  BY TypeStep, ClaimsStep, AnswersStep, PendingStep, LinksStep DEF Inv

\* The inductive invariant holds in every reachable state, whatever calls overlap.
THEOREM Invariance == Spec => []Inv
  BY InvInit, InvStep, PTL DEF Spec

\* Tables and calls have their types, whatever the number of callers.
THEOREM TypeCorrect == Spec => []TypeOK
<1>1. Inv => TypeOK
  BY DEF Inv
<1> QED
  BY <1>1, Invariance, PTL

\* At most one PENDING request per requester, recipient and activity.
THEOREM UniquePending == Spec => []PendingUnique
<1>1. Inv => PendingUnique
  BY DEF Inv
<1> QED
  BY <1>1, Invariance, PTL

\* Accept, decline and cancel answer truthfully and to one caller only.
THEOREM TruthfulAnswers == Spec => []HonestAnswers
<1>1. Inv => HonestAnswers
  BY DEF Inv
<1> QED
  BY <1>1, Invariance, PTL

\* listConnections hides no connection for want of a conversation.
THEOREM EveryConnectionListed == Spec => []NothingHidden
<1>1. Inv => NothingHidden
  BY DEF Inv, Links, NothingHidden, ListConnections, Rows, Active
<1> QED
  BY <1>1, Invariance, PTL

\* A pair is never connected twice for an activity, once per order of its ids.
THEOREM NoSecondConnection == Spec => []OneConnectionPerPair
<1>1. Inv => OneConnectionPerPair
  <2> SUFFICES ASSUME Inv, NEW u \in Users, NEW v \in Users, NEW x \in Activities,
                      connections[<<u, v, x>>] # "none", connections[<<v, u, x>>] # "none"
               PROVE  FALSE
    BY DEF OneConnectionPerPair
  <2>1. <<u, v, x>> \in conversations /\ <<v, u, x>> \in conversations
    BY DEF Inv, Links, Key
  <2>2. u < v /\ v < u
    BY <2>1 DEF Inv, Links
  <2> QED
    BY <2>2, UsersOrdered
<1> QED
  BY <1>1, Invariance, PTL

\* Accepting is all or nothing.
THEOREM AcceptConnects == Spec => []AcceptedIsConnected
<1>1. Inv => AcceptedIsConnected
  BY DEF Inv, Links, AcceptedIsConnected
<1> QED
  BY <1>1, Invariance, PTL

\* Together: requests, connections and conversations go together.
THEOREM SoundConnections == Spec => []ConnectionsSound
<1>1. OneConnectionPerPair /\ NothingHidden /\ AcceptedIsConnected => ConnectionsSound
  BY DEF ConnectionsSound
<1> QED
  BY <1>1, NoSecondConnection, EveryConnectionListed, AcceptConnects, PTL

\* A resolved request stays as it was resolved.
THEOREM ResolutionIsFinal == Spec => ResolvedForever
<1>1. Inv /\ [Next]_vars =>
        [\A r \in RequestIds :
           requests[r].status \in {"ACCEPTED", "DECLINED", "gone"} => requests'[r] = requests[r]]_vars
  BY ResolvedStep DEF Inv, Resolved
<1> QED
  BY <1>1, Invariance, PTL DEF Spec, ResolvedForever

\* Only the acceptance of a PENDING request connects a pair.
THEOREM OnlyAcceptConnects == Spec => ActivatedByAccept
<1> DEFINE A == \A k \in Key :
                  connections'[k] = "active" /\ connections[k] # "active" =>
                    \E r \in RequestIds :
                      /\ Pending(r) /\ RequestKey(r) = k
                      /\ requests'[r].status = "ACCEPTED"
<1>1. Inv /\ [Next]_vars => [A]_vars
  <2> SUFFICES ASSUME Inv, [Next]_vars, NEW k \in Key,
                      connections'[k] = "active", connections[k] # "active"
               PROVE  \E r \in RequestIds : /\ Pending(r) /\ RequestKey(r) = k
                                            /\ requests'[r].status = "ACCEPTED"
    OBVIOUS
  <2>1. ASSUME NEW h \in Handlers, RemoveWrite(h) \/ BlockCommit(h) PROVE FALSE
    BY <2>1 DEF RemoveWrite, BlockCommit, Sever
  <2>2. PICK h \in Handlers : AcceptCommit(h)
    BY <2>1, Moves DEF Inv, Passive, AcceptClaim, tables, Writes, SendInsert, InsertRequest,
       DeclineWrite, CancelWrite, Resolve, Unblock, vars
  <2> DEFINE r == calls[h].request
  <2>3. r \in RequestIds /\ Pending(r)
    BY <2>2 DEF Inv, AcceptCommit, Connect, Claims, Claimed, Shapes, CallShape, RequestPc,
                AcceptPc, At
  <2>4. RequestKey(r) = k
    BY <2>2 DEF AcceptCommit, Connect, Inv, TypeOK
  <2>5. requests'[r].status = "ACCEPTED"
    BY <2>2, <2>3 DEF AcceptCommit, Connect, Inv, TypeOK, Request
  <2> QED
    BY <2>3, <2>4, <2>5
<1> QED
  BY <1>1, Invariance, PTL DEF Spec, ActivatedByAccept
=============================================================================
