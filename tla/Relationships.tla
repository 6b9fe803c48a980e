----------------------------- MODULE Relationships -----------------------------
(***************************************************************************)
(* ConnectionsService and SafetyService over the same tables: the whole    *)
(* life of a relationship, from the first request to the block.            *)
(***************************************************************************)
EXTENDS Connections, Safety

Start(h) == StartConnections(h) \/ StartSafety(h)
Step(h) == StepConnections(h) \/ StepSafety(h)
End(h) == DeadlockVictim(h) \/ Return(h)

Next ==
  \/ \E h \in Handlers : Start(h) \/ Step(h) \/ End(h) \/ Fail(h)
  \/ \E u, v \in Users : Unblock(u, v)

Spec == Init /\ [][Next]_vars

\* PostgreSQL queues the waiters of a row, runs its deadlock detector after a
\* second, and Node resumes every call whose statement answered.  No call has
\* to start, and nothing has to fail.
Fairness ==
  \A h \in Handlers : SF_vars(Step(h) \/ End(h))
FairSpec == Spec /\ Fairness

\* The two users a call is about.
Parties(h) ==
  LET c == calls[h] IN
  CASE c.pc = "idle" -> {}
    [] c.pc \in SendPc \cup BlockPc -> {c.me, c.peer}
    [] c.pc = "removeWrite" -> UNION {{k[1], k[2]} : k \in c.conns}
    [] OTHER -> {requests[c.request].requester, requests[c.request].recipient}

\* A send and an accept, or a block and either, about the same two users.
Cross(g, h) ==
  /\ Parties(g) = Parties(h)
  /\ \/ calls[g].pc \in AcceptPc /\ calls[h].pc \in SendPc
     \/ calls[g].pc \in BlockPc /\ calls[h].pc \in SendPc \cup AcceptPc

\* Calls overlap as they like, as long as none cross.
NoneCross == \A g, h \in Handlers : ~Cross(g, h)
OrderlyNext == Next /\ NoneCross'
OrderlySpec == Init /\ [][OrderlyNext]_vars

-----------------------------------------------------------------------------
(* Safety *)

\* At most one PENDING request per requester, recipient and activity
\* (migration.sql:20), whatever sends, accepts and cancels race.
PendingUnique ==
  \A q, r \in RequestIds :
    /\ Pending(q) /\ Pending(r)
    /\ requests[q].requester = requests[r].requester
    /\ requests[q].recipient = requests[r].recipient
    /\ requests[q].activity = requests[r].activity
    => q = r

\* A pair has at most one connection per activity, found under either order
\* of its ids (schema.prisma:246).
OneConnectionPerPair ==
  \A u, v \in Users, x \in Activities :
    ~(u # v /\ connections[<<u, v, x>>] # "none" /\ connections[<<v, u, x>>] # "none")

\* listConnections never drops a connection for want of a conversation
\* (connections.service.ts:208), through unmatch, block and revival.
NothingHidden == \A u \in Users : ListConnections(u) = Rows(u)

\* An accepted request has connected its pair: accepting is all or nothing.
AcceptedIsConnected ==
  \A r \in RequestIds :
    requests[r].status = "ACCEPTED" =>
      connections[RequestKey(r)] # "none" /\ RequestKey(r) \in conversations

\* Requests, connections and conversations go together: the three above.
ConnectionsSound == OneConnectionPerPair /\ NothingHidden /\ AcceptedIsConnected

\* Every answer of accept, decline and cancel is true when it leaves, and no
\* two callers are told they resolved the same request.
HonestAnswers ==
  /\ \A h \in Handlers :
       /\ At(h, "accepted") => requests[calls[h].request].status = "ACCEPTED"
       /\ At(h, "declined") => requests[calls[h].request].status = "DECLINED"
       /\ At(h, "cancelled") => requests[calls[h].request].status = "gone"
  /\ \A g, h \in Handlers :
       (calls[g].pc \in Answer /\ calls[h].pc \in Answer /\ calls[g].request = calls[h].request)
         => g = h

\* A blocked pair has neither a PENDING request nor an active connection
\* (safety.service.ts:38, DATABASE.md:307).
Severed ==
  \A u, v \in Users : Blocked(u, v) => PendingBetween(u, v) = {} /\ ActiveBetween(u, v) = {}

\* Calls that do not cross may wait for each other's rows, and never in a circle.
NobodyDeadlocks == \A h \in Handlers : ~Deadlocked(h)

\* A wait cycle joins an accept that has claimed its request with a block of
\* the same two users at its last statement (connections.service.ts:129 against
\* safety.service.ts:76): no other calls ever deadlock.
OnlyBlocksDeadlock ==
  \A h \in Handlers : Deadlocked(h) =>
    \E g \in Handlers :
      /\ WaitsFor(h, g) /\ Deadlocked(g) /\ Parties(g) = Parties(h)
      /\ {calls[g].pc, calls[h].pc} = {"acceptConnect", "blockDeclineRequests"}

\* A block ends the active connections of its pair or declines its PENDING
\* requests, at the instant it commits.  safety.service.ts:38 and DATABASE.md:307
\* claim both halves at once, even while calls overlap.
BlockLeavesNothing ==
  [][\A u, v \in Users :
       <<u, v>> \notin blocks /\ <<u, v>> \in blocks'
         => \/ \A k \in KeysBetween(u, v) : connections'[k] # "active"
            \/ PendingBetween(u, v)' = {}]_vars

-----------------------------------------------------------------------------
(* What a step may never do *)

\* A resolved request stays resolved as it was.
ResolvedForever ==
  [][\A r \in RequestIds :
       requests[r].status \in {"ACCEPTED", "DECLINED", "gone"} => requests'[r] = requests[r]]_vars

\* A connection becomes active only as one PENDING request of that pair and
\* activity is accepted: no send, cancel, unblock or failure revives it.
ActivatedByAccept ==
  [][\A k \in Key :
       connections'[k] = "active" /\ connections[k] # "active" =>
         \E r \in RequestIds :
           /\ Pending(r) /\ RequestKey(r) = k
           /\ requests'[r].status = "ACCEPTED"]_vars

\* What is pending or active between two users changes, and a block between
\* them appears, only by a step of a call about those two.
StaysWithinPair ==
  [][\A u, v \in Users :
       \/ /\ PendingBetween(u, v)' = PendingBetween(u, v)
          /\ ActiveBetween(u, v)' = ActiveBetween(u, v)
          /\ Blocked(u, v)' => Blocked(u, v)
       \/ \E h \in Handlers : calls'[h] # calls[h] /\ Parties(h) = {u, v}]_vars

-----------------------------------------------------------------------------
(* Refinement *)

Asked ==
  {<<requests[r].requester, requests[r].recipient, requests[r].activity>> :
     r \in {q \in RequestIds : Pending(q)}}
Together == {<<{k[1], k[2]}, k[3]>> : k \in {j \in Key : Active(j)}}

L == INSTANCE Lifecycle WITH asked <- Asked, together <- Together

\* Calls that do not cross keep the documented promise.
KeepsPromise == L!Spec
\* Overlapping calls keep all of it but what a block prevents and severs.
KeepsRacedPromise == L!RacedSpec

-----------------------------------------------------------------------------
(* Liveness *)

\* Every call is answered: row locks and lock cycles never hold one for ever.
EveryCallReturns == \A h \in Handlers : []<>(calls[h] = Idle)
=============================================================================
