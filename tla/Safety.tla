-------------------------------- MODULE Safety --------------------------------
(***************************************************************************)
(* SafetyService.createBlock and removeBlock.  createBlock is an array     *)
(* $transaction of three statements; the two UPDATEs first find their rows *)
(* (a snapshot) and then lock them one way or the other, so each is a      *)
(* scan and a write.                                                       *)
(***************************************************************************)
EXTENDS Store

\* The target may be in any status.
BlockStart(h, u, v) ==
  /\ u # v /\ u \in ActiveUsers
  /\ Begin(h, [Idle EXCEPT !.pc = "blockInsert", !.me = u, !.peer = v])
  /\ UNCHANGED tables

\* Another createBlock of the same pair has inserted its row, uncommitted.
InsertingSame(h) ==
  \E g \in Handlers \ {h} :
    /\ calls[g].pc \in BlockPc \ {"blockInsert"}
    /\ calls[g].me = calls[h].me /\ calls[g].peer = calls[h].peer

\* 409 when the row exists; wait while an identical one may still commit.
BlockInsert(h) ==
  /\ At(h, "blockInsert")
  /\ \/ <<calls[h].me, calls[h].peer>> \in blocks /\ Finish(h)
     \/ /\ <<calls[h].me, calls[h].peer>> \notin blocks /\ ~InsertingSame(h)
        /\ Goto(h, "blockScanConnections")
  /\ UNCHANGED tables

ActiveBetween(u, v) == {k \in KeysBetween(u, v) : Active(k)}

ScanConnections(h, conns) ==
  /\ At(h, "blockScanConnections")
  /\ calls' = [calls EXCEPT ![h].pc = "blockEndConnections", ![h].conns = conns]
  /\ UNCHANGED tables

\* All of the blocker's connections.
BlockScanAll(h) ==
  ScanConnections(h, {k \in Key : Active(k) /\ calls[h].me \in {k[1], k[2]}})

BlockScanConnections(h) ==
  ScanConnections(h, ActiveBetween(calls[h].me, calls[h].peer))

\* The rows still active once their locks are free are locked and ended.
BlockEndConnections(h) ==
  /\ At(h, "blockEndConnections") /\ Clear(h)
  /\ calls' = [calls EXCEPT ![h].pc = "blockScanRequests",
                            ![h].conns = {k \in calls[h].conns : Active(k)}]
  /\ UNCHANGED tables

ScanRequests(h, rows) ==
  /\ At(h, "blockScanRequests")
  /\ calls' = [calls EXCEPT ![h].pc = "blockDeclineRequests", ![h].rows = rows]
  /\ UNCHANGED tables

\* Only the blocker's own requests.
BlockScanOutgoing(h) == ScanRequests(h, PendingFrom(calls[h].me, calls[h].peer))

BlockScanRequests(h) == ScanRequests(h, PendingBetween(calls[h].me, calls[h].peer))

Decline(rows) ==
  requests' = [r \in RequestIds |->
    IF r \in rows THEN [requests[r] EXCEPT !.status = "DECLINED"] ELSE requests[r]]

Sever(h, rows) ==
  /\ At(h, "blockDeclineRequests") /\ Clear(h)
  /\ blocks' = blocks \cup {<<calls[h].me, calls[h].peer>>}
  /\ connections' = [k \in Key |-> IF k \in calls[h].conns THEN "removed" ELSE connections[k]]
  /\ Decline(rows)
  /\ Finish(h) /\ UNCHANGED conversations

\* The UPDATE taking its snapshot's rows whatever became of them.
BlockCommitStale(h) == Sever(h, calls[h].rows)

\* Decline the rows still PENDING and commit all three statements.
BlockCommit(h) == Sever(h, {r \in calls[h].rows : Pending(r)})

\* One DELETE; it does not see an uncommitted block.
Unblock(u, v) ==
  /\ u \in ActiveUsers /\ <<u, v>> \in blocks
  /\ blocks' = blocks \ {<<u, v>>}
  /\ UNCHANGED <<requests, connections, conversations, calls>>

BlockList(u) == {v \in Users : <<u, v>> \in blocks}

StartSafety(h) == \E u, v \in Users : BlockStart(h, u, v)

StepSafety(h) ==
  \/ BlockInsert(h) \/ BlockScanConnections(h) \/ BlockEndConnections(h)
  \/ BlockScanRequests(h) \/ BlockCommit(h)
=============================================================================
