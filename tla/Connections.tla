------------------------------ MODULE Connections ------------------------------
(***************************************************************************)
(* ConnectionsService: one action per database statement of each method.   *)
(* The first read of a method starts the call; a call refused by that read *)
(* changes nothing and is left out.  A later refusal ends the call.        *)
(***************************************************************************)
EXTENDS Store

FreeIds == {r \in RequestIds : requests[r].status = "free"}
Sending == {h \in Handlers : calls[h].pc \in SendPc}

-----------------------------------------------------------------------------
(* sendRequest *)

IsEligibleRecipient(u, v) == v \in ActiveUsers /\ ~Blocked(u, v)
\* Looking for a block in one direction only.
IsEligibleOneWay(u, v) == v \in ActiveUsers /\ <<v, u>> \notin blocks

HasActiveConnection(u, v, x) == Active(SortedKey(u, v, x))

\* Bound: as many sends as there are free request ids.
BeginSend(h, u, v, x) ==
  /\ u # v /\ u \in ActiveUsers
  /\ Cardinality(FreeIds) > Cardinality(Sending)
  /\ Begin(h, [Idle EXCEPT !.pc = "sendConnected", !.me = u, !.peer = v, !.activity = x])
  /\ UNCHANGED tables

SendEligibleOneWay(h, u, v, x) == IsEligibleOneWay(u, v) /\ BeginSend(h, u, v, x)

\* Not oneself, recipient ACTIVE, no block either way.
SendEligible(h, u, v, x) == IsEligibleRecipient(u, v) /\ BeginSend(h, u, v, x)

\* 409 when the pair is connected for the activity.
SendConnected(h) ==
  LET connected == HasActiveConnection(calls[h].me, calls[h].peer, calls[h].activity) IN
  /\ At(h, "sendConnected")
  /\ \/ connected /\ Finish(h)
     \/ ~connected /\ Goto(h, "sendCreate")
  /\ UNCHANGED tables

\* P2002 from the partial unique index becomes a 409.
SendDuplicate(h) ==
  /\ At(h, "sendCreate") /\ Clear(h)
  /\ PendingFor(calls[h].me, calls[h].peer, calls[h].activity) # {}
  /\ Finish(h) /\ UNCHANGED tables

InsertRequest(h, r) ==
  /\ requests' = [requests EXCEPT ![r] =
       [requester |-> calls[h].me, recipient |-> calls[h].peer,
        activity |-> calls[h].activity, status |-> "PENDING"]]
  /\ Finish(h) /\ UNCHANGED <<connections, conversations, blocks>>

\* Without the migration's partial unique index.
SendInsertUnindexed(h) ==
  At(h, "sendCreate") /\ \E r \in FreeIds : InsertRequest(h, r)

SendInsert(h) ==
  /\ At(h, "sendCreate") /\ Clear(h)
  /\ PendingFor(calls[h].me, calls[h].peer, calls[h].activity) = {}
  /\ \E r \in FreeIds : InsertRequest(h, r)

-----------------------------------------------------------------------------
(* acceptRequest, declineRequest, cancelRequest *)

\* Accept and decline check that the caller is the recipient and the request
\* still PENDING; cancel checks the requester and not the status.
LoadForRecipient(u, r) == u \in ActiveUsers /\ Pending(r) /\ requests[r].recipient = u

AcceptLoad(h, u, r) ==
  /\ LoadForRecipient(u, r)
  /\ Begin(h, [Idle EXCEPT !.pc = "acceptClaim", !.request = r])
  /\ UNCHANGED tables

DeclineLoad(h, u, r) ==
  /\ LoadForRecipient(u, r)
  /\ Begin(h, [Idle EXCEPT !.pc = "declineWrite", !.request = r])
  /\ UNCHANGED tables

CancelLoad(h, u, r) ==
  /\ u \in ActiveUsers
  /\ requests[r].status \notin {"free", "gone"} /\ requests[r].requester = u
  /\ Begin(h, [Idle EXCEPT !.pc = "cancelWrite", !.request = r])
  /\ UNCHANGED tables

\* The write of any of the three matched no row: 409.
NoLongerPending(h) ==
  /\ calls[h].pc \in {"acceptClaim", "declineWrite", "cancelWrite"}
  /\ Clear(h) /\ ~Pending(calls[h].request)
  /\ Finish(h) /\ UNCHANGED tables

\* Accepting on the strength of the first read alone.
AcceptClaimUnchecked(h) ==
  At(h, "acceptClaim") /\ Goto(h, "acceptConnect") /\ UNCHANGED tables

\* The transaction's UPDATE takes the PENDING row.
AcceptClaim(h) ==
  /\ At(h, "acceptClaim") /\ Clear(h) /\ Pending(calls[h].request)
  /\ Goto(h, "acceptConnect") /\ UNCHANGED tables

\* Upsert the connection under key k, upsert its conversation, commit.
Connect(h, k, talk) ==
  /\ At(h, "acceptConnect") /\ Clear(h)
  /\ requests' = [requests EXCEPT ![calls[h].request].status = "ACCEPTED"]
  /\ connections' = [connections EXCEPT ![k] = "active"]
  /\ conversations' = conversations \cup talk
  /\ Goto(h, "accepted") /\ UNCHANGED blocks

\* Connecting under requester-recipient order instead of sorted order.
AcceptUnsorted(h) ==
  LET q == requests[calls[h].request]
      k == AsGivenKey(q.requester, q.recipient, q.activity)
  IN  Connect(h, k, {k})
\* Leaving the conversation to the first message.
AcceptWithoutConversation(h) == Connect(h, RequestKey(calls[h].request), {})

AcceptCommit(h) ==
  LET k == RequestKey(calls[h].request) IN Connect(h, k, {k})

Resolve(h, status, answer) ==
  /\ requests' = [requests EXCEPT ![calls[h].request].status = status]
  /\ Goto(h, answer) /\ UNCHANGED <<connections, conversations, blocks>>

DeclineWrite(h) ==
  /\ At(h, "declineWrite") /\ Clear(h) /\ Pending(calls[h].request)
  /\ Resolve(h, "DECLINED", "declined")

\* A deleteMany whose WHERE lacks the status, and a soft cancellation under
\* a status that is not in the RequestStatus enum.
CancelAnyStatus(h) == At(h, "cancelWrite") /\ Clear(h) /\ Resolve(h, "gone", "cancelled")
CancelSoftly(h) ==
  /\ At(h, "cancelWrite") /\ Clear(h) /\ Pending(calls[h].request)
  /\ Resolve(h, "CANCELLED", "cancelled")

CancelWrite(h) ==
  /\ At(h, "cancelWrite") /\ Clear(h) /\ Pending(calls[h].request)
  /\ Resolve(h, "gone", "cancelled")

-----------------------------------------------------------------------------
(* removeConnection *)

RemoveLoad(h, u, k) ==
  /\ u \in ActiveUsers /\ u \in {k[1], k[2]} /\ Active(k)
  /\ Begin(h, [Idle EXCEPT !.pc = "removeWrite", !.conns = {k}])
  /\ UNCHANGED tables

\* Unmatching by DELETE, which cascades to the conversation.
RemoveHard(h) ==
  /\ At(h, "removeWrite") /\ Clear(h)
  /\ connections' = [k \in Key |-> IF k \in calls[h].conns THEN "none" ELSE connections[k]]
  /\ conversations' = conversations \ calls[h].conns
  /\ Finish(h) /\ UNCHANGED <<requests, blocks>>

\* By id alone: the write tests neither removedAt nor what the load saw.
RemoveWrite(h) ==
  /\ At(h, "removeWrite") /\ Clear(h)
  /\ connections' = [k \in Key |-> IF k \in calls[h].conns THEN "removed" ELSE connections[k]]
  /\ Finish(h) /\ UNCHANGED <<requests, conversations, blocks>>

-----------------------------------------------------------------------------
(* What the lists show (each entry also needs the other user's profile). *)

Incoming(u) == {r \in RequestIds : Pending(r) /\ requests[r].recipient = u}
Outgoing(u) == {r \in RequestIds : Pending(r) /\ requests[r].requester = u}
Rows(u) == {k \in Key : Active(k) /\ u \in {k[1], k[2]}}
\* A row without a conversation is skipped.
ListConnections(u) == {k \in Rows(u) : k \in conversations}

StartConnections(h) ==
  \E u \in Users :
    \/ \E v \in Users, x \in Activities : SendEligible(h, u, v, x)
    \/ \E r \in RequestIds : AcceptLoad(h, u, r)
    \/ \E r \in RequestIds : DeclineLoad(h, u, r)
    \/ \E r \in RequestIds : CancelLoad(h, u, r)
    \/ \E k \in Key : RemoveLoad(h, u, k)

StepConnections(h) ==
  \/ SendConnected(h) \/ SendDuplicate(h) \/ SendInsert(h)
  \/ AcceptClaim(h) \/ AcceptCommit(h)
  \/ DeclineWrite(h) \/ CancelWrite(h) \/ NoLongerPending(h)
  \/ RemoveWrite(h)
=============================================================================
