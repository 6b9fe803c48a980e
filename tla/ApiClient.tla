------------------------------ MODULE ApiClient ------------------------------
(***************************************************************************)
(* lib/api.ts in the tabs of one browser: the CSRF token each tab keeps,   *)
(* the cookie they share, CsrfGuard on the server, the retries.  What a    *)
(* request does is Pages' business.                                        *)
(***************************************************************************)
EXTENDS Integers, FiniteSets

CONSTANTS
  Tabs,
  Slots,        \* bound: mutating requests and page loads at once
  MaxAttempts,  \* fetchWithRetry
  MaxLosses,    \* bound: attempts, token fetches and page loads that fail
  None

VARIABLES
  jar,     \* companio_csrf: the n-th token this browser was given; 0 is none
  cache,   \* csrfTokenPromise of a tab: null, the fetch that a slot has begun, or its token
  calls,   \* what the slots are at
  losses

client == <<jar, cache, calls, losses>>

Pc == {"token", "refresh",        \* awaits csrfTokenPromise, at first or after a 403
       "ready",                   \* may be sent, or sent again
       "admitted", "denied",      \* CsrfGuard's answer
       "ok", "no", "failed",      \* the handler's answer; no answer
       "loading"}                 \* the GETs of a page

ASSUME ClientAssumption ==
  /\ IsFiniteSet(Tabs) /\ IsFiniteSet(Slots)
  /\ MaxAttempts \in Nat \ {0} /\ MaxLosses \in Nat
  /\ None \notin Tabs \cup Slots \cup Pc /\ (Slots \cup {None}) \cap Nat = {}

NoCall ==
  [op |-> None, tab |-> None, peer |-> None, live |-> FALSE, pc |-> None, allow |-> FALSE,
   awaits |-> None, header |-> 0, attempt |-> 0, since |-> 0, got |-> <<>>]

At(s, pc) == calls[s].pc = pc
Free == {s \in Slots : calls[s] = NoCall}
\* Any free slot will do.
NextSlot == CHOOSE s \in Free : TRUE
Waiters(s) == {w \in Slots : calls[w].awaits = s}

Lost == losses < MaxLosses /\ losses' = losses + 1

TypeOK ==
  /\ jar \in Nat /\ losses \in 0..MaxLosses
  /\ \A t \in Tabs : cache[t] \in {None} \cup Slots \cup 1..jar
  /\ \A s \in Slots :
       calls[s] = NoCall \/
       /\ calls[s].tab \in Tabs /\ calls[s].pc \in Pc
       /\ calls[s].awaits \in {None} \cup Slots
       /\ calls[s].header \in 0..jar /\ calls[s].since \in 0..jar
       /\ calls[s].attempt \in 1..MaxAttempts

\* The tabs have each fetched a token, in some order: all but one are stale.
ClientInit ==
  /\ jar = Cardinality(Tabs) /\ losses = 0
  /\ cache \in {f \in [Tabs -> 1..jar] : \A t, u \in Tabs : f[t] = f[u] => t = u}
  /\ calls = [s \in Slots |-> NoCall]

-----------------------------------------------------------------------------
(* ensureCsrfToken *)

\* The call of slot s goes on with what its tab holds: it fetches a token if
\* there is none, waits for one that is being fetched, or has it.
Ensured(c, s, held) ==
  IF held \in Nat
  THEN [c EXCEPT !.pc = "ready", !.header = held, !.awaits = None, !.attempt = 1]
  ELSE [c EXCEPT !.pc = "token", !.awaits = IF held = None THEN s ELSE held]
Held(s, held) == IF held = None THEN s ELSE held

\* A mutating request of tab t, in slot s.
Request(t, op, p, s) ==
  Ensured([NoCall EXCEPT !.op = op, !.tab = t, !.peer = p, !.live = TRUE, !.allow = TRUE,
                         !.attempt = 1, !.since = jar], s, cache[t])
Send(t, op, p) ==
  /\ Free # {}
  /\ calls' = [calls EXCEPT ![NextSlot] = Request(t, op, p, NextSlot)]
  /\ cache' = [cache EXCEPT ![t] = Held(NextSlot, @)]
  /\ UNCHANGED <<jar, losses>>

\* The response of GET /auth/csrf: the browser stores the cookie, and the
\* promise resumes all who await it.  After a refresh, request starts over
\* with whatever promise the tab holds by now.
Resumed(s, stored) ==
  LET t == calls[s].tab
      held == IF cache[t] = s THEN jar + 1 ELSE cache[t]
      resumed(w) ==
        IF At(w, "token") THEN Ensured(calls[w], w, jar + 1)
        ELSE Ensured([calls[w] EXCEPT !.allow = FALSE], w, held)
  IN
  /\ calls[s].awaits = s
  /\ jar' = jar + stored
  /\ calls' = [w \in Slots |-> IF w \in Waiters(s) THEN resumed(w) ELSE calls[w]]
  /\ cache' = [cache EXCEPT ![t] = IF At(s, "refresh") THEN Held(s, held) ELSE held]
  /\ UNCHANGED losses
\* Without credentials: the browser stores no cookie.
FetchAnsweredAlone(s) == Resumed(s, 0)
FetchAnswered(s) == Resumed(s, 1)

\* It fails for good.  The catch of every waiter forgets the promise the tab
\* holds, even one that was begun since.
Rejected(s, held) ==
  /\ calls[s].awaits = s
  /\ calls' = [w \in Slots |->
       IF w \in Waiters(s) THEN [calls[w] EXCEPT !.pc = "failed", !.awaits = None] ELSE calls[w]]
  /\ cache' = [cache EXCEPT ![calls[s].tab] = held]
  /\ Lost /\ UNCHANGED jar
\* Without the catch.
FetchFailedForEver(s) == Rejected(s, cache[calls[s].tab])
FetchFailed(s) == Rejected(s, None)

-----------------------------------------------------------------------------
(* request *)

\* The browser attaches the cookie it has at this moment; CsrfGuard compares.
Dispatch(s) ==
  /\ At(s, "ready")
  /\ calls' = [calls EXCEPT ![s].pc = IF calls[s].header = jar THEN "admitted" ELSE "denied"]
  /\ UNCHANGED <<jar, cache, losses>>

\* The retry without the refresh.
RetryStale(s) ==
  /\ At(s, "denied") /\ calls[s].allow
  /\ calls' = [calls EXCEPT ![s] = Ensured([@ EXCEPT !.allow = FALSE], s, cache[@.tab])]
  /\ cache' = [cache EXCEPT ![calls[s].tab] = Held(s, @)]
  /\ UNCHANGED <<jar, losses>>

\* Whatever the answer was.
RefreshAnyway(s) ==
  /\ calls[s].pc \in {"denied", "ok", "no"} /\ calls[s].allow
  /\ calls' = [calls EXCEPT ![s].pc = "refresh", ![s].awaits = s]
  /\ cache' = [cache EXCEPT ![calls[s].tab] = s]
  /\ UNCHANGED <<jar, losses>>

\* The 403 of a first try: a new token is fetched, whatever the tab holds.
Refresh(s) ==
  /\ At(s, "denied") /\ calls[s].allow
  /\ calls' = [calls EXCEPT ![s].pc = "refresh", ![s].awaits = s]
  /\ cache' = [cache EXCEPT ![calls[s].tab] = s]
  /\ UNCHANGED <<jar, losses>>

Again(c) ==
  IF c.attempt < MaxAttempts THEN [c EXCEPT !.pc = "ready", !.attempt = c.attempt + 1]
  ELSE [c EXCEPT !.pc = "failed"]
\* An attempt or its response is lost, or a proxy answers 502, 503 or 504.
Lose(s) ==
  /\ calls[s].pc \in {"admitted", "denied", "ok", "no"}
  /\ Lost
  /\ calls' = [calls EXCEPT ![s] = Again(calls[s])]
  /\ UNCHANGED <<jar, cache>>

ClientStep(s) == FetchAnswered(s) \/ Dispatch(s) \/ Refresh(s)
ClientFault(s) == FetchFailed(s) \/ Lose(s)

-----------------------------------------------------------------------------
(* Properties *)

\* The promise a tab holds is one that will settle: neither a failed one nor
\* one whose fetch is over, however refreshes and failures overlap
\* (api.ts:104).  Otherwise no request of the tab would work until a reload.
CachedIsPending ==
  \A t \in Tabs : cache[t] \in Slots => calls[cache[t]].awaits = cache[t]

\* A cookie that was stale before a request began never makes it fail: when the
\* one retry is refused too, its token came during the request and another one
\* overtook it (api.ts:146).
RefusedOnlyIfOvertaken ==
  \A s \in Slots :
    At(s, "denied") /\ ~calls[s].allow =>
      calls[s].since < calls[s].header /\ calls[s].header < jar
=============================================================================
