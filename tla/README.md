# Companio in TLA+

Companio is a web application in which people find companions for activities: a
NestJS API over PostgreSQL (Prisma) and Redis, and a Next.js client. This
directory models the parts of it that keep state several actors change at once,
checks them with TLC, and proves the central invariants with TLAPS for any number
of users, requests and concurrent calls. Paths below are relative to `src/`;
`PROJECT.json` maps every definition to the lines it stands for.

## 1. Inventory

| Component | State | Operations | Interacts with | What is hard | Correct when |
|---|---|---|---|---|---|
| **connections** `apps/api/src/connections` | `connection_requests`, `connections`, `conversations` | send, accept, decline, cancel a request; unmatch; three lists | reads `blocks`, users; its rows are changed by safety and read by chat | check and insert are separate statements; accept is a transaction that claims a row, then upserts two others; all five race with each other and with a block | one PENDING request per (requester, recipient, activity); one connection per pair and activity; resolved requests are final; accept is all or nothing; answers are true; no connection without conversation |
| **safety** `apps/api/src/safety` | `blocks`, `reports`; ends connections, declines requests | block (three statements in one transaction), unblock, list; report | `connections` tables | the UPDATEs of the block work on a snapshot; lock order is the opposite of accept's | nothing is left between a blocked pair |
| **chat service** `apps/api/src/chat/chat.service.ts` | `messages` (sentAt, readAt) | list a page of history, send, mark read, participant check | `conversations`, `connections.removedAt`; publishes `MessageSent` | check and insert are separate statements | members only; no message once the connection has ended; only the other member's messages are marked read |
| **chat gateway and domain events** `chat.gateway.ts`, `common/events` | authenticated sockets, rooms | handshake, join, leave, broadcast | session lookup, `isParticipant`, the event bus | `handleJoin` awaits in the middle; leave and join overtake each other; a dropped socket loses its rooms and what is on the wire | members only in a room; open, loaded, joined pages see each message |
| **chat page, socket client** `apps/web/app/chat`, `lib/socket.ts` | messages on screen, form state, one socket per tab | mount, unmount, load history, send, receive | REST and socket, unordered with each other | stale history of an earlier page; response, broadcast and history bring the same row; reconnection | each message once, in its conversation; nothing disappears; the form is freed |
| **API client** `apps/web/lib/api.ts` | cached CSRF token promise | request, `fetchWithRetry`, refresh after 403 | all pages | a retried POST may already have been done; shared promise | one outcome per request; a rotated token is replaced |
| **auth, sessions, users** `apps/api/src/auth`, `common/guards/session-auth.guard.ts`, `users` | `users`, `sessions` | register, login, Google login, logout, guard | profile, verifications | uniqueness checks before inserts; several writes without a transaction; guard checked once per request | one account per e-mail and Google id; an answer is true of the tables; logout revokes |
| **auth context, login page** `apps/web/contexts/auth-context.tsx`, `app/login`, `components/require-auth.tsx` | status and user of each tab, login form, session cookie | refresh, submit, Google login, logout | auth routes, `fetchWithRetry` | answers out of order, lost answers, retries of what was done, tabs that share a cookie | no spinner for ever; a hiccup logs nobody out |
| **connections and safety pages, companion cards** `apps/web/app/connections`, `app/safety`, `components/companion-card.tsx`, `report-modal.tsx` | the lists on screen, the busy row, a card's form | load lists, act on a row and load again, connect, block, report | every mutating request goes through the API client | overlapping reloads; a request whose page is gone; a button that waits for an answer | an answered row is gone; every button works again; one report per submission |
| **profile, activity selection** `profile`, `activities` | `profiles`, `user_activities` | upsert the profile; replace-all of the selection (one transaction) | discovery reads both | overlapping replace-alls mix, and may lock each other out; an attempt the client gave up commits later | a save that nothing overlaps stores what it lists; what was ticked stays |
| **profile page** `apps/web/app/profile/page.tsx` | form, selection, two saving flags, location status of each tab | load profile then activities, edit, two saves, browser or typed location, clear | the API client's retries; `navigator.geolocation` | two tabs of one user; a load that fails leaves an empty form; the browser's answer comes late | a section loaded or saved shows what is stored; both saves end |
| **location, discovery, map** `location`, `discovery`, `apps/web/app/map` | `user_locations` (PostGIS) | set, clear; check, then search; fuzzed pins | blocks, profiles, activities | the filter exists twice; a search overlaps what hides a user; ties across OFFSET pages; geometry | no hidden, blocked or undiscoverable user is found |
| **identity verification** | `verifications` | record, badge | auth, profile | - | badge follows the newest record |
| **CSRF guard** `common/guards/csrf.guard.ts`, `auth.controller.ts` | the `companio_csrf` cookie of a browser | issue a token; compare cookie and header | API client | all tabs share one cookie, each caches its own token | a stale token costs one retry |
| **throttling, filter, health, bootstrap, proxy, load tests, scripts** | none that this code changes between requests | - | - | - | - |

What each row leaves unmodelled, and why, is in section 7.

## 2. Modules

```
Store  <-- Connections --+
  ^                      +-- Relationships --> Lifecycle      (refinement)
  +------- Safety -------+        |    \
                                  |     RelationshipsProofs <-- LifecycleProofs <-- OverlapProofs
                            MCRelationships

ChatState <-- ChatServer --+
     ^                     +-- Chat -- MCChat, ChatProofs
     +------- ChatPage ----+

AuthState <-- Accounts ----+
     ^                     +-- Auth --> Registry    (refinement)
     +------- AuthPages ---+     |  \
                                 |   AuthProofs <-- RegistryProofs
                              MCAuth

ApiClient <-- Pages -- MCPages, PagesProofs

People <-- ProfilePage -- MCPeople, PeopleProofs
```

* **Store** - the tables of a relationship and the API calls in flight. A call is
  an async service method, suspended at its next database statement: `calls[h].pc`
  names that statement, the other fields are the local variables it carries across
  the `await`. Row locks are not a variable: which rows a call holds or wants
  follows from its `pc` (`HeldRequests`, `WantedConnections`, ...), and so do waiting
  (`Clear`) and deadlock (`Deadlocked`).
* **Connections** - `sendRequest`, `acceptRequest`, `declineRequest`,
  `cancelRequest`, `removeConnection`: one action per statement (`SendEligible`,
  `SendConnected`, `SendInsert`/`SendDuplicate`; `AcceptLoad`, `AcceptClaim`,
  `AcceptCommit`; `DeclineLoad`, `DeclineWrite`; ...), and the three lists as
  operators.
* **Safety** - `createBlock`: the insert, then for each of the two UPDATEs a scan
  (the snapshot) and a write (lock the rows, test the WHERE clause again); commit at
  the end. `removeBlock` is one DELETE.
* **Relationships** - both services over the same tables, with failures
  (`Fail`), deadlock victims and responses; the properties; `OrderlySpec`, in which calls
  overlap as they like but never cross: no send while an accept, and no block while
  either, of the same two users is in flight.
* **Lifecycle** - what the component promises, with no rows, statuses or calls: who
  has asked whom, who is together, who blocks whom. `Spec` is the promise as
  documented; `RacedSpec` leaves open what a block prevents and severs while other
  calls overlap it. `Relationships` implements it under the mapping
  `asked <- Asked, together <- Together`.
* **ChatState** - the messages table, the page of each tab, its HTTP calls, both
  ends of its socket. A message is its position in `log`. A socket has a FIFO in each
  direction, the rooms it is in, and the joins whose `isParticipant` is pending.
* **ChatServer** - `listMessages`, `markRead`, `sendMessage` (check, insert, publish
  as three steps), `handleJoin` (two steps around its await), `handleLeave`,
  `handleMessageSent`.
* **ChatPage** - mounting and unmounting, the history response with its `cancelled`
  flag (`loaded` remembers the chats whose history a tab has had, which is what may mark
  their messages read), the form, `fetchWithRetry` (a lost request, a lost response, a client
  that gives up on a send the server goes on with), `onMessage`, connect, a broken
  connection, a crash of the API process.
* **Chat** - the composition, its fairness and its properties.
* **AuthState** - users, profiles, Google badges and sessions; one browser with its cookie and
  its tabs (`AuthProvider`'s status and user, whether the login form waits); the calls in
  flight, each with the page load (`visit`) and the attempt that sent it.
* **Accounts** - `register`, `login`, `loginWithGoogle`, the guard and `logout`: one action per
  database statement. Nothing in the code is a transaction here, so a call may end
  after any of them.
* **AuthPages** - loading the application, the form, Google's redirect, logout, what each
  answer does to cookie and tab, `fetchWithRetry`, and two kinds of loss: `Lose` (the server
  does not go on with the call) and `LoseRunning` (it does, and nobody listens).
* **Auth** - the composition and its properties.
* **Registry** - what registration, login and logout promise, with no rows, calls or tabs: a person is an e-mail,
  every event one step. `Auth` implements it under the mapping given with `R` at the end of Auth.
* **ApiClient** - `lib/api.ts` in the tabs of one browser: `cache[t]` is `csrfTokenPromise` (null, the
  fetch a slot has begun, or its token), `jar` the cookie all tabs share. `Send`, `FetchAnswered`,
  `FetchFailed` are `ensureCsrfToken` and the `catch` that forgets the promise; `Dispatch` is the
  browser attaching the cookie and `CsrfGuard` comparing; `Refresh` is the one retry after a 403; `Lose` is
  `fetchWithRetry`. Tokens are numbered in the order the browser was given them.
* **Pages** - the connections page (`loadAll`, `act`), the safety page (`load`, `handleUnblock`), the
  companion cards (`handleConnect`, `handleBlock`) and the report form, over ApiClient, with navigation inside the
  application (`Open`: requests go on, the token stays) and reloads (`Reload`: both are gone). `Ops` says what each
  service needs and does to the lists of the user; its inside is the business of Relationships.
* **People** - `profiles`, `user_activities`, `user_locations`. `setMyActivities` is one transaction of a
  snapshot (`SetScan`), a row at a time under row locks (`SetRow`), and a commit; `DeadlockVictim` is PostgreSQL's.
  `upsertMyProfile`, `updateMyLocation`, `clearMyLocation` are one statement each. A search is `hasLocation`, then the
  query; the two copies of the filter are `Candidates` and `MapCandidates`. One user, `Me`, writes.
* **ProfilePage** - the page in each tab of `Me`: loading in two steps, editing, both saves, the
  location buttons and the browser's prompt, attempts that are lost or that the server goes on with when
  nobody listens any more. Three variables of the model record what a property speaks of:
  `clean` (the page should show what is stored), `kept` (loaded and never unticked) and
  `withdrawn` (what `Me` has been told is hidden). So does the field `theirs` of a replace-all: what the
  saves that committed after its `deleteMany` began have made of each row.
* **RelationshipsProofs**, **LifecycleProofs**, **OverlapProofs**, **ChatProofs**, **AuthProofs**, **RegistryProofs**,
  **PagesProofs**, **PeopleProofs** - the theorems of section 5, each beside the module it is about.

Definitions that no action uses (`SendInsertUnindexed`, `LeaveUndoes`, ...) are
plausible bugs of the definition that follows them; they show that the properties
can tell the difference.

## 3. Assumptions about what is not in `src/`

* **PostgreSQL**, READ COMMITTED, which neither the connection string nor any
  `$transaction` call overrides. An UPDATE or DELETE whose row another transaction
  has locked waits and tests its WHERE clause again on the committed row. A unique index
  makes an INSERT wait for an uncommitted change of a conflicting row. Waiters of one
  row are served in order; a wait cycle is detected and one transaction of it is aborted.
* **Prisma** sends `updateMany`, `deleteMany` and an upsert on a unique key as single
  statements (`INSERT ... ON CONFLICT`), and `$transaction` as one transaction that
  rolls back when its connection is lost or its timeout passes.
* **Socket.IO** delivers in order per socket and direction, loses what is on the wire
  when the connection breaks, keeps no rooms across connections, buffers what the client
  emits while it is down and flushes this buffer before `connect` fires.
* `users.status` is a constant (`ActiveUsers`): nothing under `src/` changes it. The
  guard and the check of a method's first query are one step with that query.
  A method refused by its first query changes nothing and is left out.
* **Google** answers with the one e-mail of the account (`EmailOf`), and two accounts never have
  the same one. **Browsers** share one cookie jar among tabs and send the cookie of the
  moment with each attempt; an unloaded page sees no answer.
* **The other users** do not act in Pages and do not move in ProfilePage; what overlapping calls of
  two users do to each other is in Relationships. The upserts of one replace-all are taken in any order, after the
  deletions; a DELETE that has waited for a row finds it gone or deletes it.
* **`navigator.geolocation`** calls back at any time or never. A Prisma promise that nobody awaits is never run.
* In the relationship modules a profile exists for every user (the lists look it up; what they do without one is
  presentation).

## 4. Runs

| Run | Module, specification | Instance | Shows |
|---|---|---|---|
| `safety` | MCRelationships, `FairSpec` | 2 users, 1 activity, 2 requests, 2 calls at once | the safety invariants (`ConnectionsSound` says that requests, connections and conversations go together, `OnlyBlocksDeadlock` which calls can deadlock) and the two action properties of relationships; `KeepsRacedPromise`: overlapping calls implement `Lifecycle!RacedSpec`; `EveryCallReturns`, deadlocks included |
| `orderly` | `OrderlySpec` | 2 users, 2 activities, 3 requests, 2 calls at once | `KeepsPromise`: calls that overlap but do not cross implement the full promise |
| `severed` | `Spec` | 2 users, 2 requests, 3 calls at once | a documented claim about blocks that overlapping calls break (section 6) |
| `private` | MCChat, `Spec` | Bob and an outsider, 2 chats, 1 message, page size 1, 1 drop | `Private`; `ReadByOther`: a message is read only if a tab of its other member has had the history of that very chat |
| `threads` | `Spec` | one tab, 2 chats, 2 visits, 2 messages, 2 attempts, page size 1, 1 drop, an endable connection | `ThreadClean`, `KeepsShown`; `FormIsAwaited`: a form that waits has its send under way; `HeadsForRoom`: a connected socket is in its page's room or on the way into it |
| `chat_liveness` | `FairSpec` | one tab, 2 chats, 2 visits, 1 drop | `SendingEnds`, `StaysJoined`, `LiveDelivery` |
| `missed` | `FairSpec` | two members of one chat | a documented claim about open tabs (section 6) |
| `ended` | `Spec` | two members, an endable connection | a documented claim about ended connections (section 6) |
| `accounts` | MCAuth, `Spec` | 2 tabs, 2 loads in all, 2 calls at once, 1 e-mail with a Google account, 2 user ids, 2 sessions, 2 attempts | `AccountsSound`, `TrueAnswers`, `SpinnerIsAwaited`, `BlipsKeepLogin`; `KeepsRegister`: overlapping operations implement `Registry!Spec` |
| `bounced` | `Spec` | 1 tab, 1 load | a documented claim about visitors sent to /login (section 6) |
| `web` | MCPages, `FairSpec` | 2 tabs (connections page, cards), 1 peer, 2 requests at once, 2 gestures, 1 loss, 2 attempts | `CachedIsPending`, `RefusedOnlyIfOvertaken`, `OneReportPerSubmit`, `AnsweredLeavesList`; `WaitingIsAwaited`: whatever waits has a request or a load of its page under way; `NothingHangs` |
| `people` | MCPeople, `FairSpec` | 2 tabs of one user (one already edited), 2 activities, 3 others who search (near, blocked, without location), 2 calls at once, 2 gestures, 1 loss | `SavedIsShown`, `WithdrawnUnseen`, `ReplacesAll`, `KeepsTicked`; `SavingIsAwaited`: a button is off for exactly one request of its page; `SavesEnd` |

**Why the bounds are enough.** Every race in the relationship code is between the
calls of one pair. `WritesStayInPair` and `WaitsWithin` prove it: what is pending or active between two users,
and whether a block lies between them, is changed only by calls about those two, and only calls of one pair wait for
each other; a third user would add nothing to the runs. Two calls cover every pairwise race; the proofs of section 5
cover any number of them for all the invariants, both action properties and both refinements, so that only
`EveryCallReturns` rests on this bound. `severed` needs three: a send or an accept, the block, and what
follows. Two requests let a pair connect, part and ask
again, or ask each other; the `orderly` run, with fewer interleavings, has a third and two
activities. Ids are never reused, so the number of request ids bounds the sends. Users are numbers
because the code sorts the ids of a pair.

In the chat, two visits are what it takes for a page to meet the responses, joins and
leaves of the one before it; page size 1 with two messages makes the history shorter than the
conversation; two attempts make a duplicate row; one drop (of a socket or of the API
process) may come at any point. Messages, visits, attempts and drops are bounded by the
constants `MaxMessages`, `MaxVisits`, `MaxAttempts` (3 in the code) and `MaxDrops`. Deadlock is not
checked in the chat runs: every bound may be used up and nothing left to do.

In the `accounts` run the races are between calls about one e-mail, so there is one; the second user
id is there to be taken by a duplicate. Two calls overlap pairwise: registrations, Google logins, logins,
a logout with a lookup, a retry with the attempt it repeats. The two loads (`MaxLoads`) are two tabs, or one
tab that reloads or leaves for Google while calls are in flight. `MaxAttempts` is 2
(3 in the code); session ids bound the logins. Deadlock is not checked, for the same reason as above.

In the `web` run the tabs have each cached a token at first, so that one of the two is stale: that is where refreshes begin,
with no gesture spent on it. Two gestures are two requests of one tab that share a fetch, two of different tabs that
overtake each other's token, or a request and the navigation that leaves it. One loss may hit any attempt, fetch or
load. The services answer in one step, and no peer asks anything anew: otherwise `AnsweredLeavesList` would say nothing.
In the `people` run one tab shows an edited page at first, so that its saves are one gesture each and the
second is free for the other tab, an edit, a location or a visit; two activities are what it takes for two
replace-alls to lock rows in opposite orders; the three others are each hidden from `Me`, or she from them, by one clause of the
filter. Places are points on a line and `Radius` separates none: geometry is not the subject. `MaxGestures`, `MaxLosses`,
`MaxAttempts` and the number of slots bound both runs, so deadlock is not checked.

**Fairness.** `Relationships!Fairness` is strong fairness of each call's next statement or
answer: a statement that waits for a row is disabled and enabled again as others take the
lock, and PostgreSQL's queue per row serves it in the end; weak fairness would let one call
overtake another for ever. Nothing obliges a call to start or to fail. `Chat!Fairness` is weak: an HTTP
call goes on when nothing loses it, each direction of a socket delivers, a waiting join
resumes, Socket.IO reconnects (it retries without limit). Nobody has to open a page, send,
close it or unmatch. `Pages!Fairness` is weak, per slot: `fetch` settles in the end, the page goes on with what it
brought. `ProfilePage!Fairness` is strong per call, for the reason given for Relationships (a replace-all waits for rows), and weak
for loading; nobody has to press a button, search, or answer the browser's prompt.

## 5. Proofs

Eight modules hold them. All are about the specifications the runs check, with any values of the constants that
meet the named assumptions; tlapm checks every leaf.

**Relationships.** `RelationshipsProofs` proves, for any set of users, activities and request ids and any number
of overlapping calls, finite or not, that `Spec` implies

* `TypeOK` (`TypeCorrect`), `PendingUnique`, `HonestAnswers`, `ConnectionsSound` - always;
* `ResolvedForever`, `ActivatedByAccept` - in every step.

The assumptions are those of Store: `UsersOrdered` (ids are ordered), `ActiveAreUsers`, `NoneIsNothing`.

None of these invariants is inductive alone. `Inv` is their conjunction with

* `Shapes`: a used request has two distinct users; each `pc` comes with the locals it
  uses. Needed because an action that reads `calls[h].request` must know it is one.
* `Claims`: a call that has claimed a request holds it alone and it is still PENDING. This is
  the row lock at work: it carries the check of `AcceptClaim` to `AcceptCommit`, two
  statements later, past every other accept, decline, cancel and block. Without it neither
  `HonestAnswers` nor `ResolvedForever` can be shown.
* `Links`: connections are kept under ordered keys, every connection has had a
  conversation since it was created, and so has every connection a call is about to
  end. The three parts of `ConnectionsSound` follow.

`Moves` reduces the twenty-odd actions to those that write the tables, so each part of
`Inv` is shown preserved by six writes.

**Lifecycle.** `LifecycleProofs` proves `RacedPromiseKept` (`Spec => KeepsRacedPromise`). A write of the tables is shown to be
the abstract step of its name, every other step a stutter: `SendAsks`, `AcceptAgrees`, `ResolveDrops`, `RemoveParts`,
`BlockRaced`. One thing is needed besides `Inv`: `Scopes` says that what a call has scanned stays between the two users it
names, and that of two calls blocking the same pair at most one is past its insert; it makes the commit of a block a
single abstract block.

**Overlap.** `OverlapProofs` says what calls do to each other.

* *Who waits for whom.* `WaitsWithin`: a call waits only for one about the same two users. `CycleKinds`: a call that
  waits and is waited for at once is an accept or a block, for these alone hold rows while they want
  others, and each wants what only the other kind holds; so a wait cycle (`DeadlocksAreBlocks`) is one accept
  that has claimed its request and one block of its pair at its last statement. The model takes the rows of one UPDATE
  as locked all at once; blocks that lock several rows of one UPDATE in different orders are not distinguished.
* *Who changes what.* `WritesStayInPair`, from `Elsewhere`, the frame lemma of every action.
* *What holds when no calls cross.* `OrderlySpec` implies `[]Severed` (`OrderlyCallsSever`), `[]NobodyDeadlocks`, and the
  documented promise in full (`OrderlyPromiseKept`: `OrderlySpec => KeepsPromise`). The invariant `OrderlyInv` is `Inv`, `Scopes`,
  `NoneCross`, that blocked pairs are apart (`Apart`), and that what each call has read is still true (`Fresh`). `Fresh`
  survives the others' steps because a step that would break it belongs to the same pair (`GrowsBy`) and so crosses.
  Each of the three crossings does break the promise: TLC finds a send and an accept that break `KeepsPromise`,
  a block and either of the two that break `Severed`. `OrderlySpec` allows everything else.

`Severed`, `NobodyDeadlocks` and `StaysWithinPair` are theorems only. The first is what `KeepsPromise` says in terms of rows, the
second a corollary of `DeadlocksAreBlocks`, and two users, all that the runs have, cannot violate the third.

**Chat.** `ChatProofs` proves `TypeOK`, `Private`, `ThreadClean`, `ReadByOther`, `FormIsAwaited`, `HeadsForRoom` and `KeepsShown` for any number of users, tabs,
conversations, calls and visits. The assumptions are those of ChatState (`OwnerIsUser`, `MembersAreUsers`,
`NoneIsNoConversation`, `Limits`). The invariant: the rows a call carries are its conversation's and only a member's (`CallsOK`); the page a
call may still reach is of the call's conversation, which is what the `cancelled` flag is for; what
is on screen is one conversation's, each message once (`PagesOK`); rooms and events on the wire are members' only (`SocketsOK`); senders
are members (`Written`). `KeepsShown` needs `OneLoad` besides: a visit has one load, and none is left once its history is on
screen. That a call's claims survive the steps of others rests on `LogGrows` and `PagesMove`: messages stay as they are, a tab's visits only grow.
`FormIsAwaited` and `HeadsForRoom` are the safety halves of `SendingEnds` and `StaysJoined`: what must end, or arrive, is under
way. `FormStep` follows the one send of a visit through loss, repetition and the slot it may move to; `RoomStep` follows a page's
latest join through the wire, `handleJoin`'s await and the room, past the leaves of earlier visits.

**Accounts.** `AuthProofs` proves `TypeOK`, `AccountsSound`, `TrueAnswers`, `SpinnerIsAwaited` and `BlipsKeepLogin` for any number of users,
sessions, tabs, loads, calls and attempts, from the assumptions of AuthState (`GoogleEmailsDiffer`, `NoneIsNoRow`,
`Bounds`). `TrueAnswers` speaks of a response, several statements after the lookup it rests on; the invariant
`CallsOK` therefore says of every call in flight which stages its operation can be at (`Staged`), that the account it has found or made is
still the one it names (`Identified`), and that the session it has opened is that account's (`Ticketed`). `UsersStay` and
`SessionsStay` are what makes this last: rows are added and sessions end, but no row changes its e-mail, its password or
a Google id once set, nor a session its user. `GoogleLink` overwrites the id of the row it found by e-mail; `LinkedIs` shows that it can only overwrite none or the same one.

`RegistryProofs` proves that the tables implement `Registry` (`RegisterKept`: `Spec => R!Spec /\ KeepsRegister`; the run checks `R!Spec` in the form `KeepsRegister`, which lets TLC pass over the steps that write no table). Each write is one event of the
register: `CreateRegisters` and `GoogleJoins` the two ways to an account, `LinkLinks`, `VerifyVouches`, `IssueEnters`, `EndLeaves`; everything else
stutters. `Registry!Register` needs the e-mail to be free although `create` comes statements after the lookup (the unique index sees to it), `Registry!Enter`
the means to log in although the session is inserts away from the password check (`IssuerEnters`, from `CallsOK`). The one
invariant besides that of AuthProofs is `Owned`: a session that was issued is an account's.

**API client and pages.** `PagesProofs` proves `TypeOK`, `CachedIsPending`, `RefusedOnlyIfOvertaken`,
`OneReportPerSubmit`, `AnsweredLeavesList` and `WaitingIsAwaited` for any number of tabs, requests, peers, attempts and losses, from `ClientAssumption` (finitely many tabs and slots; slots and
None are not numbers, since `cache[t]` holds either a slot or a token) and `PagesAssumption`. The invariant has the calls that wait for a
promise (`Waits`), the call of the same tab that fetches the cached one (`Owners`), the age of every token a retry carries
(`Overtaken`), a count that decreases with every report that may still be filed (`Filed`), and that an accept or decline that was
answered has taken its peer from the requests (`Rows`): from then on neither the table nor what its reload has read so far has the peer, and this is what
`AnsweredLeavesList` needs however many older reloads are still under way.
`WaitingIsAwaited` is the safety half of `NothingHangs`. It needs only that what reloads a page is the page or a row's button (`Loaders`); the
rest is following each call of a page through fetches, refreshes and losses (`Borne`).

**Profile.** `PeopleProofs` proves `TypeOK`, `SavedIsShown`, `SavingIsAwaited`, `WithdrawnUnseen`, `ReplacesAll` and `KeepsTicked` for any number of tabs, calls at once,
activities, users, attempts, losses and gestures, from `PeopleAssumption` and `PageAssumption`. The invariant has

* `Sound`: each call has the locals its stage uses; one outside the replace-all transaction holds no row lock and waits for none;
* `Locks`: no two transactions hold the same row, and one waits only for a row it is to write;
* `Stored`: what a call has stored is there as long as no other call of the user's has committed meanwhile (`sole`);
* `Left`: a row that a replace-all under way has neither locked nor to delete nor listed is as the commits since its snapshot have left
  it (`theirs`), or absent if there were none. Its own commit, several statements later, rests on this, and so does `ReplacesAll`;
* `Screens`: `SavedIsShown`, and what a page has loaded and not seen unticked is ticked (`Ticked`);
* `Gone`: what `Me` has been told is so, and no call under way can undo it. Without the second half `WithdrawnUnseen` is not inductive: an
  earlier save, still waiting, would show her again;
* `Unseen`: a search that knew is one that does not find her;
* `AllAwait`: `SavingIsAwaited`, the safety half of `SavesEnd`, kept by each way a call begins, moves to another slot, is left or ends.

**Model-checked only.** Liveness is out of the prover's reach: `EveryCallReturns`, `SendingEnds`, `StaysJoined`,
`LiveDelivery`, `NothingHangs`, `SavesEnd`. What they rest on besides fairness, that whoever waits waits for something under way, is
proved (`FormIsAwaited`, `HeadsForRoom`, `WaitingIsAwaited`, `SavingIsAwaited`, and `SpinnerIsAwaited` for the session lookup). Every invariant, action property and refinement of a passing run is proved.

## 6. Where the code and its documentation disagree

1. *A PENDING request can survive a block* (run `severed`). `sendRequest` reads `blocks`
   and inserts in separate statements; a block that commits in between is missed. The comment at
   `safety.service.ts:38` says there is provably none. The recipient can still accept it:
   `acceptRequest` does not read `blocks`.
2. *An active connection can survive a block* (run `severed`). The UPDATE of
   `createBlock` cannot see the connection that an overlapping accept has yet to commit.
   DATABASE.md:307 says there is none the instant a block exists. `BlockLeavesNothing` is the weaker claim that at
   least one of the two holds; the run refutes it, and with it both.
3. *An open chat page can miss a message for good* (run `missed`). The history is read and the room
   joined independently and nothing is fetched again; a message published after
   the one and before the other is shown nowhere. The comment at `chat.gateway.ts:30` says open tabs see
   each message without polling. `LiveDelivery` is what does hold: a page
   that is loaded and in its room when the message is published shows it.
4. *A message can be stored in a conversation that has ended* (run `ended`):
   `sendMessage` reads `removedAt` before it inserts. API.md:120 and DATABASE.md:259 say
   sending is blocked once it has ended.
5. *A visitor who is logged in can be sent to /login* (run `bounced`). When the first session
   lookup after a load is lost, or answered with a 5xx, `refresh` turns `loading` into
   `unauthenticated` (`auth-context.tsx:45`), which `RequireAuth` takes for knowing it "for sure"
   (`require-auth.tsx:8`). `BlipsKeepLogin` is what does hold: a tab that is logged in stays so through a hiccup.

6. *A replace-all can leave what it did not list* (`ReplacesAll` of run `people`). API.md:56 says of the selection's PUT that its
   body "becomes the caller's complete activity set — anything not listed is removed". Two that overlap break
   this: the `deleteMany` of each (`profile.service.ts:106`, READ COMMITTED) does not see rows the other inserts after its
   snapshot, and the union of the two stays. No run is kept to refute the
   sentence; `ReplacesAll` says exactly what is left of it, the row and the availability: what is stored
   at the commit is what the body lists, except that an unlisted activity is still as a save that committed after this
   one's `deleteMany` began has written it. Its last disjunct is the exception: without it TLC finds, in the instance of
   `people`, a save of {cafe TODAY} that overlaps one of {gym NOW, cafe NOT_AVAILABLE} and leaves {gym NOW, cafe TODAY}.

Four more places where the modelled code does less than a reader of the documentation may expect; they are stated by no run,
because the sentence can be read either way.

* API.md:63 promises that a cleared location is gone. A position the browser finds late, or an earlier PUT that the
  server goes on with, sets it again; `WithdrawnUnseen` therefore speaks of a clear nothing of the user's overlaps.
* Two tabs may each refresh their token between the other's refresh and retry; the retry is refused too and the page
  shows a 403. `RefusedOnlyIfOvertaken` says that this is the only way.
* The comment at `chat.gateway.ts:98` gives an unmatched connection as the reason for checking each join, but
  `isParticipant` (`chat.service.ts:115`) does not read `removedAt`: the members of an ended connection still join, as
  they still read its history. `Private` is about members, ended or not.
* `apps/web/app/profile/page.tsx:104` swallows a failed load of the activities, and a save then replaces a
  selection the page never showed. `KeepsTicked` speaks of what was loaded.

## 7. What is not modelled

* **Reports** are counted; the list of one's own reports is only read.
* **Profile fields** other than `discoverable` and `hidden` are stored and shown. Unknown or duplicate activity keys are refused
  before anything is written. In Accounts a profile is made by `register` only.
* **Distance labels, order, LIMIT and OFFSET** of the searches: no page passes an offset. `fuzzPosition` and Leaflet: trigonometry over
  reals and a hash, and drawing.
* **What an earlier search left on screen**: a search that is refused or fails (`CheckLocation`, `SearchFails`) only shows an
  error beside it. `WithdrawnUnseen` is about what a search finds.
* **A request the client gave up and the server goes on with** is in ChatPage, AuthPages and ProfilePage, not in
  Pages, where a lost attempt was either served before or not at all.
* **Account status**: nothing under `src/` makes an account other than ACTIVE. `revokeAllForUser` has
  no caller.
* **The socket at logout**: `disconnectSocket` and the identity a socket keeps after its session has
  ended would join the chat and the account models.
* **Throttling, error formatting, health, bootstrap, proxy, load tests and
  scripts**: no state of their own that a property could be about.
* **Response bodies, wording, validation of DTOs**: left out of every module.
* **The chat's cursor** (`before`): no page passes it.
* **A single API process** is assumed by the chat: the code has no Socket.IO adapter, and its
  event bus is in memory.

## 8. Plan

In this order; each module is written with CONSTANTS and named assumptions, one action
per operation, and without RECURSIVE operators where theorems are planned.

1. *Done*: Store, Connections, Safety, Relationships, Lifecycle, RelationshipsProofs, LifecycleProofs, OverlapProofs;
   ChatState, ChatServer, ChatPage, Chat, ChatProofs; AuthState, Accounts, AuthPages, Auth, Registry, AuthProofs, RegistryProofs; ApiClient, Pages,
   PagesProofs; People, ProfilePage, PeopleProofs.
2. **A thread**: the abstract specification of a conversation (who may write, what a page shows of it) and the chat's
   refinement of it.
3. **Pages**: what a card shows after a retry of what was done.
4. **Sockets and sessions**: the identity a socket is given at its handshake, `disconnectSocket` at logout, and the
   sessions of Accounts, joined in one composition.
5. **Pagination**: the `before` cursor of the history and OFFSET paging of discovery as pure operators, compared
   with the full list over bounded inputs with ties, once a page uses them.
