\* Two users, two requests, two callers: enough for the crossing requests and
\* the lock cycle.  No symmetry: liveness.
SPECIFICATION FairSpec
CONSTANTS
  Users <- MCUsers
  ActiveUsers <- MCUsers
  Activities = {hiking}
  RequestIds = {r1, r2}
  Handlers = {h1, h2}
  None = None
INVARIANTS
  TypeOK
  PendingUnique
  ConnectionsSound
  HonestAnswers
  OnlyBlocksDeadlock
PROPERTIES
  KeepsRacedPromise
  ResolvedForever
  ActivatedByAccept
  EveryCallReturns
