\* One tab that moves between two chats, with retries and a reconnection.
SPECIFICATION Spec
CONSTANTS
  ann = ann
  bob = bob
  eve = eve
  t1 = t1
  t2 = t2
  c1 = c1
  c2 = c2
  Users <- Three
  Tabs = {t1}
  Owner <- JustBob
  Conversations = {c1, c2}
  Members <- TwoChats
  Slots = {s1, s2}
  Endable = {c1}
  PageSize = 1
  MaxAttempts = 2
  MaxMessages = 2
  MaxVisits = 2
  MaxDrops = 1
  None = None
SYMMETRY Symmetry
INVARIANTS
  ThreadClean
  FormIsAwaited
  HeadsForRoom
PROPERTIES
  KeepsShown
CHECK_DEADLOCK FALSE
