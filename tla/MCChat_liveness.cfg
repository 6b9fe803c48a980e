\* One tab that moves between two chats, with a reconnection.
SPECIFICATION FairSpec
CONSTANTS
  ann = ann
  bob = bob
  eve = eve
  t1 = t1
  t2 = t2
  c1 = c1
  c2 = c2
  Users <- Three
  Tabs = {t1}
  Owner <- JustBob
  Conversations = {c1, c2}
  Members <- TwoChats
  Slots = {s1, s2}
  Endable = {}
  PageSize = 50
  MaxAttempts = 1
  MaxMessages = 1
  MaxVisits = 2
  MaxDrops = 1
  None = None
PROPERTIES
  SendingEnds
  StaysJoined
  LiveDelivery
CHECK_DEADLOCK FALSE
