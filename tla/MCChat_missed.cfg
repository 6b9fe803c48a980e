\* Two members of one chat.
SPECIFICATION FairSpec
CONSTANTS
  ann = ann
  bob = bob
  eve = eve
  t1 = t1
  t2 = t2
  c1 = c1
  c2 = c2
  Users <- Three
  Tabs = {t1, t2}
  Owner <- AnnBob
  Conversations = {c1}
  Members <- OneChat
  Slots = {s1, s2}
  Endable = {}
  PageSize = 50
  MaxAttempts = 1
  MaxMessages = 1
  MaxVisits = 1
  MaxDrops = 0
  None = None
PROPERTIES
  OpenTabsSee
CHECK_DEADLOCK FALSE
