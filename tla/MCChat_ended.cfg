\* Two members of one chat whose connection may end.
SPECIFICATION Spec
CONSTANTS
  ann = ann
  bob = bob
  eve = eve
  t1 = t1
  t2 = t2
  c1 = c1
  c2 = c2
  Users <- Three
  Tabs = {t1, t2}
  Owner <- AnnBob
  Conversations = {c1}
  Members <- OneChat
  Slots = {s1, s2}
  Endable = {c1}
  PageSize = 50
  MaxAttempts = 1
  MaxMessages = 1
  MaxVisits = 1
  MaxDrops = 0
  None = None
PROPERTIES
  NoMessageOnceEnded
CHECK_DEADLOCK FALSE
