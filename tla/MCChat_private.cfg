\* A member, an outsider who opens the page all the same, and a second chat.
SPECIFICATION Spec
CONSTANTS
  ann = ann
  bob = bob
  eve = eve
  t1 = t1
  t2 = t2
  c1 = c1
  c2 = c2
  Users <- Three
  Tabs = {t1, t2}
  Owner <- BobEve
  Conversations = {c1, c2}
  Members <- TwoChats
  Slots = {s1, s2}
  Endable = {}
  PageSize = 1
  MaxAttempts = 1
  MaxMessages = 1
  MaxVisits = 1
  MaxDrops = 1
  None = None
SYMMETRY Symmetry
INVARIANTS
  TypeOK
  Private
  ReadByOther
CHECK_DEADLOCK FALSE
