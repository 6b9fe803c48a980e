SPECIFICATION FairSpec
CONSTANTS
  Users = {me, ann, bob, carl}
  Me = me
  Activities = {gym, cafe}
  me = me
  ann = ann
  bob = bob
  carl = carl
  gym = gym
  cafe = cafe
  Tabs = {t1, t2}
  Slots = {s1, s2}
  Places <- MCPlaces
  Radius = 1
  None = None
  MaxAttempts = 2
  MaxLosses = 1
  Opened = {t1}
  OpenForm <- MCForm
  OpenSel <- MCSel
  MaxGestures = 2
  Searches <- MCSearches
  StartRows <- MCRows
  StartPlaces <- MCStart
  StartBlocks <- MCBlocks
INVARIANTS
  TypeOK
  SavedIsShown
  SavingIsAwaited
  WithdrawnUnseen
PROPERTIES
  ReplacesAll
  KeepsTicked
  SavesEnd
CHECK_DEADLOCK FALSE
