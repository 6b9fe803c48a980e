SPECIFICATION FairSpec
CONSTANTS
  Tabs = {t1, t2}
  Slots = {s1, s2}
  MaxAttempts = 2
  MaxLosses = 1
  None = None
  Peers = {ann}
  t1 = t1
  t2 = t2
  FirstPage <- TwoPages
  MaxGestures = 2
INVARIANTS
  TypeOK
  CachedIsPending
  RefusedOnlyIfOvertaken
  OneReportPerSubmit
  WaitingIsAwaited
PROPERTIES
  AnsweredLeavesList
  NothingHangs
CHECK_DEADLOCK FALSE
