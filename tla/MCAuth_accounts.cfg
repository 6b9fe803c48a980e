\* Two tabs, or one that reloads; retries; one person with a Google account.
SPECIFICATION Spec
CONSTANTS
  ann = ann
  g1 = g1
  UserIds = {u1, u2}
  SessionIds = {k1, k2}
  Emails = {ann}
  GoogleIds = {g1}
  EmailOf <- AnnsGoogle
  Tabs = {t1, t2}
  Slots = {s1, s2}
  MaxAttempts = 2
  MaxLoads = 2
  None = None
INVARIANTS
  TypeOK
  AccountsSound
  TrueAnswers
  SpinnerIsAwaited
PROPERTIES
  BlipsKeepLogin
  KeepsRegister
SYMMETRY TabsAndSlots
CHECK_DEADLOCK FALSE
