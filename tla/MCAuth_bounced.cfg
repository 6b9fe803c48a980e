\* A hiccup of the first refresh sends a visitor with a valid session to /login.
SPECIFICATION Spec
CONSTANTS
  ann = ann
  g1 = g1
  UserIds = {u1, u2}
  SessionIds = {k1, k2}
  Emails = {ann}
  GoogleIds = {g1}
  EmailOf <- AnnsGoogle
  Tabs = {t1}
  Slots = {s1, s2}
  MaxAttempts = 2
  MaxLoads = 1
  None = None
PROPERTIES
  BouncedForSure
CHECK_DEADLOCK FALSE
