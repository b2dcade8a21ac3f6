\* One account logs in three times around the expiry of its counter.
CONSTANTS
  r1 = r1
  r2 = r2
  r3 = r3
  t1 = t1
  t2 = t2
  k1 = k1
  none = none
  server = server
  AuthReqs = {r1, r2, r3}
  TokReqs = {t1}
  Guesses = {"guess"}
  Asks <- OneAccount
  Exchanges <- MCExchanges
  None = none
  ThisServer = server
  Ttl = 2
  MaxPending = 3
  MaxPerKey = 2
SPECIFICATION Spec
\* every request may have been answered
CHECK_DEADLOCK FALSE
INVARIANTS PerKeyCapacity
