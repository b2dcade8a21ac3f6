\* A second login starts in the browser while the first one is at its callback.
CONSTANTS
  b1 = b1
  b2 = b2
  l1 = l1
  l2 = l2
  c1 = c1
  c2 = c2
  c3 = c3
  a1 = a1
  a2 = a2
  u1 = u1
  u2 = u2
  None = None
  Browsers = {b1, b2}
  Logins = {l1, l2}
  Callbacks = {c1, c2}
  Accounts = {a1, a2}
  UpCodes = {u1, u2}
  PendingTtl = 2
SPECIFICATION Spec
\* every login may be over
CHECK_DEADLOCK FALSE
PROPERTIES OnlyLatestLoginCompletes
