\* Two logins of one account and two exchanges on any instances, with commands of
\* pipelines interleaved, calls lost and handlers that die.
CONSTANTS
  r1 = r1
  r2 = r2
  r3 = r3
  t1 = t1
  t2 = t2
  k1 = k1
  none = none
  server = server
  AuthReqs = {r1, r2}
  TokReqs = {t1, t2}
  Guesses = {"guess"}
  Asks <- OneAccount
  Exchanges <- MCExchanges
  None = none
  ThisServer = server
  Ttl = 2
  MaxPending = 2
  MaxPerKey = 1
SPECIFICATION FairSpec
\* every request may have been answered
CHECK_DEADLOCK FALSE
INVARIANTS TypeOK CountersExpire
PROPERTIES ImplementsLedger CapacityRecovers
