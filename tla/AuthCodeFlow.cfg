\* Three overlapping logins of two accounts, each allowed one pending code, with
\* a single validation slot, and two exchanges.
CONSTANTS
  r1 = r1
  r2 = r2
  r3 = r3
  t1 = t1
  t2 = t2
  k1 = k1
  k2 = k2
  none = none
  server = server
  AuthReqs = {r1, r2, r3}
  TokReqs = {t1, t2}
  Guesses = {"guess"}
  Asks <- MCAsks
  Exchanges <- MCExchanges
  None = none
  ThisServer = server
  Ttl = 2
  MaxPending = 2
  MaxPerKey = 1
  MaxSlots = 1
SPECIFICATION FairSpec
\* every request may have been answered
CHECK_DEADLOCK FALSE
INVARIANTS TypeOK SingleUse CapacityRespected SlotsConserved
PROPERTIES RedemptionInTime OnlyRedemptionTakesLiveCode ImplementsLedger
  AuthorizeAnswered CapacityRecovers
