\* Two requests for one connection: with the same credential, with different
\* ones, with none; a credential may run out between the two checks.
CONSTANTS
  Requests = {r1, r2}
  Credentials = {k1, k2}
  NoHeader = NoHeader
  MaxConnections = 1
  Retries = 1
SPECIFICATION FairSpec
\* all requests have been answered
CHECK_DEADLOCK FALSE
INVARIANTS TypeOK OwnCredential ReachesApiOnce NothingLeftBehind
PROPERTIES RequestsEnd
