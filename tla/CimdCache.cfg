\* Three overlapping requests while the client publishes two more versions, the
\* second of which is broken.
CONSTANTS
  Requests = {r1, r2, r3}
  LastVersion = 3
  Invalid = {2}
  CacheTtl = 2
  FetchTime = 1
SPECIFICATION Spec
\* every request may have been answered
CHECK_DEADLOCK FALSE
INVARIANTS TypeOK
PROPERTIES BoundedStaleness
