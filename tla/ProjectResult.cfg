\* Limits on the number of inlined downloads below, at and above what there is;
\* media below, at and above the limit on bytes, and the limit of 0.
CONSTANTS
  MaxDownloads = 3
  InlineLimits = {0, 1, 2, 3}
  ByteLimits = {0, 4}
  MaxChunk = 2
SPECIFICATION FairSpec
\* the result has been returned
CHECK_DEADLOCK FALSE
INVARIANTS TypeOK AllAccountedFor
PROPERTIES CallEnds
