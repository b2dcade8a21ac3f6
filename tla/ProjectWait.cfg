\* Intervals below, at and above the floor, timeouts from none to several
\* polls, tokens that run out before, during and after the wait.
CONSTANTS
  Intervals = {0, 1, 3}
  Timeouts = {0, 2, 5}
  TokenLives = {1, 4, 99}
  Forever = 99
  MinPause = 1
  Latency = 2
  MaxClock = 12
SPECIFICATION FairWait
\* the call has been answered
CHECK_DEADLOCK FALSE
INVARIANTS WaitTypeOK AnswerIsTrue BoundedOverrun
PROPERTIES PollsRunOut WaitEnds
