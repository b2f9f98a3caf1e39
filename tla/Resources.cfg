SPECIFICATION FairSpec
CONSTANTS
  i1 = i1
  g1 = g1
  g2 = g2
  Input <- OneInput
  Streamer <- TwoStreamers
  MaxClients = 4
  MaxErrors = 1
INVARIANT NilOnlyByRestart
INVARIANT NothingLeaks
PROPERTY FingerLifts
CHECK_DEADLOCK FALSE
