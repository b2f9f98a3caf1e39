SPECIFICATION FairSpec
CONSTANTS
  c1 = c1
  c2 = c2
  Caller <- TwoCallers
  Creator = c1
  QueueCap = 2
  OutPipe = 3
  MaxFrames = 3
  MayCrash = TRUE
INVARIANT TypeOK
INVARIANT NoEncodeAfterClose
INVARIANT NewestKept
INVARIANT CleanStream
PROPERTY EncodeEnds
PROPERTY CloseEnds
CHECK_DEADLOCK FALSE
