SPECIFICATION FairSpec
CONSTANTS
  s1 = s1
  s2 = s2
  Starter <- TwoStarters
  MaxStops = 1
  MaxSets = 2
INVARIANT ParametersFirst
INVARIANT OneReadAfterStop
INVARIANT RunningIsAttended
PROPERTY StoppedEncodersEnd
CHECK_DEADLOCK FALSE
