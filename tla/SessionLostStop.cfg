SPECIFICATION Spec
CONSTANTS
  s1 = s1
  s2 = s2
  c1 = c1
  unnamed = unnamed
  t1 = t1
  t2 = t2
  t3 = t3
  Session <- TwoSessions
  Key <- TwoKeys
  DefaultKey = unnamed
  Task <- TwoTasks
  UseGPUBridge = TRUE
  Reoffer = FALSE
  Reconnect = FALSE
SYMMETRY SymmetricTwo
INVARIANT StreamsHaveSessions
CHECK_DEADLOCK FALSE
