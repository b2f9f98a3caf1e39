SPECIFICATION Spec
CONSTANTS
  r1 = r1
  r2 = r2
  c1 = c1
  c2 = c2
  Request <- TwoRequests
  Id <- TwoIds
  MinPort = 1
  MaxPort = 2
  DockerFaults <- RemovableFaults
  Hazards <- OverlapAndExit
  MaxRestarts = 0
SYMMETRY Symmetric
INVARIANT TypeOK
INVARIANT ExclusivePorts
INVARIANT NoOrphans
PROPERTY ImplementsPortPool
CHECK_DEADLOCK FALSE
