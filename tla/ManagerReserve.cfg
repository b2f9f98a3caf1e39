SPECIFICATION Spec
CONSTANTS
  r1 = r1
  r2 = r2
  c1 = c1
  c2 = c2
  Request <- TwoRequests
  Id <- TwoIds
  MinPort = 1
  MaxPort = 2
  DockerFaults <- NoFaults
  Hazards <- Restarting
  MaxRestarts = 1
SYMMETRY Symmetric
INVARIANT ExistingPortsReserved
CHECK_DEADLOCK FALSE
