SPECIFICATION FairApiSpec
CONSTANTS
  r1 = r1
  r2 = r2
  c1 = c1
  c2 = c2
  u1 = u1
  u2 = u2
  Request <- TwoRequests
  Id <- TwoIds
  User <- TwoUsers
  Creator <- OneUser
  MinPort = 1
  MaxPort = 2
  DockerFaults <- FailingCalls
  Hazards <- Clients
  MaxRestarts = 0
INVARIANT RepliesTrue
INVARIANT AddressesLive
INVARIANT NotFoundIsUnknown
PROPERTY RequestsAnswered
PROPERTY TransientStatusSettles
CHECK_DEADLOCK FALSE
