\* Three clients at once on a queue of two messages. One process may be killed; a client left without a server waits for ever.
SPECIFICATION FairSpec
CONSTANTS
  s1 = s1
  s2 = s2
  c1 = c1
  c2 = c2
  c3 = c3
  p1 = p1
  p2 = p2
  Request = Request
  None = None
  Server <- MCServer
  Client <- MCClient
  Pid <- MCClient
  PidOf <- MCOwnPid
  Amount = {2}
  IntMax = 4
  QMax = 2
  MaxKill = 1
CHECK_DEADLOCK FALSE
INVARIANT
  FullNeedsACrowd
PROPERTY
  RequestIsAnswered
