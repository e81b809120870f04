\* One process may be killed; a client the server gave up sleeps for ever.
SPECIFICATION FairSpec
CONSTANTS
  s1 = s1
  s2 = s2
  c1 = c1
  c2 = c2
  c3 = c3
  p1 = p1
  p2 = p2
  None = None
  Server <- MCServer
  Client <- MCClient
  Pid <- MCPid
  PidOf <- MCPidOf
  Amount = {2}
  IntMax = 4
  MaxRetries = 1
  MaxKill = 1
CHECK_DEADLOCK FALSE
INVARIANTS
  TypeOK
  PrintedRangesDisjoint
  OnlyTheDeadLeaveFifos
PROPERTIES
  ImplementsSeqAlloc
  GivesUpLate
  EveryoneGetsOn
