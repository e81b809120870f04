\* One process may be killed; a client left without a server waits for ever.
SPECIFICATION Spec
CONSTANTS
  s1 = s1
  s2 = s2
  c1 = c1
  c2 = c2
  c3 = c3
  p1 = p1
  p2 = p2
  Request = Request
  None = None
  Server <- MCServer
  Client <- MCClient
  Pid <- MCPid
  PidOf <- MCPidOf
  Amount <- MCAmount
  IntMax = 4
  QMax = 2
  MaxKill = 1
CHECK_DEADLOCK FALSE
INVARIANTS
  TypeOK
  AnswerIsMine
  PrintedRangesDisjoint
  RequestIsKept
PROPERTIES
  ImplementsSeqAlloc
