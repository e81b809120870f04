\* One process is ended by a signal; a client without an answer waits for ever.
SPECIFICATION FairSpec
CONSTANTS
  s1 = s1
  s2 = s2
  c1 = c1
  c2 = c2
  c3 = c3
  p1 = p1
  p2 = p2
  x = x
  y = y
  None = None
  NoFile = NoFile
  Server <- MCServer
  Client <- MCClient
  Pid <- MCPid
  PidOf <- MCPidOf
  Content <- MCContent
  WantOf <- MCWantOf
  MaxMsg = 2
  MaxSignal = 1
CHECK_DEADLOCK FALSE
INVARIANTS
  NamesFollowTheLiving
PROPERTIES
  ImplementsFileChannel
  TransferEnds
