\* Nobody ends.
SPECIFICATION Spec
CONSTANTS
  c1 = c1
  c2 = c2
  hit = hit
  miss = miss
  Server = Server
  XXXX = XXXX
  NoText = NoText
  Client <- MCClient
  Word <- MCWord
  Dict <- MCDict
  SemMax = 9
  ExitAt <- Nowhere
  MaxKill = 0
  MaxRestart = 0
CHECK_DEADLOCK FALSE
PROPERTIES
  LookupReturnsTheAnswer
