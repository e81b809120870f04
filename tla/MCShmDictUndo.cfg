\* Clients end only at EOF, the server never.
SPECIFICATION Spec
CONSTANTS
  c1 = c1
  c2 = c2
  hit = hit
  miss = miss
  Server = Server
  XXXX = XXXX
  NoText = NoText
  Client <- MCClient
  Word <- MCWord
  Dict <- MCDict
  SemMax = 5
  ExitAt <- AtPrompt
  MaxKill = 0
  MaxRestart = 0
CHECK_DEADLOCK FALSE
INVARIANTS
  AwaitMeansServed
