\* Exits, kills and restarts anywhere; all clients gone is a real end.
SPECIFICATION FairSpec
CONSTANTS
  c1 = c1
  c2 = c2
  hit = hit
  miss = miss
  Server = Server
  XXXX = XXXX
  NoText = NoText
  Client <- MCClient
  Word <- MCWord
  Dict <- MCDict
  SemMax = 5
  ExitAt <- Anywhere
  MaxKill = 1
  MaxRestart = 1
CHECK_DEADLOCK FALSE
INVARIANTS
  TypeOK
  MutualExclusion
  AnswerAtRelease
PROPERTIES
  LookupIsRightUnlessOvertaken
  OwnDeathStrandsAClient
  ClientsGetOn
