\* A datagram client whose query or answer is lost sleeps for ever.
SPECIFICATION FairSpec
CONSTANTS
  s1 = s1
  s2 = s2
  c1 = c1
  c2 = c2
  in = in
  out = out
  XXXX = XXXX
  Junk = Junk
  Unset = {Junk}
  None = None
  Server <- MCServer
  Client <- MCClient
  Word <- MCWord
  Dict <- MCDict
  MaxAsk <- MCMaxAsk
  MaxFault = 1
CHECK_DEADLOCK FALSE
INVARIANTS
  AnswerIsToTheQuestion
PROPERTIES
  LookupEnds
