SPECIFICATION FairProgramsSpec
CONSTANTS
  Table <- MCTable
  Sought <- MCSought
  Rounds = 4
  Pow2 <- MCPow2
  NumSigs = 3
  Callers <- MCCallers
  MaxInterrupts = 3
  Inputs <- MCInputs
  Lines = 3
  Room = 2
  MaxFds = 9
  Consumer = {c1, c2}
  NumData = 2
  MaxSpurious = 1
  Free = Free
  n1 = n1
  n2 = n2
  n3 = n3
  Node = {n1, n2, n3}
  Receiver <- MCReceiver
  MaxKill = 2
  Contents <- MCContents
  Old <- MCOld
  BUF_SIZE = 2
  MaxAppends = 1
  Zero = Zero
  Letter = Letter
  Newline = Newline
  Other = Other
  Texts <- MCTexts
  Blank = 0
  Words = {1, 2}
  Pids = {1, 2, 3}
  MaxChanges = 3
INVARIANTS SearchIsMembership NothingIsLost ResultsAreRight
PROPERTY ProgramsEnd
CHECK_DEADLOCK FALSE
