\* A loop over rewound lines with "&" is held back at MaxProc processes.
SPECIFICATION FairShellSpec
CONSTANTS
  Scripts <- MCScripts
  Kind <- MCKind
  Files = {"file"}
  Dirs = {"dir"}
  Block = 3
  MaxProc = 4
CHECK_DEADLOCK FALSE
INVARIANTS
  LinesAreObeyed
PROPERTIES
  EverythingEnds
