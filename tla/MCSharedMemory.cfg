\* One process of the transfer may be killed; one left without a partner waits
\* for ever.  The producer may end or hang.
SPECIFICATION FairEither
CONSTANTS
  w1 = w1
  w2 = w2
  r1 = r1
  r2 = r2
  text = text
  blank = blank
  Empty = Empty
  None = None
  Writer <- MCWriter
  Reader <- MCReader
  Line <- MCLine
  Blank <- MCBlank
  MaxLines = 2
  MaxCrash = 1
  DataAmount = 3
  ConsumerAmount = 2
  BufferRow = 2
  NoDatum = NoDatum
CHECK_DEADLOCK FALSE
INVARIANTS
  TypeOK
  OneTurn
  OnlyACollisionLeaks
  RingTypeOK
  CountIsExact
  InOrder
  AnnouncedUntilLapped
PROPERTIES
  ImplementsLineChannel
  TransferEnds
  RingEnds
