CONSTANTS
  Length = 5
  MaxRead = 3
  Chunk = 2
  Top = 8
  Unknown = Unknown
  NoBody = NoBody
SPECIFICATION LiveSpec
INVARIANTS
  TypeOK
  BodyInStep
PROPERTIES
  ImplementsStream
  EveryReadReturns
CHECK_DEADLOCK FALSE
