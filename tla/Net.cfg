SPECIFICATION Spec
CONSTANTS
  NumRx = 3
  NumTx = 2
  Frames <- MCFrames
  Buffers = {"stack", "static"}
  Nothing = Nothing
  MaxFrames = 5
INVARIANTS
  TypeOK
  SentAsMeant
  CountsOnlySent
PROPERTIES
  RingIsQueue
  RequestsAnswered
CHECK_DEADLOCK FALSE
