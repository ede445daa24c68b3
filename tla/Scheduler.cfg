SPECIFICATION FairSpec
CONSTANT MaxTasks = 4
INVARIANTS
  TypeOK
  RunsCurrent
  OwnStack
  FramesIntact
  OneRunning
PROPERTIES
  ExitIsFinal
  NoStarvation
