\* The controller under an arbitrary guest program.
SPECIFICATION Spec
CONSTANTS
  Commands <- MCCommands
  Minutes = 1
  Seconds = 1
  Frames = 1
  EofSectors <- MCEofSectors
  MediaErrors = TRUE
  ByteRange = 9
INVARIANTS
  TypeOK
  QueuedAnswerWaits
  EventHasAnswer
  StoppedReadStays
  PlayBitHonest
PROPERTY AnswerKept
