\* The controller under a guest that follows the handshake.
SPECIFICATION FairDriverSpec
CONSTANTS
  Commands <- MCCommands
  Minutes = 1
  Seconds = 2
  Frames = 2
  EofSectors <- MCEofSectors
  MediaErrors = FALSE
  ByteRange = 256
INVARIANTS
  ResultWhole
  InterruptMeansAnswer
  PrefetchCurrent
PROPERTIES
  DeliversInOrder
  PauseStopsReading
  CommandAnswered
  SectorsFlow
