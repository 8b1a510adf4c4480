\* The same guest, and a disc whose second sector ends a file.
SPECIFICATION FairDriverSpec
CONSTANTS
  Commands <- MCCommands
  Minutes = 1
  Seconds = 2
  Frames = 2
  EofSectors = {1}
  MediaErrors = FALSE
  ByteRange = 256
PROPERTY PauseStopsReading
