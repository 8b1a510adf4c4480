\* Controllers and memory cards behind the serial port.
SPECIFICATION DriverSpec
CONSTANTS
  SectorBytes = 2
  Frames <- MCFrames
  Blocks <- MCBlocks
  Buttons <- MCButtons
  Garbage <- MCGarbage
  BufSize = 40
INVARIANTS
  TypeOK
  ReadsAccepted
  PadSnapshot
  QuietBetween
  InterruptComes
PROPERTY CardsHold
