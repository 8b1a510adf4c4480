\* Three samples on one voice, a ring of three slots that overflows.
SPECIFICATION Spec
CONSTANTS
  NumBlocks = 6
  Flags <- MCFlags
  Starts <- MCStarts
  Loops <- MCLoops
  BlockSize = 1
  MaxStep = 1
  NSSIZE = 2
  MaxVolume = 1
  Rates = {0, 1}
  ReleaseRates = {1, 2}
  RingSize = 3
  MaxChunk = 3
  MaxFed = 5
  Repeat = 1
INVARIANTS
  TypeOK
  OwnSample
  XaInOrder
PROPERTY KeyOffHeard
