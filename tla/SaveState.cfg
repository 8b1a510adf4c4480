\* Save states taken and loaded by any number of runs of the program, with
\* words of 4 bits and blocks of two cycles, so that the difference to
\* psxNextsCounter may wrap in the first block after a load.
SPECIFICATION StateSpec
CONSTANTS
  WordRange = 16
  Top = 1
  FrameRate = 12
  Lines = 3
  BlankLines = 1
  Dots = 2
  VSyncWA = TRUE
  MaxBlock = 2
  GuestCounters <- MCGuestCounters
  Values <- MCValues
  Modes <- MCModes
INVARIANT LateAfterLoad
VIEW Clock
