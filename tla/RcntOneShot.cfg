\* A counter with nothing scheduled, a whole turn of the cycle counter later.
SPECIFICATION Spec
CONSTANTS
  WordRange = 16
  Top = 3
  FrameRate = 9
  Lines = 3
  BlankLines = 1
  Dots = 2
  VSyncWA = FALSE
  MaxBlock = 2
  GuestCounters <- MCGuestCounters
  Values <- MCValues
  Modes <- MCModes
PROPERTY OnlyOneInterrupt
