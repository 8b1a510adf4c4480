\* The counters under a guest that programs one of them.
SPECIFICATION Spec
CONSTANTS
  WordRange = 16
  Top = 3
  FrameRate = 9
  Lines = 3
  BlankLines = 1
  Dots = 2
  VSyncWA = FALSE
  MaxBlock = 2
  GuestCounters <- MCGuestCounters
  Values <- MCValues
  Modes <- MCModes
INVARIANTS
  TypeOK
  NoCounterMissed
  LateByOneBlock
  PhaseLength
PROPERTY StaysUnscheduled
