\* Two threads, one interrupt routine, interrupts at every point.
SPECIFICATION Spec
CONSTANTS
  NumThreads = 3
  NumSlots = 1
  Raised <- MCRaised
  GuestMasks <- MCMasks
INVARIANTS
  TypeOK
  OwnRegisters
  CriticalHolds
PROPERTY EnabledKept
