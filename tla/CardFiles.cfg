\* Files opened, written, deleted and created, and the program restarted.
SPECIFICATION Spec
CONSTANTS
  a = a
  b = b
  none = none
  NumEntries = 4
  Names <- MCNames
  Free <- MCFree
  Contents = {0, 1}
INVARIANTS
  SavedOnHost
  HandleOwn
