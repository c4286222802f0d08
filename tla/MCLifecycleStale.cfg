SPECIFICATION Spec
CONSTANTS
  MaxErrors = 5
INVARIANT
  OpenedIsAlive
