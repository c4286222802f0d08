SPECIFICATION Spec
CONSTANTS
  Group = 4
  MaxBytes = 4
  Limit = 512
INVARIANT RoundTrip
