SPECIFICATION Spec
CONSTANTS
  lower <- MCLower
  upper <- MCUpper
  MAX_SEARCH_NUM = 6
  MAX_FIGURES = 3
  RADIX = 6
  MAX_BYTES = 3
  Headers <- MCHeaders
  MaxHeaders = 2
  Bodies <- MCBodies
INVARIANTS
  ContentLengthRight
  RemainingLengthRight
CHECK_DEADLOCK FALSE
