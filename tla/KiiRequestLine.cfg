SPECIFICATION Spec
CONSTANTS
  BufferSize = 21
  Lines <- MCLines
  HeaderSize <- MCHeaderSize
  BodySizes = {0, 2}
  ArgSizes = {1}
  Keys <- MCKeys
  MaxExtras = 2
  ResponseSizes = {3}
INVARIANTS
  WithinBuffer
CHECK_DEADLOCK FALSE
