SPECIFICATION Spec
CONSTANTS
  BufferSize = 21
  Lines <- MCLines
  HeaderSize <- MCHeaderSize
  BodySizes = {2}
  ArgSizes = {1}
  Keys <- MCKeys
  MaxExtras = 2
  ResponseSizes = {3}
INVARIANTS
  TypeOK
  OnlyLineOverruns
  InOrder
  WholeRequest
  LengthMatchesBody
  HeadersAsAsked
CHECK_DEADLOCK FALSE
