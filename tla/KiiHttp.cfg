SPECIFICATION FairSpec
CONSTANTS
  BufferSize = 9
  KII_SOCKET_MAX_BUFF_SIZE = 4
  RequestSizes <- MCRequestSizes
  HTTP1_1_LEN = 1
  STATUS_LEN = 3
  Replies <- MCReplies
  MaxCalls = 2
  MaxFaults = 2
INVARIANTS
  TypeOK
  UsesOwnConnection
  WholeRequestSent
  BufferHoldsResponse
  StopsAtTheEnd
  OnlyFailuresLeak
  ErrorMatchesResult
PROPERTIES
  ImplementsRemoteCall
  Completes
CHECK_DEADLOCK FALSE
