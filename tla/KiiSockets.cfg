SPECIFICATION Spec
CONSTANTS
  Fds <- MCFds
  Ports <- MCPorts
  MaxFaults = 4
INVARIANTS
  UsesOwnDescriptor
  UsesLiveSession
  LeaksNeedFailures
  StrayPingsNeedFailures
PROPERTIES
  OnlyOwnerCloses
CHECK_DEADLOCK FALSE
