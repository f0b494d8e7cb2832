SPECIFICATION Spec
CONSTANTS
  Tasks = {"app", "recv"}
  Does <- SharedDoes
  Accounts = {"one"}
  Lengths <- MCLengths
  MaxFaults = 0
INVARIANTS
  OwnAnswer
CHECK_DEADLOCK FALSE
