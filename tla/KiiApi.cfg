SPECIFICATION FairSpec
CONSTANTS
  Tasks = {"app"}
  Does <- AloneDoes
  Accounts = {"one", "two"}
  Lengths <- MCLengths
  MaxFaults = 2
INVARIANTS
  TypeOK
  OwnAnswer
  SubscriptionsFollow
  NormalizerOnlyForUploads
  CrashOnlyOnCutHead
  OwnLength
PROPERTIES
  MixedOnlyByFailure
  RetriesSucceed
CHECK_DEADLOCK FALSE
