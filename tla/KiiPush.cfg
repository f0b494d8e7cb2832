SPECIFICATION Spec
CONSTANTS
  MqttBufferSize = 8
  PublishLens <- MCPublishLens
  MaxMsgs = 2
  KII_PUSH_TOPIC_HEADER_SIZE = 2
  ConnectSize = 8
  SubscribeSize = 6
  MaxFaults = 2
  MaxPings = 1
INVARIANTS
  TypeOK
  ConnectedMeansAcknowledged
  AtMostOneStrayPing
  ReadyMeansSubscribed
  FramingKept
  NoSilentLoss
PROPERTIES
  NeverOverwritesSocket
  ImplementsPushChannel
CHECK_DEADLOCK FALSE
