SPECIFICATION FairSpec
CONSTANTS
  MqttBufferSize = 8
  PublishLens <- MCPublishLens
  MaxMsgs = 1
  KII_PUSH_TOPIC_HEADER_SIZE = 2
  ConnectSize = 8
  SubscribeSize = 6
  MaxFaults = 2
  MaxPings = 1
PROPERTIES
  Recovers
  MessagesArrive
CHECK_DEADLOCK FALSE
