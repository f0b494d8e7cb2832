SPECIFICATION Spec
CONSTANTS
  MqttBufferSize = 8
  PublishLens <- MCPublishLens
  MaxMsgs = 1
  KII_PUSH_TOPIC_HEADER_SIZE = 2
  ConnectSize = 8
  SubscribeSize = 6
  MaxFaults = 1
  MaxPings = 0
INVARIANTS
  OnlyWholeMessages
CHECK_DEADLOCK FALSE
