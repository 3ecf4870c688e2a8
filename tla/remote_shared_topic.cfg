SPECIFICATION Spec
CONSTANTS
  u1 = u1  u2 = u2  u3 = u3
  b1 = b1  b2 = b2
  t1 = t1  t2 = t2  t3 = t3
  h1 = h1  h2 = h2
  Uid <- SharedUid
  Bridge <- MCBridge
  Topic = {t1}
  StateTopic = {st}
  Handler = {h1}
  Service = service
  None = None
  BridgeOf <- SharedBridgeOf
  TopicOf <- SharedTopicOf
  Depublishable <- MCBridge
  MaxCount = 3
  Interleaved = FALSE
  Failures = {}
PROPERTY
  DepublishOwnOnly
