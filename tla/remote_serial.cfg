SPECIFICATION FairSpec
CONSTANTS
  u1 = u1  u2 = u2  u3 = u3
  b1 = b1  b2 = b2
  t1 = t1  t2 = t2  t3 = t3
  h1 = h1  h2 = h2
  Uid <- MCUid
  Bridge <- MCBridge
  Topic <- MCTopic
  StateTopic = {st}
  Handler = {h1}
  Service = service
  None = None
  BridgeOf <- MCBridgeOf
  TopicOf <- MCTopicOf
  Depublishable <- MCBridge
  MaxCount = 3
  Interleaved = FALSE
  Failures = {"publish"}
INVARIANTS
  ShownIffTracked
  SubscribedIffTracked
  CountsExact
  DiagnosticsAttached
  UnloadClean
PROPERTIES
  RemovedDeviceOrphaned
  MirrorsAnnounced
