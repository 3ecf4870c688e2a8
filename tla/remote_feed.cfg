SPECIFICATION Spec
CONSTANTS
  u1 = u1  u2 = u2  u3 = u3
  b1 = b1  b2 = b2
  t1 = t1  t2 = t2  t3 = t3
  h1 = h1  h2 = h2
  Uid <- OneUid
  Bridge = {b1}
  Topic = {t1}
  StateTopic = {st1, st2}
  Handler = {h1}
  Service = service
  None = None
  BridgeOf <- OneBridgeOf
  TopicOf <- OneTopicOf
  Depublishable = {b1}
  MaxCount = 3
  Interleaved = FALSE
  Failures = {}
INVARIANT
  FeedFollowsDiscovery
