SPECIFICATION FairSpec
CONSTANTS
  e1 = e1  e2 = e2
  t1 = t1  t2 = t2
  Entity <- OneEntity
  Value = {on, off}
  Topic = {t1}
  TopicOf <- OneTopicOf
  None = None
  MaxSame = 3
  CanDrop = FALSE
  Failures = FALSE
  Submittable = {"off", "setup", "tracking", "loaded", "unloaded"}
  Calm = FALSE
INVARIANTS
  RemovedIsClean
PROPERTIES
  Converges
