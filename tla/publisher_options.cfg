SPECIFICATION Spec
CONSTANTS
  e1 = e1  e2 = e2
  t1 = t1  t2 = t2
  Entity <- MCEntity
  Value = {on}
  Topic <- MCTopic
  TopicOf <- MCTopicOf
  None = None
  MaxSame = 2
  CanDrop = TRUE
  Failures = TRUE
  Submittable = {"loaded"}
  Calm = TRUE
INVARIANTS
  TypeOK
  DroppedWithdrawn
  RemovedIsClean
PROPERTIES
  CleanupPrecedes
  SilentWhenUnloaded
