SPECIFICATION Spec
CONSTANTS
  e1 = e1  e2 = e2
  t1 = t1  t2 = t2
  Entity <- MCEntity
  Value = {on}
  Topic <- MCTopic
  TopicOf <- MCTopicOf
  None = None
  MaxSame = 1
  CanDrop = TRUE
  Failures = FALSE
  Submittable = {"loaded"}
  Calm = FALSE
PROPERTY
  DroppedStaysSilent
