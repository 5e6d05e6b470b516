CONSTANTS
  Query <- SameId
  Pid = {11}
  TTL = 1
  PidSet = {11}
  MaxNow = 2
  MaxSends = 1
  QueueCap = 2
  None = None
SPECIFICATION Spec
INVARIANTS ReportedOnce CacheWasTrue
PROPERTIES BlamedFresh BlamedSnapshot AnswerTaken
