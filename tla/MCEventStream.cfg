SPECIFICATION FairSpec
CONSTANTS
  s1 = s1
  Subscribers = {s1}
  RetentionLimit = 3
  QueueLimit = 2
  ByteLimit = 3
  Sizes = {0, 2}
  SettledLimit = 2
  MaxEvents = 5
  Idle = Idle
INVARIANTS LiveQueueComplete MemoryBounded
PROPERTIES RefinesOrderedFeed EveryEventArrives SettledStreamReleases
CHECK_DEADLOCK FALSE
