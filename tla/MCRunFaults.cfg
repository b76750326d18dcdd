SPECIFICATION FairSpec
CONSTANTS
  s1 = s1
  d1 = d1
  d2 = d2
  t1 = t1
  None = None
  Inputs = {d1, d2}
  Sessions = {s1}
  SessionOf <- SessionOfOne
  Durable = {d1, d2}
  Steerable = {d1}
  Selected = {d1}
  Editable = {d1, d2}
  Removable = {d2}
  Abandonable = {}
  Refusable = {d2}
  WaitingLimit = 1
  ScopeLimit = 1
  Faults = {"accept_start", "accept_queue", "remove", "edit", "steer", "clear", "admit", "append", "finish"}
  Endings = {"completed", "failed"}
  MaxCrashes = 2
INVARIANTS NothingAcceptedIsLost QueueMatchesReceipts OutcomeIsDurable
PROPERTIES AcceptedInputIsAnswered StopReleasesSession ShutdownDrains
CHECK_DEADLOCK FALSE
