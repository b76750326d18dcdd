SPECIFICATION Spec
CONSTANTS
  s1 = s1
  d1 = d1
  d2 = d2
  t1 = t1
  None = None
  Inputs = {d1, t1}
  Sessions = {s1}
  SessionOf <- SessionOfOne
  Durable = {d1}
  Steerable = {d1}
  Selected = {}
  Editable = {}
  Removable = {d1}
  Abandonable = {}
  Refusable = {}
  WaitingLimit = 2
  ScopeLimit = 1
  Faults = {}
  Endings = {"completed"}
  MaxCrashes = 0
INVARIANTS
  QueueMatchesReceipts
CHECK_DEADLOCK FALSE
