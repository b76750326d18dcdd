SPECIFICATION Spec
CONSTANTS
  s1 = s1
  d1 = d1
  d2 = d2
  t1 = t1
  None = None
  Inputs = {d1, d2, t1}
  Sessions = {s1}
  SessionOf <- SessionOfOne
  Durable = {d1, d2}
  Steerable = {d1, t1}
  Selected = {t1}
  Editable = {}
  Removable = {d2, t1}
  Abandonable = {t1}
  Refusable = {d2}
  WaitingLimit = 2
  ScopeLimit = 1
  Faults = {}
  Endings = {"completed", "interrupted"}
  MaxCrashes = 1
INVARIANTS OneRunPerSession QueueIsServed NoOvertaking WithdrawnWorkNeverRuns InputsRunOnce
PROPERTY RefinesInputLedger
CHECK_DEADLOCK FALSE
