\* The save of a delete fails while the Run is being admitted.
SPECIFICATION Spec
CONSTANTS
  MaxDue = 2
  MaxAttempts = 2
  MaxEdits = 1
  MaxFaults = 1
  MaxCrashes = 0
  Failing = {"delete"}
INVARIANT FiresOnce
CHECK_DEADLOCK FALSE
