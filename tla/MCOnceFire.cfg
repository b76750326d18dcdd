\* Edits, failed writes, unreadable claims, a stop or a crash around the fires
\* of one job.
SPECIFICATION FairSpec
CONSTANTS
  MaxDue = 2
  MaxAttempts = 2
  MaxEdits = 2
  MaxFaults = 8
  MaxCrashes = 2
  Failing = {"claim", "unclaim", "fire", "edit", "delete", "boot", "read"}
INVARIANTS FiresOnceUnlessPutBack ReplacementKeepsItsFire
PROPERTY ArmedJobSettles
CHECK_DEADLOCK FALSE
