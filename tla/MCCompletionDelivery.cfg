SPECIFICATION FairSpec
CONSTANTS
  w1 = w1
  w2 = w2
  q1 = q1
  Notices = {w1, q1}
  Waking = {w1}
  MaxRuns = 2
  MaxIterations = 1
  MaxFaults = 2
INVARIANTS StoredOnce ProducersLearnTheTruth ReadWasAnswered
PROPERTY StopWakesNobody EveryResultSettles
CHECK_DEADLOCK FALSE
