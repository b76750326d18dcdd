CONSTANTS
  Callers = {c1, c2, c3}
  Tasks = {t1, t2}
  MaxChanges = 1
  None = None
  Failed = Failed
SPECIFICATION FairRefreshSpec
PROPERTIES EachCallReadsAfterItAsked EveryCallIsAnswered
CHECK_DEADLOCK FALSE
