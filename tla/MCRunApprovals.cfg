SPECIFICATION FairSpec
CONSTANTS
  c1 = c1
  c2 = c2
  r1 = r1
  w1 = w1
  w2 = w2
  read = read
  write = write
  None = None
  Calls = {c1, c2}
  Runs = {r1}
  Observers = {w1, w2}
  RunOf <- MCRunOf
  Follows <- MCFollows
  Wants <- MCWants
  Covers <- MCCovers
PROPERTIES RejectionsLast RequestsAreAnnounced CallsAreReleased
CHECK_DEADLOCK FALSE
