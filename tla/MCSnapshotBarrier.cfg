SPECIFICATION FairSpec
CONSTANTS
  worker = worker
  task = task
  full = full
  backup = backup
  documents = documents
  agents = agents
  sessions = sessions
  usage = usage
  None = None
  Actors = {worker, task}
  LoopTasks = {task}
  Captures = {full}
  Held = {documents}
  Anchors = {sessions}
  Trailing = {usage}
  Copied <- MCCopied
  Attempts = 2
  MaxNesting = 2
  MaxVersion = 1
INVARIANT WaitersHoldNothing
PROPERTIES RefinesInstantSnapshot WaitersEnter CapturesEnd
