CONSTANTS
  Submitters = {s1, s2}
  Drainers = {d1}
  Closer = closer
  Worker = worker
  MaxTasks = 3
SPECIFICATION FairSpec
PROPERTIES TasksComplete
