CONSTANTS
  Submitters = {s1, s2}
  Drainers = {d1}
  Closer = closer
  Worker = worker
  MaxTasks = 3
  Workers = {w1, w2, w3}
  Closers = {c1, c2}
  Producers = {p1, p2}
  OneConsumer = {c1}
  RingSize = 2
  PerProducer = 2
  NoValue = none
SPECIFICATION MCSpec
INVARIANTS
  TasksRunOnce
  ShutdownsRunAll
PROPERTIES
  DrainSeesAll
  AcceptedTasksComplete
  ShutdownsReturn
  MpmcAllDelivered
