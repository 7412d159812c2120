CONSTANTS
  Threads = {t1, t2}
  Capacity = 2
  HandleIds = {h1, h2}
  NoHandle = NoHandle
SPECIFICATION Spec
INVARIANTS HandlesExclusive
