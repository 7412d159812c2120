CONSTANTS
  Readers = {r1}
  Writers = {w1}
  StoresLinger = TRUE
SPECIFICATION Spec
INVARIANTS WriterExclusive
