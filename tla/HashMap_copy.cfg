CONSTANTS
  Keys = {0, 3, 4}
  Values = {u, v}
  kEmpty = kEmpty
  kTombstone = kTombstone
  kInitialCapacity = 2
  MaxCapacity = 8
  Wrap = 4
  CopiesTombstones = TRUE
SPECIFICATION Spec
INVARIANT ChainsWhole
