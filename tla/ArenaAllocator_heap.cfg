CONSTANTS
  block_size_ = 8
  Sizes = {0, 3, 5}
  Alignments = {1, 2}
  Header = 3
  Places = {0, 4, 8, 12}
  MaxLive = 4
SPECIFICATION Spec
INVARIANT NeverOverlap
CHECK_DEADLOCK FALSE
