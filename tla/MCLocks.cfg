CONSTANTS
  Threads = {t1, t2, t3}
  Null = Null
  WeakCasFails = TRUE
  Readers = {r1, r2, r3}
  FewReaders = {r1, r2}
  Writers = {w1, w2}
  Parties = {p1, p2, p3, p4}
  MaxRounds = 4
  Initial = 1
  MaxReleases = 3
  TwoThreads = {u1, u2}
  OneThread = {u1}
  MaxWrites = 2
  ManyWrites = 3
  Symbols = {a, b}
  MaxSymbolIds = 3
  Blocks = {k1, k2}
  MaxSeq = 4
SPECIFICATION MCSpec
INVARIANTS
  IInv
  MutualExclusion
  NodeReusable
  SpinLocksExclude
  BarrierRendezvous
  SemaphoreTokensAnnounced
  SharedOwnership
  StreamInSequence
PROPERTIES
  SymbolIdsStable
  FifoHandOff
  McsProgress
  WaitersLetIn
  SeqlockSnapshots
  ParkedDelivered
