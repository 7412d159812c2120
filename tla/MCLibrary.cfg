CONSTANTS
  N = 4
  Values = {a, b}
  NoValue = none
  MaxPush = 7
  Producers = {p1, p2}
  Consumers = {c1, c2}
  RingSize = 2
  PerProducer = 2
  StackThreads = {k1, k2, k3}
  MaxNodes = 3
  TwoThreads = {t1, t2}
  OneThread = {t1}
  PoolSize = 3
  HandleIds = {h1, h2, h3}
  OneHandle = {h1}
  NoHandle = NoHandle
  Ids = {a, b}
  DedupWindow = 2
  Modulus = 16
  MaxTime = 5
  OrderIds = {1, 2}
  OrderSides = {"Buy"}
  Prices = {1, 2}
  MaxLog = 4
  Objects = {1, 2, 3}
  Traders = {x1, x2, x3}
  MaxPosition = 3
  MaxNotional = 8
  Half = 16
  MaxQty = 2
  MaxPrice = 2
  ChainNotional = 4
  ChainPrices = {1, 3}
  ChainQtys = {0, 2}
  Burst = 3
  Requests = {1, 2}
  Symbols = {s1}
  kEmpty = kEmpty
  kTombstone = kTombstone
  Publishers = {t1, t2}
  FeedSymbols = {s1, s2}
  kAnySymbol = any
  MaxObservers = 3
  MaxEvents = 2
  MaxTimers = 3
  MaxTicks = 2
  BookIds = {1, 2, 3}
  BookPrices = {1, 2}
  BookQtys = {1, 2}
  MaxAdds = 3
  EngineIds = {1, 2, 3}
  EnginePrices = {1, 2, 3}
  EngineQtys = {1, 2}
  DepthPrices = {1, 2}
  DepthQtys = {1, 2}
  BucketMs = 2
  TradeTimes = {0, 1, 3, 6}
  TradePrices = {1, 2}
  TradeQtys = {0, 1}
  MaxTrades = 3
  MaxRolls = 2
  MapKeys = {0, 3, 4}
  MapValues = {a, b}
  InitialCapacity = 2
  MaxCapacity = 8
  TombstoneWrap = 4
  CacheSize = 2
  CacheKeys = {a, b, c, d}
  CacheValues = {a, b}
  NoNode = NoNode
  Handles = {h1, h2, h3}
  Deleters = {e1, e2}
  Boxes = {b1, b2}
  Locks = {l1}
  Refs = {r1, r2}
  Muts = {m1, m2}
  MaxLoans = 5
  MaxCarried = 2
  ArenaSize = 3
  MaxObjects = 4
  Addresses = {1, 2, 3}
  AllocatorSize = 4
  Null = Null
SPECIFICATION MCSpec
INVARIANTS
  IInv
  SlotsDisjoint
  SizeInRange
  MpmcDeliversInOrder
  StackNodesSafe
  PoolSlotsSafe
  RiskAccounts
  LimitsKept
  CallbacksOnce
  MarketViewsExact
  ContainersExact
  OwnersHold
  BorrowsExclude
PROPERTIES
  ImplementsFifo
  StackImplementsLifo
  GatewayDeduplicates
  MachineEndsOnce
  UndoRestores
  HashMapIsMap
  CollectsExactly
