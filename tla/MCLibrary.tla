----------------------------- MODULE MCLibrary -----------------------------
(***************************************************************************)
(* Model checking of the safety of the queues and of the components built  *)
(* for one order, one book or one object: nothing here promises progress.  *)
(* They share nothing; active names the one a behaviour exercises.         *)
(***************************************************************************)
EXTENDS LibraryProofs, MarketProofs, ContainerProofs

CONSTANTS
  Traders, MaxPosition, MaxNotional, Half

VARIABLES
  active,
  rState, rPc, rOrder, rCur, rWhere, rFreed

mVars == <<mHead, mTail, mValue, mSeq, mPc, mPos, mSent, mLog, mGot>>
kVars == <<kHead, kNext, kRetired, kMade, kPc, kNode, kCur, kNxt>>
oVars == <<oHead, oNext, oLive, oHandle, oDetached, oPc, oOp, oSlot, oNxt>>
gVars == <<gClock, gSeen, gPc, gNow, gCid, gForwarded, gLast>>
rVars == <<rState, rPc, rOrder, rCur, rWhere, rFreed>>
sVars == <<sState, sPc, sFrom, sTo, sFinal>>
rcVars == <<rcHead, rcTail, rcNext, rcUsed, rcAllowed, rcAppended, rcSpent,
          rcBooked, rcVerdict>>
tbVars == <<tbTokens, tbLastRefill, tbNow, tbSpent>>
fVars == <<fSlots, fNextId, fPc, fEvent, fSnapshot, fStarted, fGone,
          fNotified>>
tVars == <<tNow, tNextId, tPq, tPending, tDone, tDeadline, tPc, tDue, tFired,
          tCancelled, tFresh>>
cVars == <<cOrders, cLog, cBefore>>
bVars == <<bById, bBook, bWant, bFrom, bStamp, bAdds>>
eVars == <<eBook, eIndex, eOrder, eArrived, ePlaced, eFilled, eTaken>>
lVars == <<lHasSnapshot, lLevels, lMarket, lLost>>
ohVars == <<ohCurrentBucket, ohCurrent, ohCompleted, ohHasTrade, ohTape,
          ohRolled>>
hVars == <<hNodes, hSize, hTombstones>>
lruVars == <<lruOrder, lruItem, lruMap, lruRecent, lruNewest>>
paVars == <<paHead, paLink, paLive, paDestroyed>>
uVars == <<uPtr, uDeleter, uKind, uRaw, uDestroyedBy>>
bgVars == <<bgReaders, bgWriter, bgRef, bgMut>>
ltVars == <<ltLoans, ltNextId, ltWriter, ltIssued, ltRepaid>>
sbVars == <<sbValue, sbReaders, sbLocked, sbRef, sbMut, sbCarried>>
agVars == <<agSlots, agRoots, agGuard, agMade, agStale, agRobbed>>
msVars == <<msLive, msChild, msRoots, msGuard>>

\* A component that is not active rests.
Others(c) ==
  /\ c # "spsc" => UNCHANGED vars
  /\ c # "mpmc" => UNCHANGED mVars
  /\ c # "stack" => UNCHANGED kVars
  /\ c # "objects" => UNCHANGED oVars
  /\ c # "gateway" => UNCHANGED gVars
  /\ c # "risk" => UNCHANGED rVars
  /\ c # "machine" => UNCHANGED sVars
  /\ c # "chain" => UNCHANGED rcVars
  /\ c # "bucket" => UNCHANGED tbVars
  /\ c # "feed" => UNCHANGED fVars
  /\ c # "timers" => UNCHANGED tVars
  /\ c # "commands" => UNCHANGED cVars
  /\ c # "book" => UNCHANGED bVars
  /\ c # "engine" => UNCHANGED eVars
  /\ c # "l2" => UNCHANGED lVars
  /\ c # "candles" => UNCHANGED ohVars
  /\ c # "hash_map" => UNCHANGED hVars
  /\ c # "lru" => UNCHANGED lruVars
  /\ c # "pool_allocator" => UNCHANGED paVars
  /\ c # "unique_ptr" => UNCHANGED uVars
  /\ c # "guards" => UNCHANGED bgVars
  /\ c # "tokens" => UNCHANGED ltVars
  /\ c # "state_borrow" => UNCHANGED sbVars
  /\ c # "arena_gc" => UNCHANGED agVars
  /\ c # "mark_sweep" => UNCHANGED msVars

\* The pool, used by one thread with all handles or by all with one each.
Alone == INSTANCE ObjectPool WITH Threads <- OneThread, Capacity <- PoolSize,
        head_ <- oHead, next <- oNext, live_ <- oLive, handle <- oHandle,
        detached <- oDetached, pc <- oPc, op <- oOp, slot <- oSlot,
        nxt <- oNxt
Single == INSTANCE ObjectPool WITH Threads <- TwoThreads,
        Capacity <- PoolSize, HandleIds <- OneHandle, head_ <- oHead,
        next <- oNext, live_ <- oLive, handle <- oHandle,
        detached <- oDetached, pc <- oPc, op <- oOp, slot <- oSlot,
        nxt <- oNxt

Ticket(i, s, p, q) == [id |-> i, side |-> s, price |-> p, qty |-> q]

\* Two buys and two sells, which only some of the limits admit together.
Tickets == {Ticket(1, "Buy", 1, 2), Ticket(2, "Buy", 2, 2),
            Ticket(3, "Sell", 1, 3), Ticket(4, "Sell", 2, 1)}

Risk == INSTANCE RiskGate WITH Threads <- Traders, Orders <- Tickets,
        max_position_ <- MaxPosition, max_notional_ <- MaxNotional,
        state_ <- rState, pc <- rPc, order <- rOrder, cur <- rCur,
        where <- rWhere, freed <- rFreed

\* What they add up to fits the halves of the word.
ASSUME TicketsFit == Risk!Sized

Injective(f) == \A x, y \in DOMAIN f : f[x] = f[y] => x = y

MCInit ==
  /\ active \in {"spsc", "mpmc", "stack", "alone", "single", "gateway",
                "fed", "risk", "machine", "chain", "bucket", "feed", "timers",
                "commands", "book", "engine", "l2", "candles", "hash_map",
                "lru", "pool_allocator", "unique_ptr", "guards", "tokens",
                "state_borrow", "arena_gc", "mark_sweep"}
  /\ Init /\ Mpmc!Init /\ Stack!Init /\ Gateway!Init /\ Shared!Init
  /\ Risk!Init /\ Machine!Init /\ Chain!Init /\ Bucket!Init /\ Feed!Init
  /\ Wheel!Init /\ Commands!Init /\ Book!Init /\ Engine!Init /\ Depth!Init
  /\ Candles!Init /\ Map!Init /\ Lru!Init /\ Allocator!Init /\ Unique!Init
  /\ Guarded!Init /\ Tokens!Init /\ Typed!Init /\ Arena!Init /\ Sweep!Init
  \* Several initial states only where they are explored.
  /\ active # "unique_ptr" => uDeleter = CHOOSE d \in [Handles -> Deleters] : TRUE
  /\ active # "state_borrow" => sbValue = CHOOSE v \in [Boxes -> Values] : Injective(v)
  /\ active # "l2" => lMarket = CHOOSE m \in Depth!Books : TRUE

mcVars ==
  <<active, vars, mVars, kVars, oVars, gVars, rVars, sVars, rcVars, tbVars,
    fVars, tVars, cVars, bVars, eVars, lVars, ohVars, hVars, lruVars, paVars,
    uVars, bgVars, ltVars, sbVars, agVars, msVars>>

\* These end when their bound on ids, objects or time is used up.
Bounded == {"chain", "bucket", "feed", "timers", "commands", "book", "engine",
            "candles", "tokens", "arena_gc"}

MCNext ==
  /\ UNCHANGED active
  /\ \/ active = "spsc" /\ Next /\ Others("spsc")
     \/ active = "mpmc" /\ Mpmc!Next /\ Others("mpmc")
     \/ active = "stack" /\ Stack!Next /\ Others("stack")
     \/ active = "alone" /\ Alone!Next /\ Others("objects")
     \/ active = "single" /\ Single!Next /\ Others("objects")
     \/ active = "gateway" /\ Gateway!Next /\ Others("gateway")
     \/ active = "fed" /\ Fed!Next /\ Others("gateway")
     \/ active = "risk" /\ Risk!Next /\ Others("risk")
     \/ active = "machine" /\ Machine!Next /\ Others("machine")
     \/ active = "chain" /\ Chain!Next /\ Others("chain")
     \/ active = "bucket" /\ Bucket!Next /\ Others("bucket")
     \/ active = "feed" /\ Feed!Next /\ Others("feed")
     \/ active = "timers" /\ Wheel!Next /\ Others("timers")
     \/ active = "commands" /\ Commands!Next /\ Others("commands")
     \/ active = "book" /\ Book!Next /\ Others("book")
     \/ active = "engine" /\ Engine!Next /\ Others("engine")
     \/ active = "l2" /\ Depth!Next /\ Others("l2")
     \/ active = "candles" /\ Candles!Next /\ Others("candles")
     \/ active = "hash_map" /\ Map!Next /\ Others("hash_map")
     \/ active = "lru" /\ Lru!Next /\ Others("lru")
     \/ active = "pool_allocator" /\ Allocator!Next /\ Others("pool_allocator")
     \/ active = "unique_ptr" /\ Unique!Next /\ Others("unique_ptr")
     \/ active = "guards" /\ Guarded!Next /\ Others("guards")
     \/ active = "tokens" /\ Tokens!Next /\ Others("tokens")
     \/ active = "state_borrow" /\ Typed!Next /\ Others("state_borrow")
     \/ active = "arena_gc" /\ Arena!Next /\ Others("arena_gc")
     \/ active = "mark_sweep" /\ Sweep!Next /\ Others("mark_sweep")
     \/ active \in Bounded /\ UNCHANGED mcVars

MCSpec == MCInit /\ [][MCNext]_mcVars

-----------------------------------------------------------------------------
(* MpmcQueue: FIFO, and every value once; no two threads own one slot at a *)
(* time, and at most Capacity positions are claimed and not yet popped.    *)
MpmcDeliversInOrder ==
  active = "mpmc" => /\ Mpmc!TypeOK /\ Mpmc!SlotExclusive
                     /\ Mpmc!CapacityRespected /\ Mpmc!DeliversInOrder

(* LockFreeStack: a node is in one place, and so is freed once; and no ABA *)
(* in try_pop().                                                           *)
StackNodesSafe == active = "stack" => Stack!OnePlace /\ Stack!ReadNextIsCurrent

(* LockFreeStack: it is a stack.                                           *)
StackImplementsLifo ==
  /\ Stack!Contents = <<>>
  /\ [][active = "stack" => Stack!LifoStep \/ UNCHANGED Stack!Contents]_kVars

(* ObjectPool: a slot is free, owned by one handle or given away, if there *)
(* is one thread, or one handle to a thread; live_ counts the owners.      *)
PoolSlotsSafe ==
  active \in {"alone", "single"} =>
    Shared!TypeOK /\ Shared!OnePlace /\ Shared!LiveCounts

(* OrderGateway::submit tells duplicates from new orders: what it drops    *)
(* was forwarded within the window, whichever threads race; as long as one *)
(* thread feeds it, an id is forwarded once per window, the edges of the   *)
(* window included; and the map keeps the ids of one window only.          *)
GatewayDeduplicates ==
  /\ []Gateway!MapBounded
  /\ [][Gateway!DropsDuplicate /\ (active = "fed" => Fed!ForwardsApart)]_gVars

(* RiskGate: no reservation or release is lost in the CAS loops, the       *)
(* packed counters are the sums over the reserved orders, and callers that *)
(* pass the check together do not commit together past a limit.            *)
RiskAccounts == active = "risk" => Risk!CountersAddUp /\ Risk!LimitsHold

(* OrderStateMachine::transition: racing reports move the order along      *)
(* legal edges only, and a fill and a cancel are not both acknowledged.    *)
MachineEndsOnce == Machine!MovesAreLegal /\ []Machine!EndsOnce

(* RiskChain and TokenBucket, limits over many calls: an accepted order is *)
(* within the limit of every handler and the notional charged covers what  *)
(* was accepted and stays under its limit; over any span of time no more   *)
(* is acquired than the burst and the refill of that span.                 *)
LimitsKept ==
  /\ active = "chain" => Chain!ChainGuards
  /\ active = "bucket" => Bucket!RateKept

(* MarketDataFeed and TimerWheel, with callbacks that subscribe, cancel    *)
(* and throw: an event calls every observer that stays, once and in order, *)
(* and none of another symbol; a timer fires once, at the first tick()     *)
(* that reaches it, and not after cancel().                                *)
CallbacksOnce ==
  /\ active = "feed" => Feed!FanOut
  /\ active = "timers" => Wheel!FiresOnceInTime

(* ExecuteCommandProcessor::undo_last: undone in reverse order, commands   *)
(* leave the repository as it was before each, those included that did not *)
(* apply.                                                                  *)
UndoRestores == [][Commands!UndoRestores]_cVars

(* OrderBook, MatchingEngine, L2Book and OhlcvAggregator, after            *)
(* any calls: price levels, queues and id index hold the same orders; the  *)
(* engine's book is uncrossed and every quantity traded or resting; the L2 *)
(* book is the snapshot and the updates since, in sequence; each candle is *)
(* what its trades make it, and no bucket lacks one.                       *)
MarketViewsExact ==
  /\ active = "book" => Book!IndexesAgree
  /\ active = "engine" => Engine!BookMatched
  /\ active = "l2" => Depth!InStep
  /\ active = "candles" => Candles!CandlesExact

(* HashMap: every key can be reached from its bucket, across erased slots  *)
(* and growth.  LruCache: what is cached is what was used last.            *)
(* PoolAllocator: every slot is free once or live.                         *)
ContainersExact ==
  /\ active = "hash_map" => Map!ChainsWhole
  /\ active = "lru" => Lru!KeepsRecent
  /\ active = "pool_allocator" => Allocator!FreeListExact

(* HashMap: it is a map.                                                   *)
HashMapIsMap == Map!IsMap

(* UniquePtr: an object has one owner, is destroyed at most once, and with *)
(* the deleter made for it.  ArenaGcHeap: what a root guard made since the *)
(* last reset() holds is not collected or moved, unless a guard from       *)
(* before that reset() has since taken a registration of its slot.         *)
(* GcHeap: what a root guard holds, and what that leads to, is not freed.  *)
OwnersHold ==
  /\ active = "unique_ptr" => Unique!OneOwner
  /\ active = "arena_gc" => Arena!GuardsHold
  /\ active = "mark_sweep" => Sweep!HandlesHold

(* BorrowBox, LoanBox and SBox: a writer is alone, through moves, those of *)
(* a borrowed SBox too, early releases and whatever token is presented in  *)
(* whatever order, but for a reader's token whose kind was changed; and    *)
(* readers are counted exactly, besides the count an object brought along. *)
BorrowsExclude ==
  /\ active = "guards" => Guarded!SharedXorMutable
  /\ active = "tokens" => Tokens!TokensExclude
  /\ active = "state_borrow" => Typed!WritersAlone /\ Typed!ReadersCounted

(* The collectors free all that is unreachable and nothing else: the arena *)
(* the dead objects at its end, mark and sweep every dead object; and      *)
(* PoolAllocator's destructor destroys exactly the live objects.           *)
CollectsExactly ==
  /\ [][Arena!PopsDeadTail]_agVars
  /\ [][Sweep!SweepsUnreachable]_msVars
  /\ [][Allocator!DestroysLive]_paVars

-----------------------------------------------------------------------------
(* What is proved of each component holds while the others rest.           *)

(* The component that is active takes the step, and the others none.       *)
LEMMA OneActs ==
  ASSUME [MCNext]_mcVars
  PROVE  /\ [Mpmc!Next]_(Mpmc!vars) /\ [Stack!Next]_(Stack!vars)
         /\ [Machine!Next]_(Machine!vars) /\ [Commands!Next]_(Commands!vars)
         /\ [Unique!Next]_(Unique!vars) /\ [Guarded!Next]_(Guarded!vars)
         /\ [Tokens!Next]_(Tokens!vars) /\ [Typed!Next]_(Typed!vars)
         /\ [Arena!Next]_(Arena!vars) /\ [Sweep!Next]_(Sweep!vars)
         /\ [Allocator!Next]_(Allocator!vars) /\ [Risk!Next]_(Risk!vars)
         /\ [Chain!Next]_(Chain!vars) /\ [Bucket!Next]_(Bucket!vars)
         /\ [Feed!Next]_(Feed!vars) /\ [Wheel!Next]_(Wheel!vars)
         /\ [Book!Next]_(Book!vars) /\ [Engine!Next]_(Engine!vars)
         /\ [Depth!Next]_(Depth!vars) /\ [Candles!Next]_(Candles!vars)
         /\ [Map!Next]_(Map!vars) /\ [Lru!Next]_(Lru!vars)
<1> USE DEF MCNext, Others, mcVars
<1>1. [Mpmc!Next]_(Mpmc!vars) /\ [Stack!Next]_(Stack!vars)
  BY DEF mVars, kVars, Mpmc!vars, Stack!vars
<1>2. [Machine!Next]_(Machine!vars) /\ [Commands!Next]_(Commands!vars)
  BY DEF sVars, cVars, Machine!vars, Commands!vars
<1>3. [Unique!Next]_(Unique!vars) /\ [Guarded!Next]_(Guarded!vars)
  BY DEF uVars, bgVars, Unique!vars, Guarded!vars
<1>4. [Tokens!Next]_(Tokens!vars) /\ [Typed!Next]_(Typed!vars)
  BY DEF ltVars, sbVars, Tokens!vars, Typed!vars
<1>5. [Arena!Next]_(Arena!vars) /\ [Sweep!Next]_(Sweep!vars)
  BY DEF agVars, msVars, Arena!vars, Sweep!vars
<1>6. [Allocator!Next]_(Allocator!vars) /\ [Risk!Next]_(Risk!vars)
  BY DEF paVars, rVars, Allocator!vars, Risk!vars
<1>7. [Chain!Next]_(Chain!vars) /\ [Bucket!Next]_(Bucket!vars)
  BY DEF rcVars, tbVars, Chain!vars, Bucket!vars
<1>8. [Feed!Next]_(Feed!vars) /\ [Wheel!Next]_(Wheel!vars)
  BY DEF fVars, tVars, Feed!vars, Wheel!vars
<1>9. [Book!Next]_(Book!vars) /\ [Engine!Next]_(Engine!vars)
  BY DEF bVars, eVars, Book!vars, Engine!vars
<1>10. [Depth!Next]_(Depth!vars) /\ [Candles!Next]_(Candles!vars)
  BY DEF lVars, ohVars, Depth!vars, Candles!vars
<1>11. [Map!Next]_(Map!vars) /\ [Lru!Next]_(Lru!vars)
  BY DEF hVars, lruVars, Map!vars, Lru!vars
<1> QED
  BY <1>1, <1>2, <1>3, <1>4, <1>5, <1>6, <1>7, <1>8, <1>9, <1>10, <1>11

(* MpmcQueue, for every capacity of at least two and any producers and     *)
(* consumers: what is popped is what was pushed at that position, once,    *)
(* and the slots are never shared.                                         *)
THEOREM QueueDelivers ==
  ASSUME RingSize \in Nat \ {0, 1}, PerProducer \in Nat, Producers \cap Consumers = {}
  PROVE  MCSpec => []MpmcDeliversInOrder
<1>0. Mpmc!Sized
  BY DEF Mpmc!Sized
<1>1. MCInit => Mpmc!IInv
  BY <1>0, MpmcInitHolds DEF MCInit
<1>2. Mpmc!IInv /\ [MCNext]_mcVars => Mpmc!IInv'
  BY <1>0, OneActs, MpmcInductive
<1>3. Mpmc!IInv => MpmcDeliversInOrder
  BY <1>0, MpmcImplied DEF MpmcDeliversInOrder
<1> QED
  BY <1>1, <1>2, <1>3, PTL DEF MCSpec

(* LockFreeStack, for any threads and any number of nodes: no node is in   *)
(* two places, and the link that a CAS installs is that of the node it     *)
(* takes off.                                                              *)
THEOREM StackSafe ==
  ASSUME MaxNodes \in Nat
  PROVE  MCSpec => []StackNodesSafe
<1>1. MCInit => Stack!IInv
  BY StackInitHolds DEF MCInit
<1>2. Stack!IInv /\ [MCNext]_mcVars => Stack!IInv'
  BY OneActs, StackInductive
<1>3. Stack!IInv => StackNodesSafe
  BY StackImplied DEF StackNodesSafe
<1> QED
  BY <1>1, <1>2, <1>3, PTL DEF MCSpec

(* LockFreeStack, likewise: each step pushes or pops one node at the top   *)
(* of the list, or leaves the list as it was.                              *)
THEOREM StackRefines ==
  ASSUME MaxNodes \in Nat
  PROVE  MCSpec => StackImplementsLifo
<1>1. MCInit => Stack!IInv /\ Stack!Contents = <<>>
  BY StackInitHolds DEF MCInit
<1>2. Stack!IInv /\ [MCNext]_mcVars => Stack!IInv'
  BY OneActs, StackInductive
<1>3. Stack!IInv /\ [MCNext]_mcVars =>
        [active = "stack" => Stack!LifoStep \/ UNCHANGED Stack!Contents]_kVars
  BY OneActs, StackInductive
<1> QED
  BY <1>1, <1>2, <1>3, PTL DEF MCSpec, StackImplementsLifo

(* A step of the gateway, with all threads or fed by thread t.             *)
LEMMA GatewayActs ==
  ASSUME NEW t \in TwoThreads, OneThread = {t}, [MCNext]_mcVars
  PROVE  /\ [Gateway!Next]_(Gateway!vars)
         /\ active # "gateway" => [Gateway!Alone(t)]_(Gateway!vars)
         /\ active' = active
<1>1. \/ active = "gateway" /\ Gateway!Next
      \/ active # "gateway" /\ Fed!Next
      \/ UNCHANGED Gateway!vars
  <2>1. \/ active = "gateway" /\ Gateway!Next
        \/ active = "fed" /\ Fed!Next
        \/ \E c : c # "gateway" /\ Others(c)
        \/ UNCHANGED mcVars
    BY Zenon DEF MCNext
  <2>2. ASSUME NEW c, c # "gateway", Others(c) PROVE UNCHANGED gVars
    BY ONLY <2>2 DEF Others
  <2>3. UNCHANGED mcVars => UNCHANGED gVars
    BY ONLY DEF mcVars
  <2>4. UNCHANGED gVars => UNCHANGED Gateway!vars
    BY ONLY DEF gVars, Gateway!vars
  <2> QED
    BY ONLY <2>1, <2>2, <2>3, <2>4
<1>2. Fed!Next => Gateway!Alone(t)
  BY FedIsGateway
<1>3. Gateway!Alone(t) => Gateway!Next
  BY DEF Gateway!Alone, Gateway!Next
<1>4. active' = active
  BY DEF MCNext, mcVars
<1> QED
  BY <1>1, <1>2, <1>3, <1>4

(* OrderGateway::submit, for every window and as long as clock and window  *)
(* do not wrap: what is dropped was forwarded within the window, the map   *)
(* keeps one window of ids, and one feeding thread forwards an id once in  *)
(* a window.                                                               *)
THEOREM GatewayHolds ==
  ASSUME NEW t \in TwoThreads, OneThread = {t}, DedupWindow \in Int, Modulus \in Nat,
         MaxTime \in Nat, MaxTime + Gateway!dedup_window_ < Modulus
  PROVE  MCSpec => GatewayDeduplicates
<1> DEFINE I == Gateway!IInv /\ (active # "gateway" => Gateway!Ordered(t))
           A == Gateway!DropsDuplicate /\ (active = "fed" => Fed!ForwardsApart)
<1>1. MCInit => I
  BY GatewayInitHolds, GatewayOrderedHolds DEF MCInit, Gateway!Sized
<1>2. I /\ [MCNext]_mcVars => I'
  BY GatewayActs, GatewayInductive, GatewayOrderedKept
<1>3. I => Gateway!MapBounded
  BY DEF Gateway!IInv
<1>4. I => A
  BY GatewayDropsKnown, GatewayForwardsOnce, FedForwards
<1>5. I /\ [MCNext]_mcVars => [A]_gVars
  BY <1>4
<1> QED
  BY <1>1, <1>2, <1>3, <1>5, PTL DEF MCSpec, GatewayDeduplicates

(* OrderStateMachine::transition, for any threads: racing reports move the *)
(* order along legal edges, and one of them at most ends it.               *)
THEOREM MachineHolds == MCSpec => MachineEndsOnce
<1>1. MCInit => Machine!IInv
  BY MachineInitHolds DEF MCInit
<1>2. Machine!IInv /\ [MCNext]_mcVars => Machine!IInv'
  BY OneActs, MachineInductive
<1>3. Machine!IInv => Machine!EndsOnce
  BY MachineEndsImplied
<1>4. Machine!IInv /\ [MCNext]_mcVars =>
        [sState' = sState \/ Machine!legal(sState, sState')]_(Machine!vars)
  BY OneActs, MachineStepsLegal
<1> QED
  BY <1>1, <1>2, <1>3, <1>4, PTL DEF MCSpec, MachineEndsOnce, Machine!MovesAreLegal

(* RiskGate, for any threads and any limits that fit the word: the packed  *)
(* counters are the sums over what is reserved, and the limits hold.       *)
THEOREM RiskHolds == MCSpec => []RiskAccounts
<1>0. Risk!Sized
  BY TicketsFit
<1>1. MCInit => Risk!IInv
  BY <1>0, Risk!InitHolds DEF MCInit
<1>2. Risk!IInv /\ [MCNext]_mcVars => Risk!IInv'
  BY <1>0, OneActs, Risk!Inductive
<1>3. Risk!IInv => RiskAccounts
  BY <1>0, Risk!Implied DEF RiskAccounts
<1> QED
  BY <1>1, <1>2, <1>3, PTL DEF MCSpec

(* RiskChain and TokenBucket, for any limits, orders and requests: what    *)
(* the chain accepts is within the limit of every handler appended, the    *)
(* notional handler charges what was accepted and no more than its limit,  *)
(* and no stretch of time sees more tokens acquired than a full bucket and *)
(* what it refills.                                                        *)
THEOREM LimitsHold ==
  ASSUME ChainNotional \in Nat, ChainPrices \subseteq Int, ChainQtys \subseteq Int,
         Null \notin Chain!Handlers, Burst \in Nat, MaxTime \in Nat, Requests \subseteq Nat
  PROVE  MCSpec => []LimitsKept
<1> DEFINE I == ChainInv /\ Bucket!IInv
<1>0. Chain!Sized /\ Bucket!Sized
  BY DEF Chain!Sized, Bucket!Sized
<1>1. MCInit => I
  BY <1>0, ChainInitHolds, BucketInitHolds DEF MCInit
<1>2. I /\ [MCNext]_mcVars => I'
  BY <1>0, OneActs, ChainInductive, BucketInductive
<1>3. I => LimitsKept
  BY DEF LimitsKept, ChainInv, Bucket!IInv
<1> QED
  BY <1>1, <1>2, <1>3, PTL DEF MCSpec

(* ExecuteCommandProcessor, for any orders, prices and length of the log:  *)
(* undo_last() restores the repository of before the command.              *)
THEOREM UndoHolds == MCSpec => UndoRestores
<1>1. MCInit => Commands!IInv
  BY CommandsInitHolds DEF MCInit
<1>2. Commands!IInv /\ [MCNext]_mcVars => Commands!IInv' /\ Commands!UndoRestores
  BY OneActs, CommandsInductive
<1>3. Commands!IInv /\ [MCNext]_mcVars => [Commands!UndoRestores]_cVars
  BY <1>2
<1> QED
  BY <1>1, <1>2, <1>3, PTL DEF MCSpec, UndoRestores

(* BorrowBox, LoanBox and SBox, for any boxes and guards, any finite set   *)
(* of references and any number of loans, through moves of borrowed boxes  *)
(* and with tokens repaid twice, made up or changed in kind: a writer is   *)
(* alone, but for access_mut() with a reader's id, and readers are counted *)
(* exactly, besides the count an object brought along.                     *)
THEOREM BorrowsHold ==
  ASSUME IsFiniteSet(Refs), Null \notin Boxes, Null \notin Values
  PROVE  MCSpec => []BorrowsExclude
<1> DEFINE I == Guarded!IInv /\ Tokens!IInv /\ Typed!IInv
<1>0. Typed!Sized
  BY TypedCardinality DEF Typed!Sized
<1>1. MCInit => I
  BY <1>0, GuardsInitHolds, TokensInitHolds, TypedInitHolds DEF MCInit
<1>2. I /\ [MCNext]_mcVars => I'
  BY <1>0, OneActs, GuardsInductive, TokensInductive, TypedInductive
<1>3. I => BorrowsExclude
  BY <1>0, TokensImplied, TypedImplied DEF BorrowsExclude, Guarded!IInv
<1> QED
  BY <1>1, <1>2, <1>3, PTL DEF MCSpec

(* UniquePtr, ArenaGcHeap and GcHeap, for any handles, objects, deleters   *)
(* and sizes and finitely many guards and addresses: an object has one     *)
(* owner and is destroyed once at most, by the deleter made for it; what a *)
(* root guard of GcHeap holds is not freed; and with reset() at any time,  *)
(* under guards too, what a guard made since holds is where it was, unless *)
(* a guard from before has taken a registration of its slot.               *)
THEOREM OwnersKept ==
  ASSUME Null \notin Objects, Null \notin Deleters, IsFiniteSet(TwoThreads),
         ArenaSize \in Nat, MaxObjects \in Nat, IsFiniteSet(Addresses), Null \notin Addresses
  PROVE  MCSpec => []OwnersHold
<1> DEFINE I == Unique!IInv /\ Arena!IInv /\ Sweep!IInv
<1>0. Unique!Apart /\ Arena!Sized /\ Sweep!Sized
  BY ArenaCardinality, SweepCardinality DEF Unique!Apart, Arena!Sized, Sweep!Sized
<1>1. MCInit => I
  BY <1>0, UniqueInitHolds, ArenaInitHolds, SweepInitHolds DEF MCInit
<1>2. I /\ [MCNext]_mcVars => I'
  BY <1>0, OneActs, UniqueInductive, ArenaInductive, SweepInductive
<1>3. I => OwnersHold
  BY UniqueImplied DEF OwnersHold, Arena!IInv, Sweep!IInv
<1> QED
  BY <1>1, <1>2, <1>3, PTL DEF MCSpec

(* ArenaGcHeap, GcHeap and PoolAllocator, for every size: a collection     *)
(* frees what no root leads to, in the arena as far as it is at the end,   *)
(* and nothing else, and the pool's destructor destroys what is live.      *)
THEOREM CollectorsExact ==
  ASSUME IsFiniteSet(TwoThreads), ArenaSize \in Nat, MaxObjects \in Nat,
         IsFiniteSet(Addresses), Null \notin Addresses, AllocatorSize \in Nat \ {0}
  PROVE  MCSpec => CollectsExactly
<1> DEFINE I == Arena!IInv /\ Sweep!IInv /\ FreeListed
<1>0. Arena!Sized /\ Sweep!Sized /\ Allocator!Sized
  BY ArenaCardinality, SweepCardinality
     DEF Arena!Sized, Sweep!Sized, Allocator!Sized, Allocator!Slots
<1>1. MCInit => I
  BY <1>0, ArenaInitHolds, SweepInitHolds, AllocatorInitHolds DEF MCInit
<1>2. I /\ [MCNext]_mcVars => /\ I' /\ Arena!PopsDeadTail /\ Sweep!SweepsUnreachable
                              /\ Allocator!DestroysLive
  BY <1>0, OneActs, ArenaInductive, SweepInductive, AllocatorInductive
<1>3. I /\ [MCNext]_mcVars => /\ I' /\ [Arena!PopsDeadTail]_agVars
                              /\ [Sweep!SweepsUnreachable]_msVars
                              /\ [Allocator!DestroysLive]_paVars
  BY <1>2
<1> QED
  BY <1>1, <1>3, PTL DEF MCSpec, CollectsExactly

(* PoolAllocator, for every capacity: the free list holds each slot that   *)
(* is not live, once, so no slot is lost or handed out twice.              *)
THEOREM FreeListWhole ==
  ASSUME AllocatorSize \in Nat \ {0}
  PROVE  MCSpec => []Allocator!FreeListExact
<1>0. Allocator!Sized
  BY DEF Allocator!Sized, Allocator!Slots
<1>1. MCInit => FreeListed
  BY <1>0, AllocatorInitHolds DEF MCInit
<1>2. FreeListed /\ [MCNext]_mcVars => FreeListed'
  BY <1>0, OneActs, AllocatorInductive
<1>3. FreeListed => Allocator!FreeListExact
  BY <1>0, AllocatorImplied
<1> QED
  BY <1>1, <1>2, <1>3, PTL DEF MCSpec

(* MarketDataFeed and TimerWheel, for any publishers and symbols and any   *)
(* number of observers, events, timers and ticks: an event calls every     *)
(* observer that stays, once and in the order of subscription, and none of *)
(* another symbol; a timer fires once at most, by the first tick() that    *)
(* reaches its deadline, and not after cancel().                           *)
THEOREM CallbacksHold ==
  ASSUME MaxObservers \in Nat, MaxEvents \in Nat, MaxTimers \in Nat, MaxTicks \in Nat
  PROVE  MCSpec => []CallbacksOnce
<1> DEFINE I == Feed!IInv /\ Feed!Filtered /\ Wheel!IInv
<1>0. Feed!Sized /\ Wheel!Sized
  BY DEF Feed!Sized, Wheel!Sized
<1>1. MCInit => I
  BY <1>0, FeedInit, FeedFilteredInit, WheelInit DEF MCInit
<1>2. I /\ [MCNext]_mcVars => I'
  BY <1>0, OneActs, FeedInductive, FeedFilters, WheelInductive
<1>3. I => CallbacksOnce
  BY <1>0, FeedImplied, WheelImplied DEF CallbacksOnce
<1> QED
  BY <1>1, <1>2, <1>3, PTL DEF MCSpec

(* OrderBook, MatchingEngine, L2Book and OhlcvAggregator, for any ids, any *)
(* finitely many prices and any quantities, updates and trades: the id     *)
(* index and the price levels hold the same orders, in order of arrival;   *)
(* the engine's book is uncrossed and loses no quantity; the L2 book is in *)
(* step with the market or known not to be; and every candle is that of    *)
(* its trades.                                                             *)
THEOREM MarketHolds ==
  ASSUME BookPrices \in SUBSET Int, IsFiniteSet(BookPrices), BookQtys \in SUBSET Nat,
         EnginePrices \in SUBSET Int, IsFiniteSet(EnginePrices), EngineQtys \in SUBSET Nat,
         BucketMs \in Nat \ {0}, TradeTimes \in SUBSET Nat, TradeQtys \in SUBSET Nat,
         TradePrices \in SUBSET Int, IsFiniteSet(TradePrices)
  PROVE  MCSpec => []MarketViewsExact
<1> DEFINE I == Book!IInv /\ Engine!IInv /\ Depth!IInv /\ Candles!IInv
<1>0. Book!Sized /\ Engine!Sized /\ Candles!Sized
  BY BookCardinality, EngineCardinality, CandleCardinality DEF Book!Sized, Engine!Sized, Candles!Sized
<1>1. MCInit => I
  BY <1>0, BookInit, EngineInit, DepthInit, CandlesInit DEF MCInit
<1>2. I /\ [MCNext]_mcVars => I'
  BY <1>0, OneActs, BookInductive, EngineInductive, DepthInductive, CandlesInductive
<1>3. I => MarketViewsExact
  BY <1>0, BookImplied, EngineImplied, CandlesImplied DEF MarketViewsExact, Depth!IInv
<1> QED
  BY <1>1, <1>2, <1>3, PTL DEF MCSpec

(* HashMap, LruCache and PoolAllocator, for any keys and values and every  *)
(* capacity: no walk to a key meets an empty slot, across erasure and      *)
(* growth; the cache holds the keys used last; and the free list holds     *)
(* each slot that is not live, once.                                       *)
THEOREM ContainersHold ==
  ASSUME MapKeys \in SUBSET Nat, InitialCapacity \in Nat \ {0}, MaxCapacity \in Nat, kEmpty # kTombstone,
         kEmpty \notin MapKeys \X MapValues, kTombstone \notin MapKeys \X MapValues,
         CacheSize \in Nat \ {0}, NoNode \notin Lru!Nodes, AllocatorSize \in Nat \ {0}
  PROVE  MCSpec => []ContainersExact
<1> DEFINE I == Map!IInv /\ Lru!IInv /\ FreeListed
<1>0. Map!Sized /\ Lru!Sized /\ Allocator!Sized
  BY DEF Map!Sized, Lru!Sized, Allocator!Sized, Allocator!Slots
<1>1. MCInit => I
  BY <1>0, MapInit, LruInit, AllocatorInitHolds DEF MCInit
<1>2. I /\ [MCNext]_mcVars => I'
  BY <1>0, OneActs, MapInductive, LruInductive, AllocatorInductive
<1>3. I => ContainersExact
  BY <1>0, MapImplied, LruImplied, AllocatorImplied DEF ContainersExact
<1> QED
  BY <1>1, <1>2, <1>3, PTL DEF MCSpec

(* HashMap, likewise: what find() tells starts empty and changes as a map  *)
(* does, by one key set or dropped or by all dropped.                      *)
THEOREM MapRefines ==
  ASSUME MapKeys \in SUBSET Nat, InitialCapacity \in Nat \ {0}, MaxCapacity \in Nat, kEmpty # kTombstone,
         kEmpty \notin MapKeys \X MapValues, kTombstone \notin MapKeys \X MapValues
  PROVE  MCSpec => HashMapIsMap
<1>0. Map!Sized
  BY DEF Map!Sized
<1>1. MCInit => Map!IInv /\ DOMAIN Map!Found = {}
  BY <1>0, MapInit, MapStartsEmpty DEF MCInit
<1>2. Map!IInv /\ [MCNext]_mcVars => Map!IInv'
  BY <1>0, OneActs, MapInductive
<1>3. Map!IInv /\ [MCNext]_mcVars =>
        [\/ DOMAIN Map!Found' = {}
         \/ \E k \in MapKeys : Map!Drop(k) \/ \E v \in MapValues : Map!Put(k, v)]_(Map!Found)
  BY <1>0, OneActs, MapSteps
<1> QED
  BY <1>1, <1>2, <1>3, PTL DEF MCSpec, HashMapIsMap, Map!IsMap

\* What holds of the pool, used by one thread or by two with one handle each.
PoolInv ==
  /\ active = "alone" => Shared!IInv(OneThread, HandleIds) /\ Shared!Listed
  /\ active = "single" => Shared!IInv(TwoThreads, OneHandle) /\ Shared!Listed

(* A step of the pool is a step of that use.                               *)
LEMMA PoolActs ==
  ASSUME [MCNext]_mcVars
  PROVE  /\ active = "alone" => active' = "alone" /\ [Shared!Use(OneThread, HandleIds)]_(Shared!vars)
         /\ active = "single" => active' = "single" /\ [Shared!Use(TwoThreads, OneHandle)]_(Shared!vars)
         /\ active' = active
<1>0. active' = active
  BY DEF MCNext, mcVars
<1>1. CASE active = "alone"
  <2>1. Alone!Next \/ UNCHANGED Shared!vars
    BY <1>1 DEF MCNext, mcVars, oVars, Shared!vars, Bounded
  <2>2. Alone!Next => Shared!Use(OneThread, HandleIds)
    BY DEF Alone!Next, Alone!Step, Shared!Use, Shared!Step, Alone!ReadNext, Shared!ReadNext,
       Alone!Pop, Shared!Pop, Alone!PopFails, Shared!PopFails, Alone!StoreNext, Shared!StoreNext,
       Alone!Push, Shared!Push, Alone!PushFails, Shared!PushFails, Alone!Acquire, Shared!Acquire,
       Alone!Detach, Shared!Detach, Alone!Release, Shared!Release, Alone!Move, Shared!Move,
       Alone!Look, Shared!Look, Alone!Goto, Shared!Goto, Alone!Moved, Shared!Moved,
       Alone!nullptr, Shared!nullptr
  <2> QED
    BY <1>0, <1>1, <2>1, <2>2
<1>2. CASE active = "single"
  <2>1. Single!Next \/ UNCHANGED Shared!vars
    BY <1>2 DEF MCNext, mcVars, oVars, Shared!vars, Bounded
  <2>2. Single!Next => Shared!Use(TwoThreads, OneHandle)
    BY DEF Single!Next, Single!Step, Shared!Use, Shared!Step, Single!ReadNext, Shared!ReadNext,
       Single!Pop, Shared!Pop, Single!PopFails, Shared!PopFails, Single!StoreNext, Shared!StoreNext,
       Single!Push, Shared!Push, Single!PushFails, Shared!PushFails, Single!Acquire, Shared!Acquire,
       Single!Detach, Shared!Detach, Single!Release, Shared!Release, Single!Move, Shared!Move,
       Single!Look, Shared!Look, Single!Goto, Shared!Goto, Single!Moved, Shared!Moved,
       Single!nullptr, Shared!nullptr
  <2> QED
    BY <1>0, <1>2, <2>1, <2>2
<1> QED
  BY <1>0, <1>1, <1>2

(* ObjectPool, for any number of slots, one thread with any handles or two *)
(* threads with one handle each: a slot is free, owned by one handle or    *)
(* given away, and live_ counts the owners.  With more the ABA of acquire()*)
(* breaks it.                                                              *)
THEOREM PoolHolds ==
  ASSUME PoolSize \in Nat, IsFiniteSet(TwoThreads), IsFiniteSet(HandleIds), NoHandle \notin HandleIds,
         OneThread \subseteq TwoThreads, OneHandle \subseteq HandleIds,
         \A t, u \in OneThread : t = u, \A t, u, v \in TwoThreads : t = u \/ t = v \/ u = v,
         \A h, g \in OneHandle : h = g
  PROVE  MCSpec => []PoolSlotsSafe
<1>0. Shared!Modest(OneThread, HandleIds) /\ Shared!Modest(TwoThreads, OneHandle)
  BY SharedCardinality DEF Shared!Modest
<1>1. MCInit => PoolInv
  BY <1>0, Shared!PoolInitHolds DEF MCInit, PoolInv
<1>2. PoolInv /\ [MCNext]_mcVars => PoolInv'
  <2> SUFFICES ASSUME PoolInv, [MCNext]_mcVars PROVE PoolInv'
    OBVIOUS
  <2>1. CASE active = "alone"
    BY <1>0, <2>1, PoolActs, Shared!PoolInductive DEF PoolInv
  <2>2. CASE active = "single"
    BY <1>0, <2>2, PoolActs, Shared!PoolInductive DEF PoolInv
  <2>3. CASE active \notin {"alone", "single"}
    BY <2>3, PoolActs DEF PoolInv
  <2> QED
    BY <2>1, <2>2, <2>3
<1>3. PoolInv => PoolSlotsSafe
  BY <1>0, Shared!PoolImplied DEF PoolInv, PoolSlotsSafe
<1> QED
  BY <1>1, <1>2, <1>3, PTL DEF MCSpec
=============================================================================
