--------------------------- MODULE LibraryProofs ---------------------------
(***************************************************************************)
(* The components of MCLibrary that the proofs below are about, side by    *)
(* side; with MpmcQueue, LockFreeStack, RiskGate and ObjectPool, whose own *)
(* modules hold proofs, they are what MCLibrary's theorems are about,      *)
(* for every size and every set of threads, orders or handles.  The        *)
(* modules of the components define the inductive invariants.              *)
(***************************************************************************)
EXTENDS SpscRingBuffer, FiniteSetTheorems, SequenceTheorems,
        WellFoundedInduction, TLAPS

CONSTANTS
  TwoThreads, OneThread,
  Ids, DedupWindow, Modulus, MaxTime,
  OrderIds, OrderSides, Prices, MaxLog,
  Handles, Objects, Deleters,
  Boxes, Locks, Refs, Muts, MaxLoans, MaxCarried,
  ArenaSize, MaxObjects, Addresses, AllocatorSize,
  MaxQty, MaxPrice, ChainNotional, ChainPrices, ChainQtys, Symbols,
  Burst, Requests,
  PoolSize, HandleIds, OneHandle, NoHandle,
  Null

VARIABLES
  gClock, gSeen, gPc, gNow, gCid, gForwarded, gLast,
  sState, sPc, sFrom, sTo, sFinal,
  cOrders, cLog, cBefore,
  uPtr, uDeleter, uKind, uRaw, uDestroyedBy,
  bgReaders, bgWriter, bgRef, bgMut,
  ltLoans, ltNextId, ltWriter, ltIssued, ltRepaid,
  sbValue, sbReaders, sbLocked, sbRef, sbMut, sbCarried,
  agSlots, agRoots, agGuard, agMade, agStale, agRobbed,
  msLive, msChild, msRoots, msGuard,
  paHead, paLink, paLive, paDestroyed,
  rcHead, rcTail, rcNext, rcUsed, rcAllowed, rcAppended, rcSpent, rcBooked,
    rcVerdict,
  tbTokens, tbLastRefill, tbNow, tbSpent,
  oHead, oNext, oLive, oHandle, oDetached, oPc, oOp, oSlot, oNxt

\* The gateway, and the gateway when one thread feeds it.
Gateway == INSTANCE OrderGateway WITH Threads <- TwoThreads, clock <- gClock,
        seen_ <- gSeen, pc <- gPc, now <- gNow, cid <- gCid,
        forwarded <- gForwarded, last <- gLast
Fed == INSTANCE OrderGateway WITH Threads <- OneThread, clock <- gClock,
        seen_ <- gSeen, pc <- gPc, now <- gNow, cid <- gCid,
        forwarded <- gForwarded, last <- gLast

Machine == INSTANCE OrderStateMachine WITH Threads <- TwoThreads,
        state_ <- sState, pc <- sPc, from <- sFrom, to <- sTo, final <- sFinal

Commands == INSTANCE CommandOrderEntry WITH Ids <- OrderIds,
        Sides <- OrderSides, orders_ <- cOrders, log_ <- cLog,
        before <- cBefore

Unique == INSTANCE UniquePtr WITH ptr_ <- uPtr, deleter_ <- uDeleter,
        kind <- uKind, raw <- uRaw, destroyedBy <- uDestroyedBy

Guarded == INSTANCE BorrowGuards WITH readers_ <- bgReaders,
        writer_ <- bgWriter, ref <- bgRef, mut <- bgMut

Tokens == INSTANCE LoanTokens WITH loans_ <- ltLoans, next_id_ <- ltNextId,
        writer_ <- ltWriter, issued <- ltIssued, repaid <- ltRepaid

Typed == INSTANCE StateBorrow WITH Disciplined <- TRUE, value_ <- sbValue,
        readers_ <- sbReaders, locked <- sbLocked, ref <- sbRef, mut <- sbMut,
        carried <- sbCarried

Arena == INSTANCE ArenaGc WITH capacity_ <- ArenaSize, Guards <- TwoThreads,
        slots_ <- agSlots, roots_ <- agRoots, guard <- agGuard,
        made <- agMade, stale <- agStale, robbed <- agRobbed

Sweep == INSTANCE MarkSweep WITH Guards <- TwoThreads, live_ <- msLive, child <- msChild, roots_ <- msRoots, guard <- msGuard

Allocator == INSTANCE PoolAllocator WITH capacity_ <- AllocatorSize,
        kSentinel <- 0 - 1, Overwritten <- 0 - 2, head_ <- paHead, link <- paLink, live <- paLive,
        destroyed <- paDestroyed

Chain == INSTANCE RiskChain WITH max_qty_ <- MaxQty, max_price_ <- MaxPrice,
        max_notional_ <- ChainNotional, Prices <- ChainPrices,
        Qtys <- ChainQtys, head_ <- rcHead, tail_ <- rcTail, next_ <- rcNext, used_ <- rcUsed,
        allowed_ <- rcAllowed, appended <- rcAppended, spent <- rcSpent,
        booked <- rcBooked, verdict <- rcVerdict

Bucket == INSTANCE TokenBucket WITH burst_ <- Burst, tokens_ <- tbTokens,
        last_refill_ <- tbLastRefill, now_ <- tbNow, spent <- tbSpent

-----------------------------------------------------------------------------
(* SpscRingBuffer *)

(* Counter values less than N apart have different slots.                  *)
LEMMA IndexInjective ==
  ASSUME NEW i \in Nat, NEW j \in Nat, i < j, j - i < N
  PROVE  Index(i) # Index(j)
<1>1. i = N * (i \div N) + (i % N) /\ j = N * (j \div N) + (j % N)
  BY SizeAssumption
<1> DEFINE a == i \div N  b == j \div N
<1>2. a \in Int /\ b \in Int
  BY SizeAssumption
<1> HIDE DEF a, b
<1>3. CASE i % N = j % N
  <2>1. j - i = N * (b - a)
    BY <1>1, <1>2, <1>3, SizeAssumption DEF a, b
  <2>2. b - a >= 1 \/ b - a <= 0
    BY <1>2
  <2> QED BY <2>1, <2>2, <1>2, SizeAssumption
<1> QED BY <1>3 DEF Index

(* A slot number is an index of buffer_.                                   *)
LEMMA IndexInRange == \A i \in Nat : Index(i) \in 0 .. N - 1
  BY SizeAssumption DEF Index

(* Every step keeps the types.                                             *)
LEMMA TypeStep == TypeOK /\ [Next]_vars => TypeOK'
<1> SUFFICES ASSUME TypeOK, [Next]_vars PROVE TypeOK'
  OBVIOUS
<1> USE DEF TypeOK
<1>1. CASE UNCHANGED vars
  BY <1>1 DEF vars
<1>2. ASSUME NEW v \in Values, PushCall(v) PROVE TypeOK'
  BY <1>2 DEF PushCall
<1>3. CASE PushLoadHead \/ PushPublish
  <2>1. tail_' \in Nat /\ ppc' \in {"idle", "head", "write", "publish"}
    BY <1>3 DEF PushLoadHead, PushPublish
  <2> QED BY <1>3, <2>1 DEF PushLoadHead, PushPublish
<1>4. CASE PushWrite
  BY <1>4, IndexInRange DEF PushWrite
<1>6. CASE PopLoadTail \/ PopRetire
  <2>1. head_' \in Nat /\ cpc' \in {"idle", "read", "retire"}
    BY <1>6 DEF PopLoadTail, PopRetire
  <2> QED BY <1>6, <2>1 DEF PopLoadTail, PopRetire
<1>7. CASE PopRead
  BY <1>7, IndexInRange DEF PopRead
<1>5. ASSUME NEW r \in {"producer", "consumer"},
             PeekHead(r) \/ PeekTail(r) \/ PeekDone(r)
      PROVE  TypeOK'
  BY <1>5 DEF PeekHead, PeekTail, PeekDone, NoPeek
<1> QED BY <1>1, <1>2, <1>3, <1>4, <1>5, <1>6, <1>7 DEF Next, PushStep, PopStep

(* The steps of the producer keep the invariant.                           *)
LEMMA PushKeeps ==
  ASSUME IInv, PushStep \/ (\E v \in Values : PushCall(v)), TypeOK'
  PROVE  IInv'
<1> USE SizeAssumption DEF IInv, kCapacity
<1>1. Window'
  <2>1. head_ \in Nat /\ tail_ \in Nat
    BY DEF TypeOK
  <2>2. CASE PushLoadHead
    BY <2>1, <2>2 DEF PushLoadHead, Window
  <2>3. CASE PushWrite \/ PushPublish \/ \E v \in Values : PushCall(v)
    BY <2>1, <2>3 DEF PushCall, PushWrite, PushPublish, Window
  <2> QED BY <2>2, <2>3 DEF PushStep
<1>2. Payload'
  <2>1. CASE PushWrite
    <3>1. cpc = "retire" => Index(head_) # Index(tail_)
      BY IndexInjective DEF Window, TypeOK, PushWrite
    <3> QED BY <2>1, <3>1, IndexInRange DEF PushWrite, Payload, TypeOK
  <2>2. CASE PushLoadHead \/ PushPublish \/ \E v \in Values : PushCall(v)
    BY <2>2 DEF PushLoadHead, PushPublish, PushCall, Payload, TypeOK
  <2> QED BY <2>1, <2>2 DEF PushStep
<1>3. Peeks'
  BY DEF PushStep, PushCall, PushLoadHead, PushWrite, PushPublish, Peeks,
     Window, TypeOK, NoPeek
<1> QED BY <1>1, <1>2, <1>3

(* The steps of the consumer keep the invariant.                           *)
LEMMA PopKeeps ==
  ASSUME IInv, PopStep, TypeOK'
  PROVE  IInv'
<1> USE SizeAssumption DEF IInv, kCapacity
<1>1. Window'
  <2>1. head_ \in Nat /\ tail_ \in Nat
    BY DEF TypeOK
  <2>2. CASE PopLoadTail \/ PopRead
    BY <2>1, <2>2 DEF PopLoadTail, PopRead, Window
  <2>3. CASE PopRetire
    BY <2>1, <2>3 DEF PopRetire, Window
  <2> QED BY <2>2, <2>3 DEF PopStep
<1>2. Payload'
  BY DEF PopStep, PopLoadTail, PopRead, PopRetire, Payload, TypeOK
<1>3. Peeks'
  BY DEF PopStep, PopLoadTail, PopRead, PopRetire, Peeks, Window, TypeOK, NoPeek
<1> QED BY <1>1, <1>2, <1>3

(* size() keeps the invariant.                                             *)
LEMMA PeekKeeps ==
  ASSUME IInv, TypeOK', NEW r \in {"producer", "consumer"},
         PeekHead(r) \/ PeekTail(r) \/ PeekDone(r)
  PROVE  IInv'
<1> USE SizeAssumption DEF IInv, kCapacity
<1>1. Window' /\ Payload'
  BY DEF PeekHead, PeekTail, PeekDone, Window, Payload
<1>2. Peeks'
  BY DEF PeekHead, PeekTail, PeekDone, Idle, Peeks, Window, TypeOK, NoPeek
<1> QED BY <1>1, <1>2

(* The invariant is inductive.                                             *)
THEOREM Invariance == Spec => []IInv
<1>1. Init => IInv
  BY SizeAssumption DEF Init, IInv, TypeOK, Window, Payload, Peeks, NoPeek,
     kCapacity
<1>2. IInv /\ [Next]_vars => IInv'
  <2> SUFFICES ASSUME IInv, [Next]_vars PROVE IInv'
    OBVIOUS
  <2>1. TypeOK'
    BY TypeStep DEF IInv
  <2>2. CASE UNCHANGED vars
    BY <2>2 DEF vars, IInv, TypeOK, Window, Payload, Peeks
  <2>3. CASE Next
    BY <2>1, <2>3, PushKeeps, PopKeeps, PeekKeeps DEF Next
  <2> QED BY <2>2, <2>3
<1> QED BY <1>1, <1>2, PTL DEF Spec

(* The plain accesses to buffer_ never race.                               *)
THEOREM NoRace == Spec => []SlotsDisjoint
<1>1. IInv => SlotsDisjoint
  BY IndexInjective, SizeAssumption
     DEF IInv, TypeOK, Window, SlotsDisjoint, kCapacity
<1> QED BY <1>1, Invariance, PTL

(* size() of the producer or the consumer never underflows.                *)
THEOREM SizeSafe == Spec => []SizeInRange
<1>1. IInv => SizeInRange
  BY SizeAssumption DEF IInv, TypeOK, Window, Peeks, SizeInRange, kCapacity
<1> QED BY <1>1, Invariance, PTL

(* The queue is a sequence of one value per published, unretired counter.  *)
ContentsShape ==
  /\ Contents \in Seq(Values \cup {NoValue})
  /\ Len(Contents) = tail_ - head_
  /\ \A i \in 1 .. tail_ - head_ : Contents[i] = buffer_[Index(head_ + i - 1)]

LEMMA ContentsType == IInv => ContentsShape
<1> SUFFICES ASSUME IInv PROVE ContentsShape
  OBVIOUS
<1>1. head_ \in Nat /\ tail_ - head_ \in Nat
  BY DEF IInv, TypeOK, Window
<1>2. ASSUME NEW i \in 1 .. tail_ - head_
      PROVE  buffer_[Index(head_ + i - 1)] \in Values \cup {NoValue}
  <2>1. head_ + i - 1 \in Nat
    BY <1>1
  <2> QED BY <2>1, IndexInRange DEF IInv, TypeOK
<1> QED BY <1>1, <1>2 DEF Contents, ContentsShape

(* Writing the free slot behind the tail leaves the queue as it was.       *)
LEMMA WriteHidden ==
  ASSUME IInv, PushWrite PROVE UNCHANGED Contents
<1>1. head_ \in Nat /\ tail_ \in Nat /\ tail_ - head_ < N - 1 /\ head_ <= tail_
  BY SizeAssumption DEF IInv, TypeOK, Window, PushWrite, kCapacity
<1>2. ASSUME NEW i \in 1 .. tail_ - head_
      PROVE  buffer_'[Index(head_ + i - 1)] = buffer_[Index(head_ + i - 1)]
  <2>1. Index(head_ + i - 1) # Index(tail_)
    <3>1. /\ head_ + i - 1 \in Nat /\ head_ + i - 1 < tail_
          /\ tail_ - (head_ + i - 1) < N
      BY <1>1, SizeAssumption
    <3> QED BY <1>1, <3>1, IndexInjective
  <2> QED BY <2>1 DEF PushWrite, IInv, TypeOK
<1> QED BY <1>1, <1>2 DEF Contents, PushWrite

(* Publishing appends the pushed value to a queue that had room for it.    *)
LEMMA PublishPuts ==
  ASSUME IInv, IInv', PushPublish PROVE item \in Values /\ Fifo!Put(item)
<1> DEFINE n == tail_ - head_  S == Values \cup {NoValue}
<1>1. /\ head_ \in Nat /\ n \in Nat /\ n < kCapacity
      /\ tail_' - head_' = n + 1 /\ head_' = head_ /\ buffer_' = buffer_
      /\ item \in Values /\ buffer_[Index(head_ + (n + 1) - 1)] = item
  BY DEF IInv, TypeOK, Window, Payload, PushPublish
<1>2. /\ Contents \in Seq(S) /\ Len(Contents) = n
      /\ \A i \in 1 .. n : Contents[i] = buffer_[Index(head_ + i - 1)]
  BY ContentsType DEF ContentsShape
<1>3. /\ Contents' \in Seq(S) /\ Len(Contents') = n + 1
      /\ \A i \in 1 .. n + 1 : Contents'[i] = buffer_[Index(head_ + i - 1)]
  <2>1. ContentsShape'
    BY ContentsType, PTL
  <2> QED BY <1>1, <2>1 DEF ContentsShape
<1> HIDE DEF n, S
<1>4. Contents' = Append(Contents, item)
  <2>1. item \in S
    BY <1>1 DEF S
  <2>2. /\ Append(Contents, item) \in Seq(S)
        /\ Len(Append(Contents, item)) = n + 1
        /\ \A i \in 1 .. n : Append(Contents, item)[i] = Contents[i]
        /\ Append(Contents, item)[n + 1] = item
    BY <1>2, <2>1, AppendProperties
  <2>3. \A i \in 1 .. n + 1 : Contents'[i] = Append(Contents, item)[i]
    BY <1>1, <1>2, <1>3, <2>2
  <2> QED BY <1>3, <2>2, <2>3, SeqEqual
<1> QED BY <1>1, <1>2, <1>4 DEF Fifo!Put, PushPublish

(* Retiring removes the oldest value and delivers it.                      *)
LEMMA RetireGets ==
  ASSUME IInv, IInv', PopRetire PROVE Fifo!Get
<1> DEFINE n == tail_ - head_  S == Values \cup {NoValue}
<1>1. /\ head_ \in Nat /\ n \in Nat /\ n >= 1
      /\ tail_' - head_' = n - 1 /\ head_' = head_ + 1 /\ buffer_' = buffer_
      /\ out = buffer_[Index(head_ + 1 - 1)]
  BY DEF IInv, TypeOK, Window, Payload, PopRetire
<1>2. /\ Contents \in Seq(S) /\ Len(Contents) = n
      /\ \A i \in 1 .. n : Contents[i] = buffer_[Index(head_ + i - 1)]
  BY ContentsType DEF ContentsShape
<1>3. /\ Contents' \in Seq(S) /\ Len(Contents') = n - 1
      /\ \A i \in 1 .. n - 1 : Contents'[i] = buffer_[Index(head_ + (i + 1) - 1)]
  <2>1. ContentsShape'
    BY ContentsType, PTL
  <2>2. \A i \in 1 .. n - 1 : head_' + i - 1 = head_ + (i + 1) - 1
    BY <1>1
  <2> QED BY <1>1, <2>1, <2>2 DEF ContentsShape
<1> HIDE DEF n, S
<1>4. Contents # <<>> /\ Contents[1] = out
  BY <1>1, <1>2
<1>5. Contents' = Tail(Contents)
  <2>1. /\ Tail(Contents) \in Seq(S)
        /\ Len(Tail(Contents)) = n - 1
        /\ \A i \in 1 .. n - 1 : Tail(Contents)[i] = Contents[i + 1]
    BY <1>2, <1>4, HeadTailProperties
  <2>2. \A i \in 1 .. n - 1 : Contents'[i] = Tail(Contents)[i]
    <3> TAKE i \in 1 .. n - 1
    <3>1. i + 1 \in 1 .. n
      BY <1>1
    <3> QED BY <1>2, <1>3, <2>1, <3>1
  <2> QED BY <1>3, <2>1, <2>2, SeqEqual
<1>6. Head(Contents) = out
  BY <1>2, <1>4
<1> QED BY <1>4, <1>5, <1>6 DEF Fifo!Get, PopRetire

(* The ring buffer implements a bounded FIFO of N - 1 values: every step   *)
(* is a put, a get or invisible.                                           *)
THEOREM Refinement == Spec => ImplementsFifo
<1>1. Init => Fifo!QInit
  BY DEF Init, Fifo!QInit, Contents
<1>2. IInv /\ IInv' /\ [Next]_vars => [Fifo!QNext]_<<Contents, delivered>>
  <2> SUFFICES ASSUME IInv, IInv', [Next]_vars
               PROVE  [Fifo!QNext]_<<Contents, delivered>>
    OBVIOUS
  <2>1. CASE PushPublish
    BY <2>1, PublishPuts DEF Fifo!QNext
  <2>2. CASE PopRetire
    BY <2>2, RetireGets DEF Fifo!QNext
  <2>3. CASE PushWrite
    BY <2>3, WriteHidden DEF PushWrite
  <2>4. CASE UNCHANGED <<head_, tail_, buffer_, delivered>>
    BY <2>4 DEF Contents
  <2>5. \/ PushPublish \/ PopRetire \/ PushWrite
        \/ UNCHANGED <<head_, tail_, buffer_, delivered>>
    BY DEF Next, vars, PushStep, PopStep, PushCall, PushLoadHead, PopLoadTail,
       PopRead, PeekHead, PeekTail, PeekDone
  <2> QED BY <2>1, <2>2, <2>3, <2>4, <2>5
<1> QED BY <1>1, <1>2, Invariance, PTL DEF Spec, ImplementsFifo, Fifo!QSpec

-----------------------------------------------------------------------------
(* OrderStateMachine *)

(* Machine's Cardinality is the one that the theorems on finite sets are   *)
(* about.                                                                  *)
LEMMA MachineCardinality == ASSUME NEW S PROVE Machine!Cardinality(S) = Cardinality(S)
BY DEF Machine!Cardinality, Cardinality

(* A load of the state followed by the look-up keeps Machine!IInv.         *)
LEMMA MachineLookKeeps ==
  ASSUME Machine!IInv, NEW t \in TwoThreads, NEW target \in Machine!OrderState, Machine!Look(t, target)
  PROVE  Machine!IInv'
BY DEF Machine!IInv, Machine!TypeOK, Machine!Look

(* transition() keeps Machine!IInv; the CAS does so because it compares    *)
(* with the very state that was looked up.                                 *)
LEMMA MachineInductive == Machine!IInv /\ [Machine!Next]_Machine!vars => Machine!IInv'
<1> SUFFICES ASSUME Machine!IInv, [Machine!Next]_Machine!vars PROVE Machine!IInv'
  OBVIOUS
<1>1. ASSUME NEW t \in TwoThreads, Machine!Commit(t) PROVE Machine!IInv'
  <2>1. sState \notin Machine!Terminal /\ sFinal = {}
    BY <1>1 DEF Machine!IInv, Machine!Commit, Machine!legal
  <2>2. Machine!TypeOK'
    BY <1>1 DEF Machine!IInv, Machine!TypeOK, Machine!Commit
  <2>3. \A u \in TwoThreads : sPc'[u] = "cas" => Machine!legal(sFrom'[u], sTo'[u])
    BY <1>1 DEF Machine!IInv, Machine!TypeOK, Machine!Commit
  <2>4. (\A u, v \in sFinal' : u = v) /\ (sFinal' # {} => sState' \in Machine!Terminal)
    BY <1>1, <2>1 DEF Machine!Commit
  <2> QED
    BY <2>2, <2>3, <2>4 DEF Machine!IInv, Machine!legal
<1>2. ASSUME NEW t \in TwoThreads, Machine!Retry(t) PROVE Machine!IInv'
  BY <1>2, MachineLookKeeps DEF Machine!Retry, Machine!IInv, Machine!TypeOK
<1>3. ASSUME NEW t \in TwoThreads, NEW target \in Machine!OrderState, Machine!Call(t, target) PROVE Machine!IInv'
  BY <1>3, MachineLookKeeps DEF Machine!Call
<1>4. CASE UNCHANGED Machine!vars
  BY <1>4 DEF Machine!vars, Machine!IInv, Machine!TypeOK, Machine!legal
<1> QED
  BY <1>1, <1>2, <1>3, <1>4 DEF Machine!Next

(* A new order.                                                            *)
LEMMA MachineInitHolds == Machine!Init => Machine!IInv
BY DEF Machine!Init, Machine!IInv, Machine!TypeOK, Machine!OrderState

(* Of threads of which no two are different there is one at most.          *)
LEMMA MachineEndsImplied == Machine!IInv => Machine!EndsOnce
<1> SUFFICES ASSUME Machine!IInv PROVE Machine!EndsOnce
  OBVIOUS
<1>1. CASE sFinal = {}
  BY <1>1, MachineCardinality, FS_EmptySet DEF Machine!EndsOnce
<1>2. CASE sFinal # {}
  <2>1. PICK t \in sFinal : TRUE
    BY <1>2
  <2>2. sFinal = {t}
    BY <2>1 DEF Machine!IInv
  <2>3. Machine!Cardinality(sFinal) = 1
    BY <2>2, MachineCardinality, FS_Singleton
  <2> QED
    BY <2>3 DEF Machine!IInv, Machine!EndsOnce
<1> QED
  BY <1>1, <1>2

(* The state moves along edges of the table only, since the CAS compares   *)
(* with the state that was looked up.                                      *)
LEMMA MachineStepsLegal ==
  Machine!IInv /\ [Machine!Next]_Machine!vars => [sState' = sState \/ Machine!legal(sState, sState')]_Machine!vars
BY DEF Machine!IInv, Machine!Next, Machine!Commit, Machine!Retry, Machine!Call, Machine!Look, Machine!vars

-----------------------------------------------------------------------------
(* BorrowGuards *)

(* Guarded's Cardinality is the one that the theorems on finite sets are   *)
(* about.                                                                  *)
LEMMA GuardsCardinality == ASSUME NEW S PROVE Guarded!Cardinality(S) = Cardinality(S)
BY DEF Guarded!Cardinality, Cardinality

(* Readers of a box when guard r changes hands: it is counted where it     *)
(* goes and no longer where it was.                                        *)
LEMMA GuardsRecount ==
  ASSUME IsFiniteSet(Refs), NEW S \in SUBSET Refs, NEW r \in Refs
  PROVE  /\ Guarded!Cardinality(S) \in Nat
         /\ r \notin S => Guarded!Cardinality(S \cup {r}) = Guarded!Cardinality(S) + 1
         /\ r \in S => Guarded!Cardinality(S \ {r}) = Guarded!Cardinality(S) - 1
BY GuardsCardinality, FS_Subset, FS_AddElement, FS_RemoveElement, FS_CardinalityType

(* A step of a BorrowRef keeps Guarded!IInv if it leaves each box with the *)
(* count of its readers and reads nothing that is written.                 *)
LEMMA GuardsRefsKeep ==
  ASSUME Guarded!IInv, Guarded!TypeOK', UNCHANGED <<bgWriter, bgMut>>,
         \A b \in Boxes : bgReaders'[b] = Guarded!Cardinality(Guarded!Readers(b)'),
         \A b \in Boxes : bgWriter[b] => Guarded!Readers(b)' = {}
  PROVE  Guarded!IInv'
BY DEF Guarded!IInv, Guarded!SharedXorMutable, Guarded!Counted, Guarded!Writers

(* The same of a BorrowMut: the flag of each box says whether it has one,  *)
(* never two, and a box with readers has none.                             *)
LEMMA GuardsMutsKeep ==
  ASSUME Guarded!IInv, Guarded!TypeOK', UNCHANGED <<bgReaders, bgRef>>,
         \A b \in Boxes : bgWriter'[b] <=> Guarded!Writers(b)' # {},
         \A b \in Boxes : \A m \in Guarded!Writers(b)' : Guarded!Writers(b)' = {m} /\ Guarded!Readers(b) = {}
  PROVE  Guarded!IInv'
BY DEF Guarded!IInv, Guarded!SharedXorMutable, Guarded!Counted, Guarded!Readers

(* What each box counts, for the steps of BorrowRefs.                      *)
LEMMA GuardsReadersCounted ==
  ASSUME Guarded!IInv
  PROVE  \A b \in Boxes : /\ Guarded!Readers(b) \in SUBSET Refs
                          /\ bgReaders[b] = Guarded!Cardinality(Guarded!Readers(b)) /\ bgReaders[b] \in Nat
                          /\ \A r \in Refs : r \in Guarded!Readers(b) <=> bgRef[r] = b
BY DEF Guarded!IInv, Guarded!TypeOK, Guarded!SharedXorMutable, Guarded!Counted, Guarded!Readers

(* BorrowRef::~BorrowRef: the box forgets the guard.                       *)
LEMMA GuardsDropRefKeeps ==
  ASSUME Guarded!IInv, IsFiniteSet(Refs), Null \notin Boxes, NEW r \in Refs, Guarded!DropRef(r)
  PROVE  Guarded!IInv'
<1>1. \A b \in Boxes : Guarded!Readers(b)' = Guarded!Readers(b) \ {r}
  BY DEF Guarded!DropRef, Guarded!Readers, Guarded!IInv, Guarded!TypeOK
<1>2. \A b \in Boxes : bgReaders'[b] = IF bgRef[r] = b THEN bgReaders[b] - 1 ELSE bgReaders[b]
  BY DEF Guarded!DropRef, Guarded!ReleaseShared, Guarded!IInv, Guarded!TypeOK
<1>3. \A b \in Boxes : bgReaders'[b] = Guarded!Cardinality(Guarded!Readers(b)')
  <2> SUFFICES ASSUME NEW b \in Boxes PROVE bgReaders'[b] = Guarded!Cardinality(Guarded!Readers(b)')
    OBVIOUS
  <2>1. CASE r \in Guarded!Readers(b)
    BY <2>1, <1>1, <1>2, GuardsReadersCounted, GuardsRecount
  <2>2. CASE r \notin Guarded!Readers(b)
    <3>1. Guarded!Readers(b)' = Guarded!Readers(b)
      BY <2>2, <1>1
    <3> QED
      BY <2>2, <3>1, <1>2, GuardsReadersCounted
  <2> QED
    BY <2>1, <2>2
<1>4. Guarded!TypeOK'
  <2>1. \A b \in Boxes : Guarded!Readers(b)' \in SUBSET Refs
    BY <1>1, GuardsReadersCounted
  <2>2. \A b \in Boxes : bgReaders'[b] \in Nat
    BY <1>3, <2>1, GuardsRecount
  <2> QED
    BY <2>2 DEF Guarded!DropRef, Guarded!ReleaseShared, Guarded!IInv, Guarded!TypeOK
<1>5. \A b \in Boxes : bgWriter[b] => Guarded!Readers(b)' = {}
  BY <1>1 DEF Guarded!IInv, Guarded!SharedXorMutable, Guarded!Counted
<1> QED
  BY <1>3, <1>4, <1>5, GuardsRefsKeep DEF Guarded!DropRef

(* Move assignment of BorrowRefs: r lets go of its box and takes over s's. *)
LEMMA GuardsMoveRefKeeps ==
  ASSUME Guarded!IInv, IsFiniteSet(Refs), Null \notin Boxes,
         NEW r \in Refs, NEW s \in Refs, Guarded!MoveRef(r, s)
  PROVE  Guarded!IInv'
<1>1. \A b \in Boxes : Guarded!Readers(b)' = IF bgRef[s] = b THEN (Guarded!Readers(b) \ {s}) \cup {r}
                                                             ELSE Guarded!Readers(b) \ {r}
  BY DEF Guarded!MoveRef, Guarded!Readers, Guarded!IInv, Guarded!TypeOK
<1>2. \A b \in Boxes : bgReaders'[b] = IF bgRef[r] = b THEN bgReaders[b] - 1 ELSE bgReaders[b]
  BY DEF Guarded!MoveRef, Guarded!ReleaseShared, Guarded!IInv, Guarded!TypeOK
<1>3. \A b \in Boxes : bgReaders'[b] = Guarded!Cardinality(Guarded!Readers(b)')
  <2> SUFFICES ASSUME NEW b \in Boxes PROVE bgReaders'[b] = Guarded!Cardinality(Guarded!Readers(b)')
    OBVIOUS
  <2> DEFINE R == Guarded!Readers(b)
  <2>0. R \in SUBSET Refs /\ R \ {s} \in SUBSET Refs /\ bgReaders[b] = Guarded!Cardinality(R)
        /\ bgReaders[b] \in Nat /\ (r \in R <=> bgRef[r] = b) /\ (s \in R <=> bgRef[s] = b)
    BY GuardsReadersCounted
  <2>1. CASE s \in R /\ r \in R
    <3>1. Guarded!Readers(b)' = R \ {s}
      BY <2>0, <2>1, <1>1 DEF Guarded!MoveRef
    <3> QED
      BY <3>1, <2>0, <2>1, <1>2, GuardsRecount
  <2>2. CASE s \in R /\ r \notin R
    <3>1. Guarded!Readers(b)' = (R \ {s}) \cup {r} /\ r \notin R \ {s}
      BY <2>0, <2>2, <1>1
    <3>2. Guarded!Cardinality(R \ {s}) = Guarded!Cardinality(R) - 1
      BY <2>0, <2>2, GuardsRecount
    <3>3. Guarded!Cardinality((R \ {s}) \cup {r}) = Guarded!Cardinality(R \ {s}) + 1
      BY <2>0, <3>1, GuardsRecount
    <3> HIDE DEF R
    <3> QED
      BY <3>1, <3>2, <3>3, <2>0, <2>2, <1>2
  <2>3. CASE s \notin R /\ r \in R
    <3>1. Guarded!Readers(b)' = R \ {r}
      BY <2>0, <2>3, <1>1
    <3> QED
      BY <3>1, <2>0, <2>3, <1>2, GuardsRecount
  <2>4. CASE s \notin R /\ r \notin R
    <3>1. Guarded!Readers(b)' = R
      BY <2>0, <2>4, <1>1
    <3> QED
      BY <3>1, <2>0, <2>4, <1>2
  <2> QED
    BY <2>1, <2>2, <2>3, <2>4
<1>4. Guarded!TypeOK'
  <2>1. \A b \in Boxes : Guarded!Readers(b)' \in SUBSET Refs
    BY <1>1, GuardsReadersCounted
  <2>2. \A b \in Boxes : bgReaders'[b] \in Nat
    BY <1>3, <2>1, GuardsRecount
  <2> QED
    BY <2>2 DEF Guarded!MoveRef, Guarded!ReleaseShared, Guarded!IInv, Guarded!TypeOK
<1>5. \A b \in Boxes : bgWriter[b] => Guarded!Readers(b)' = {}
  BY <1>1, GuardsReadersCounted DEF Guarded!IInv, Guarded!SharedXorMutable, Guarded!Counted
<1> QED
  BY <1>3, <1>4, <1>5, GuardsRefsKeep DEF Guarded!MoveRef

(* try_borrow(): the box counts the new guard before the variable it is    *)
(* moved into lets go of its old box, which may be the same one.           *)
LEMMA GuardsTryBorrowKeeps ==
  ASSUME Guarded!IInv, IsFiniteSet(Refs), Null \notin Boxes,
         NEW r \in Refs, NEW c \in Boxes, Guarded!TryBorrow(r, c)
  PROVE  Guarded!IInv'
<1>1. \A b \in Boxes : Guarded!Readers(b)' = IF b = c THEN Guarded!Readers(b) \cup {r} ELSE Guarded!Readers(b) \ {r}
  BY DEF Guarded!TryBorrow, Guarded!Readers, Guarded!IInv, Guarded!TypeOK
<1>2. \A b \in Boxes :
        bgReaders'[b] = (IF b = c THEN bgReaders[b] + 1 ELSE bgReaders[b])
                        - (IF bgRef[r] = b THEN 1 ELSE 0)
  BY DEF Guarded!TryBorrow, Guarded!ReleaseShared, Guarded!IInv, Guarded!TypeOK
<1>3. \A b \in Boxes : bgReaders'[b] = Guarded!Cardinality(Guarded!Readers(b)')
  <2> SUFFICES ASSUME NEW b \in Boxes PROVE bgReaders'[b] = Guarded!Cardinality(Guarded!Readers(b)')
    OBVIOUS
  <2> DEFINE R == Guarded!Readers(b)
  <2>0. R \in SUBSET Refs /\ bgReaders[b] = Guarded!Cardinality(R)
        /\ bgReaders[b] \in Nat /\ (r \in R <=> bgRef[r] = b)
    BY GuardsReadersCounted
  <2>1. CASE (b = c) = (r \in R)
    <3>1. Guarded!Readers(b)' = R
      BY <2>0, <2>1, <1>1
    <3> QED
      BY <3>1, <2>0, <2>1, <1>2
  <2>2. CASE b = c /\ r \notin R
    BY <2>0, <2>2, <1>1, <1>2, GuardsRecount
  <2>3. CASE b # c /\ r \in R
    BY <2>0, <2>3, <1>1, <1>2, GuardsRecount
  <2> QED
    BY <2>1, <2>2, <2>3
<1>4. Guarded!TypeOK'
  <2>1. \A b \in Boxes : Guarded!Readers(b)' \in SUBSET Refs
    BY <1>1, GuardsReadersCounted
  <2>2. \A b \in Boxes : bgReaders'[b] \in Nat
    BY <1>3, <2>1, GuardsRecount
  <2> QED
    BY <2>2 DEF Guarded!TryBorrow, Guarded!ReleaseShared, Guarded!IInv, Guarded!TypeOK
<1>5. \A b \in Boxes : bgWriter[b] => Guarded!Readers(b)' = {}
  BY <1>1 DEF Guarded!TryBorrow, Guarded!IInv, Guarded!SharedXorMutable, Guarded!Counted
<1> QED
  BY <1>3, <1>4, <1>5, GuardsRefsKeep DEF Guarded!TryBorrow

(* The steps of BorrowMuts.                                                *)
LEMMA GuardsMutOpsKeep ==
  ASSUME Guarded!IInv, IsFiniteSet(Refs), Null \notin Boxes, NEW m \in Muts, Guarded!MutOps(m)
  PROVE  Guarded!IInv'
<1>0. \A b \in Boxes : bgWriter[b] \/ bgReaders[b] # 0 \/ (Guarded!Writers(b) = {} /\ Guarded!Readers(b) = {})
  <2>1. \A b \in Boxes : IsFiniteSet(Guarded!Readers(b))
    BY GuardsCardinality, FS_Subset DEF Guarded!Readers
  <2> QED
    BY <2>1, GuardsCardinality, FS_EmptySet DEF Guarded!IInv, Guarded!SharedXorMutable, Guarded!Counted
<1>1. CASE Guarded!DropMut(m)
  <2>1. Guarded!TypeOK'
    BY <1>1 DEF Guarded!DropMut, Guarded!ReleaseMut, Guarded!IInv, Guarded!TypeOK
  <2>2. \A b \in Boxes : Guarded!Writers(b)' = Guarded!Writers(b) \ {m}
    BY <1>1 DEF Guarded!DropMut, Guarded!Writers, Guarded!IInv, Guarded!TypeOK
  <2>3. \A b \in Boxes : bgWriter'[b] <=> (bgWriter[b] /\ bgMut[m] # b)
    BY <1>1 DEF Guarded!DropMut, Guarded!ReleaseMut, Guarded!IInv, Guarded!TypeOK
  <2>4. \A b \in Boxes : m \in Guarded!Writers(b) <=> bgMut[m] = b
    BY DEF Guarded!Writers
  <2>5. \A b \in Boxes : bgWriter'[b] <=> Guarded!Writers(b)' # {}
    BY <2>2, <2>3, <2>4 DEF Guarded!IInv, Guarded!SharedXorMutable, Guarded!Counted
  <2>6. \A b \in Boxes : \A n \in Guarded!Writers(b)' : Guarded!Writers(b)' = {n} /\ Guarded!Readers(b) = {}
    BY <2>2 DEF Guarded!IInv, Guarded!SharedXorMutable
  <2> QED
    BY <1>1, <2>1, <2>5, <2>6, GuardsMutsKeep DEF Guarded!DropMut
<1>2. ASSUME NEW n \in Muts, Guarded!MoveMut(m, n) PROVE Guarded!IInv'
  <2>1. Guarded!TypeOK'
    BY <1>2 DEF Guarded!MoveMut, Guarded!ReleaseMut, Guarded!IInv, Guarded!TypeOK
  <2>2. \A b \in Boxes : Guarded!Writers(b)' = IF bgMut[n] = b THEN (Guarded!Writers(b) \ {n}) \cup {m}
                                                               ELSE Guarded!Writers(b) \ {m}
    BY <1>2 DEF Guarded!MoveMut, Guarded!Writers, Guarded!IInv, Guarded!TypeOK
  <2>3. \A b \in Boxes : bgWriter'[b] <=> (bgWriter[b] /\ bgMut[m] # b)
    BY <1>2 DEF Guarded!MoveMut, Guarded!ReleaseMut, Guarded!IInv, Guarded!TypeOK
  <2>4. \A b \in Boxes : (m \in Guarded!Writers(b) <=> bgMut[m] = b) /\ (n \in Guarded!Writers(b) <=> bgMut[n] = b)
    BY DEF Guarded!Writers
  <2>5. \A b \in Boxes : bgWriter'[b] <=> Guarded!Writers(b)' # {}
    BY <1>2, <2>2, <2>3, <2>4 DEF Guarded!MoveMut, Guarded!IInv, Guarded!SharedXorMutable, Guarded!Counted
  <2>6. \A b \in Boxes : \A k \in Guarded!Writers(b)' : Guarded!Writers(b)' = {k} /\ Guarded!Readers(b) = {}
    BY <2>2, <2>4 DEF Guarded!IInv, Guarded!SharedXorMutable
  <2> QED
    BY <1>2, <2>1, <2>5, <2>6, GuardsMutsKeep DEF Guarded!MoveMut
<1>3. ASSUME NEW c \in Boxes, Guarded!TryBorrowMut(m, c) PROVE Guarded!IInv'
  <2>0. Guarded!Writers(c) = {} /\ Guarded!Readers(c) = {} /\ bgMut[m] # c
    BY <1>0, <1>3 DEF Guarded!TryBorrowMut, Guarded!Writers
  <2>1. Guarded!TypeOK'
    BY <1>3 DEF Guarded!TryBorrowMut, Guarded!ReleaseMut, Guarded!IInv, Guarded!TypeOK
  <2>2. \A b \in Boxes : Guarded!Writers(b)' = IF b = c THEN Guarded!Writers(b) \cup {m} ELSE Guarded!Writers(b) \ {m}
    BY <1>3 DEF Guarded!TryBorrowMut, Guarded!Writers, Guarded!IInv, Guarded!TypeOK
  <2>3. \A b \in Boxes : bgWriter'[b] <=> (b = c \/ (bgWriter[b] /\ bgMut[m] # b))
    BY <1>3, <2>0 DEF Guarded!TryBorrowMut, Guarded!ReleaseMut, Guarded!IInv, Guarded!TypeOK
  <2>4. \A b \in Boxes : m \in Guarded!Writers(b) <=> bgMut[m] = b
    BY DEF Guarded!Writers
  <2>5. \A b \in Boxes : bgWriter'[b] <=> Guarded!Writers(b)' # {}
    BY <2>2, <2>3, <2>4 DEF Guarded!IInv, Guarded!SharedXorMutable, Guarded!Counted
  <2>6. \A b \in Boxes : \A k \in Guarded!Writers(b)' : Guarded!Writers(b)' = {k} /\ Guarded!Readers(b) = {}
    BY <2>0, <2>2 DEF Guarded!IInv, Guarded!SharedXorMutable
  <2> QED
    BY <1>3, <2>1, <2>5, <2>6, GuardsMutsKeep DEF Guarded!TryBorrowMut
<1> QED
  BY <1>1, <1>2, <1>3 DEF Guarded!MutOps

(* New boxes without guards.                                               *)
LEMMA GuardsInitHolds == ASSUME Null \notin Boxes, Guarded!Init PROVE Guarded!IInv
<1>1. Guarded!TypeOK
  BY DEF Guarded!Init, Guarded!TypeOK
<1>2. \A b \in Boxes : Guarded!Readers(b) = {} /\ Guarded!Writers(b) = {}
  BY DEF Guarded!Init, Guarded!Readers, Guarded!Writers
<1> QED
  BY <1>1, <1>2, GuardsCardinality, FS_EmptySet DEF Guarded!Init, Guarded!IInv, Guarded!SharedXorMutable, Guarded!Counted

(* Every step of a guard keeps Guarded!IInv, and so do boxes at rest.      *)
LEMMA GuardsInductive ==
  ASSUME IsFiniteSet(Refs), Null \notin Boxes, Guarded!IInv, [Guarded!Next]_Guarded!vars
  PROVE  Guarded!IInv'
<1>1. CASE UNCHANGED Guarded!vars
  <2>1. \A b \in Boxes : Guarded!Readers(b)' = Guarded!Readers(b)
    BY <1>1 DEF Guarded!vars, Guarded!Readers
  <2>2. Guarded!TypeOK'
    BY <1>1 DEF Guarded!vars, Guarded!IInv, Guarded!TypeOK
  <2>3. \A b \in Boxes : bgWriter[b] => Guarded!Readers(b)' = {}
    BY <2>1 DEF Guarded!IInv, Guarded!SharedXorMutable, Guarded!Counted
  <2> QED
    BY <1>1, <2>1, <2>2, <2>3, GuardsReadersCounted, GuardsRefsKeep DEF Guarded!vars
<1> QED
  BY <1>1, GuardsDropRefKeeps, GuardsMoveRefKeeps, GuardsTryBorrowKeeps, GuardsMutOpsKeep DEF Guarded!Next, Guarded!RefOps

-----------------------------------------------------------------------------
(* OrderGateway *)

(* A remainder of what is less than m away from zero.                      *)
LEMMA GatewaySmallMod ==
  ASSUME NEW m \in Nat, NEW k \in Int, m # 0
  PROVE  (0 <= k /\ k < m => k % m = k) /\ (-m <= k /\ k < 0 => k % m = k + m)
OBVIOUS

(* The window is not negative, whatever the constructor was given.         *)
LEMMA GatewayWindow == DedupWindow \in Int => Gateway!dedup_window_ \in Nat
BY DEF Gateway!dedup_window_

(* As long as the clock and the window together are below Modulus an       *)
(* unsigned age within the window is a real one: a stamp from the future   *)
(* looks older than the window.                                            *)
LEMMA GatewayAges ==
  ASSUME Gateway!Sized, NEW n \in Gateway!Times, NEW s \in Gateway!Times
  PROVE  Gateway!Age(n, s) \in Nat /\ (Gateway!Age(n, s) <= Gateway!dedup_window_ <=> n - s \in 0 .. Gateway!dedup_window_)
<1>1. Gateway!dedup_window_ \in Nat /\ MaxTime + Gateway!dedup_window_ < Modulus /\ MaxTime \in Nat /\ Modulus \in Nat
  BY GatewayWindow DEF Gateway!Sized
<1>2. n - s \in Int /\ n - s < Modulus /\ -Modulus <= n - s /\ n \in Nat /\ s \in Nat /\ s <= MaxTime /\ n <= MaxTime
  BY <1>1 DEF Gateway!Times
<1>3. Modulus # 0
  BY <1>1
<1>4. CASE n - s >= 0
  <2>1. Gateway!Age(n, s) = n - s
    BY <1>1, <1>2, <1>3, <1>4, GatewaySmallMod DEF Gateway!Age
  <2> QED
    BY <2>1, <1>1, <1>2, <1>4
<1>5. CASE n - s < 0
  <2>1. Gateway!Age(n, s) = n - s + Modulus
    BY <1>1, <1>2, <1>3, <1>5, GatewaySmallMod DEF Gateway!Age
  <2> QED
    BY <2>1, <1>1, <1>2, <1>5
<1> QED
  BY <1>2, <1>4, <1>5

(* compact_locked() keeps the stamps within the window and no others.      *)
LEMMA GatewayCompacts ==
  ASSUME Gateway!IInv, NEW n \in Gateway!Times
  PROVE  /\ Gateway!Compacted(n) \in [Ids -> Gateway!Times \cup {Gateway!Never}]
         /\ \A c \in Ids : \/ Gateway!Compacted(n)[c] = Gateway!Never /\ (gSeen[c] = Gateway!Never \/ ~(n - gSeen[c] \in 0 .. Gateway!dedup_window_))
                           \/ /\ Gateway!Compacted(n)[c] = gSeen[c] /\ gSeen[c] # Gateway!Never
                              /\ n - gSeen[c] \in 0 .. Gateway!dedup_window_
<1>1. \A c \in Ids : gSeen[c] \in Gateway!Times \cup {Gateway!Never}
  BY DEF Gateway!IInv, Gateway!Types
<1>2. ASSUME NEW c \in Ids, gSeen[c] # Gateway!Never
      PROVE  Gateway!Age(n, gSeen[c]) > Gateway!dedup_window_ <=> ~(n - gSeen[c] \in 0 .. Gateway!dedup_window_)
  <2>1. gSeen[c] \in Gateway!Times
    BY <1>1, <1>2
  <2>2. Gateway!Age(n, gSeen[c]) \in Nat /\ (Gateway!Age(n, gSeen[c]) <= Gateway!dedup_window_ <=> n - gSeen[c] \in 0 .. Gateway!dedup_window_)
    BY <2>1, GatewayAges DEF Gateway!IInv
  <2> QED
    BY <2>2, GatewayWindow DEF Gateway!IInv, Gateway!Sized
<1>3. \A c \in Ids : Gateway!Compacted(n)[c] = IF gSeen[c] # Gateway!Never /\ Gateway!Age(n, gSeen[c]) > Gateway!dedup_window_
                 THEN Gateway!Never ELSE gSeen[c]
  BY DEF Gateway!Compacted
<1>4. Gateway!Compacted(n) \in [Ids -> Gateway!Times \cup {Gateway!Never}]
  BY <1>1 DEF Gateway!Compacted
<1> QED
  BY <1>2, <1>3, <1>4

(* So the lookup finds an id that is stamped within the window.            *)
LEMMA GatewayDuplicates ==
  ASSUME Gateway!IInv, NEW t \in TwoThreads, gPc[t] = "lock"
  PROVE  Gateway!Duplicate(t) <=> gSeen[gCid[t]] # Gateway!Never /\ gNow[t] - gSeen[gCid[t]] \in 0 .. Gateway!dedup_window_
<1>1. gNow[t] \in Gateway!Times /\ gCid[t] \in Ids
  BY DEF Gateway!IInv, Gateway!Types
<1>2. PICK k : k = Gateway!Compacted(gNow[t])[gCid[t]]
  OBVIOUS
<1>3. k # Gateway!Never => k = gSeen[gCid[t]] /\ k \in Gateway!Times /\ gNow[t] - k \in 0 .. Gateway!dedup_window_
  BY <1>1, <1>2, GatewayCompacts
<1>4. k # Gateway!Never => Gateway!Age(gNow[t], k) <= Gateway!dedup_window_
  BY <1>1, <1>3, GatewayAges DEF Gateway!IInv
<1>5. Gateway!Duplicate(t) <=> k # Gateway!Never
  BY <1>2, <1>4 DEF Gateway!Duplicate
<1> QED
  BY <1>1, <1>2, <1>3, <1>5, GatewayCompacts

(* submit() of a new id stamps it.                                         *)
LEMMA GatewayForwardKeeps ==
  ASSUME Gateway!IInv, NEW t \in TwoThreads, Gateway!Forward(t)
  PROVE  Gateway!IInv'
<1>1. gNow[t] \in Gateway!Times /\ gCid[t] \in Ids
  BY DEF Gateway!IInv, Gateway!Types, Gateway!Forward
<1>2. PICK f : f = Gateway!Compacted(gNow[t])
  OBVIOUS
<1>3. /\ f \in [Ids -> Gateway!Times \cup {Gateway!Never}]
      /\ \A c \in Ids : f[c] # Gateway!Never => f[c] = gSeen[c] /\ gNow[t] - f[c] \in 0 .. Gateway!dedup_window_
  BY <1>1, <1>2, GatewayCompacts
<1>4. /\ gSeen' = [f EXCEPT ![gCid[t]] = gNow[t]]
      /\ gForwarded' = [gForwarded EXCEPT ![gCid[t]] = gNow[t]]
      /\ gLast' = gNow[t] /\ gPc' = [gPc EXCEPT ![t] = "idle"]
      /\ gClock' = gClock /\ gNow' = gNow /\ gCid' = gCid
  BY <1>2 DEF Gateway!Forward
<1>5. Gateway!Types'
  BY <1>1, <1>3, <1>4 DEF Gateway!IInv, Gateway!Types
<1>6. \A c \in Ids : /\ gSeen'[c] = IF c = gCid[t] THEN gNow[t] ELSE f[c]
                     /\ gForwarded'[c] = IF c = gCid[t] THEN gNow[t] ELSE gForwarded[c]
  BY <1>1, <1>3, <1>4 DEF Gateway!IInv, Gateway!Types
<1>7. Gateway!Stamps'
  BY <1>3, <1>6 DEF Gateway!IInv, Gateway!Stamps
<1>8. Gateway!MapBounded'
  BY <1>1, <1>3, <1>4, <1>6, GatewayWindow DEF Gateway!MapBounded, Gateway!Times, Gateway!IInv, Gateway!Sized
<1> QED
  BY <1>5, <1>7, <1>8 DEF Gateway!IInv, Gateway!Sized

(* submit() of a duplicate only compacts.                                  *)
LEMMA GatewayDropKeeps ==
  ASSUME Gateway!IInv, NEW t \in TwoThreads, Gateway!Drop(t)
  PROVE  Gateway!IInv'
<1>1. gNow[t] \in Gateway!Times /\ gCid[t] \in Ids
  BY DEF Gateway!IInv, Gateway!Types, Gateway!Drop
<1>3. /\ gSeen' \in [Ids -> Gateway!Times \cup {Gateway!Never}]
      /\ \A c \in Ids : gSeen'[c] # Gateway!Never => gSeen'[c] = gSeen[c] /\ gNow[t] - gSeen'[c] \in 0 .. Gateway!dedup_window_
  BY <1>1, GatewayCompacts DEF Gateway!Drop
<1>4. /\ gForwarded' = gForwarded
      /\ gLast' = gNow[t] /\ gPc' = [gPc EXCEPT ![t] = "idle"]
      /\ gClock' = gClock /\ gNow' = gNow /\ gCid' = gCid
  BY DEF Gateway!Drop
<1>5. Gateway!Types'
  BY <1>1, <1>3, <1>4 DEF Gateway!IInv, Gateway!Types
<1>7. Gateway!Stamps'
  BY <1>3, <1>4 DEF Gateway!IInv, Gateway!Stamps
<1>8. Gateway!MapBounded'
  BY <1>3, <1>4 DEF Gateway!MapBounded
<1> QED
  BY <1>5, <1>7, <1>8 DEF Gateway!IInv, Gateway!Sized

(* Every step keeps Gateway!IInv.                                          *)
LEMMA GatewayInductive == Gateway!IInv /\ [Gateway!Next]_Gateway!vars => Gateway!IInv'
<1> SUFFICES ASSUME Gateway!IInv, [Gateway!Next]_Gateway!vars PROVE Gateway!IInv'
  OBVIOUS
<1>1. CASE UNCHANGED Gateway!vars
  BY <1>1 DEF Gateway!vars, Gateway!IInv, Gateway!Sized, Gateway!Types, Gateway!Stamps, Gateway!MapBounded
<1>2. CASE Gateway!Tick
  BY <1>2 DEF Gateway!Tick, Gateway!IInv, Gateway!Sized, Gateway!Types, Gateway!Stamps, Gateway!MapBounded, Gateway!Times
<1>3. ASSUME NEW t \in TwoThreads, NEW c \in Ids, Gateway!ReadClock(t, c) PROVE Gateway!IInv'
  BY <1>3 DEF Gateway!ReadClock, Gateway!IInv, Gateway!Sized, Gateway!Types, Gateway!Stamps, Gateway!MapBounded
<1> QED
  BY <1>1, <1>2, <1>3, GatewayForwardKeeps, GatewayDropKeeps DEF Gateway!Next

(* A new gateway.                                                          *)
LEMMA GatewayInitHolds == Gateway!Sized /\ Gateway!Init => Gateway!IInv
BY DEF Gateway!Init, Gateway!IInv, Gateway!Types, Gateway!Stamps, Gateway!MapBounded, Gateway!Times, Gateway!Sized, Gateway!Never

(* What has a stamp was forwarded when the stamp says.                     *)
LEMMA GatewayDropsKnown == Gateway!IInv => Gateway!DropsDuplicate
<1> SUFFICES ASSUME Gateway!IInv, NEW t \in TwoThreads, Gateway!Drop(t)
    PROVE  gForwarded[gCid[t]] # Gateway!Never /\ gNow[t] - gForwarded[gCid[t]] \in 0 .. Gateway!dedup_window_
  BY DEF Gateway!DropsDuplicate
<1>1. gSeen[gCid[t]] # Gateway!Never /\ gNow[t] - gSeen[gCid[t]] \in 0 .. Gateway!dedup_window_ /\ gCid[t] \in Ids
  BY GatewayDuplicates DEF Gateway!Drop, Gateway!IInv, Gateway!Types
<1> QED
  BY <1>1 DEF Gateway!IInv, Gateway!Stamps

(* One thread reads the clock and takes the lock in turn, so it never goes *)
(* back in time.                                                           *)
LEMMA GatewayOrderedKept ==
  ASSUME Gateway!IInv, NEW t \in TwoThreads, Gateway!Ordered(t), [Gateway!Alone(t)]_Gateway!vars
  PROVE  Gateway!Ordered(t)'
<1>1. CASE UNCHANGED Gateway!vars
  BY <1>1 DEF Gateway!vars, Gateway!Ordered
<1>2. CASE Gateway!Tick
  BY <1>2 DEF Gateway!Tick, Gateway!Ordered, Gateway!IInv, Gateway!Types, Gateway!Times
<1>3. ASSUME NEW c \in Ids, Gateway!ReadClock(t, c) PROVE Gateway!Ordered(t)'
  BY <1>3 DEF Gateway!ReadClock, Gateway!Ordered, Gateway!IInv, Gateway!Types, Gateway!Times
<1>4. CASE Gateway!Drop(t)
  <2>1. /\ gNow[t] \in Gateway!Times /\ gCid[t] \in Ids /\ gClock \in Gateway!Times /\ gLast \in Gateway!Times
        /\ gLast <= gNow[t] /\ gNow[t] <= gClock /\ gPc[t] = "lock"
    BY <1>4 DEF Gateway!Drop, Gateway!IInv, Gateway!Types, Gateway!Ordered
  <2>2. /\ gForwarded' = gForwarded /\ gClock' = gClock
        /\ gLast' = gNow[t] /\ \A s \in TwoThreads : gPc'[s] # "lock"
    BY <1>4 DEF Gateway!Drop, Gateway!IInv, Gateway!Types, Gateway!Ordered
  <2>3. ASSUME NEW c \in Ids, gForwarded[c] # Gateway!Never
        PROVE  gForwarded[c] <= gNow[t] /\ (gSeen'[c] = Gateway!Never => gNow[t] - gForwarded[c] > Gateway!dedup_window_)
    <3>1. gForwarded[c] \in Gateway!Times /\ gForwarded[c] <= gLast /\ (gSeen[c] = Gateway!Never => gLast - gForwarded[c] > Gateway!dedup_window_)
      BY <2>3 DEF Gateway!Ordered, Gateway!IInv, Gateway!Types
    <3>2. gSeen'[c] = Gateway!Never => (gSeen[c] = Gateway!Never \/ ~(gNow[t] - gSeen[c] \in 0 .. Gateway!dedup_window_))
      BY <1>4, <2>1, GatewayCompacts DEF Gateway!Drop
    <3>3. gSeen[c] # Gateway!Never => gSeen[c] = gForwarded[c]
      BY DEF Gateway!IInv, Gateway!Stamps
    <3>4. Gateway!dedup_window_ \in Nat
      BY GatewayWindow DEF Gateway!IInv, Gateway!Sized
    <3> QED
      BY <2>1, <3>1, <3>2, <3>3, <3>4 DEF Gateway!Times
  <2> QED
    BY <2>1, <2>2, <2>3 DEF Gateway!Ordered
<1>5. CASE Gateway!Forward(t)
  <2>1. /\ gNow[t] \in Gateway!Times /\ gCid[t] \in Ids /\ gClock \in Gateway!Times /\ gLast \in Gateway!Times
        /\ gLast <= gNow[t] /\ gNow[t] <= gClock /\ gPc[t] = "lock"
    BY <1>5 DEF Gateway!Forward, Gateway!IInv, Gateway!Types, Gateway!Ordered
  <2>2. /\ gClock' = gClock /\ gLast' = gNow[t] /\ (\A s \in TwoThreads : gPc'[s] # "lock")
        /\ \A c \in Ids \ {gCid[t]} : gForwarded'[c] = gForwarded[c] /\ gSeen'[c] = Gateway!Compacted(gNow[t])[c]
        /\ gForwarded'[gCid[t]] = gNow[t] /\ gSeen'[gCid[t]] = gNow[t]
    BY <1>5, <2>1, GatewayCompacts DEF Gateway!Forward, Gateway!IInv, Gateway!Types, Gateway!Ordered
  <2>3. ASSUME NEW c \in Ids, gForwarded'[c] # Gateway!Never
        PROVE  gForwarded'[c] <= gNow[t] /\ (gSeen'[c] = Gateway!Never => gNow[t] - gForwarded'[c] > Gateway!dedup_window_)
    <3>1. CASE c = gCid[t]
      BY <2>1, <2>2, <3>1 DEF Gateway!Times, Gateway!Never
    <3>2. CASE c # gCid[t]
      <4>1. gForwarded[c] \in Gateway!Times /\ gForwarded[c] <= gLast /\ (gSeen[c] = Gateway!Never => gLast - gForwarded[c] > Gateway!dedup_window_)
        BY <2>2, <2>3, <3>2 DEF Gateway!Ordered, Gateway!IInv, Gateway!Types
      <4>2. gSeen'[c] = Gateway!Never => (gSeen[c] = Gateway!Never \/ ~(gNow[t] - gSeen[c] \in 0 .. Gateway!dedup_window_))
        BY <2>1, <2>2, <3>2, GatewayCompacts
      <4>3. gSeen[c] # Gateway!Never => gSeen[c] = gForwarded[c]
        BY DEF Gateway!IInv, Gateway!Stamps
      <4>4. Gateway!dedup_window_ \in Nat
        BY GatewayWindow DEF Gateway!IInv, Gateway!Sized
      <4>5. gForwarded'[c] = gForwarded[c]
        BY <2>2, <3>2
      <4> QED
        BY <2>1, <4>1, <4>2, <4>3, <4>4, <4>5 DEF Gateway!Times
    <3> QED
      BY <3>1, <3>2
  <2> QED
    BY <2>1, <2>2, <2>3 DEF Gateway!Ordered
<1> QED
  BY <1>1, <1>2, <1>3, <1>4, <1>5 DEF Gateway!Alone

(* Before the first order.                                                 *)
LEMMA GatewayOrderedHolds == ASSUME Gateway!Init, NEW t PROVE Gateway!Ordered(t)
BY DEF Gateway!Init, Gateway!Ordered, Gateway!Never

(* An id that was forwarded and has no stamp was compacted more than a     *)
(* window later.                                                           *)
LEMMA GatewayForwardsOnce == ASSUME Gateway!IInv, NEW f, Gateway!Ordered(f) PROVE Gateway!ForwardsApart
<1> SUFFICES ASSUME NEW t \in TwoThreads, Gateway!Forward(t), gForwarded[gCid[t]] # Gateway!Never
    PROVE  ~Gateway!Within(gNow[t], gForwarded[gCid[t]])
  BY DEF Gateway!ForwardsApart
<1>1. /\ gNow[t] \in Gateway!Times /\ gCid[t] \in Ids /\ gLast \in Gateway!Times /\ gForwarded[gCid[t]] \in Gateway!Times
      /\ gLast <= gNow[t] /\ gPc[t] = "lock" /\ gForwarded[gCid[t]] <= gLast
      /\ (gSeen[gCid[t]] = Gateway!Never => gLast - gForwarded[gCid[t]] > Gateway!dedup_window_)
  BY DEF Gateway!Forward, Gateway!IInv, Gateway!Types, Gateway!Ordered
<1>2. ~(gSeen[gCid[t]] # Gateway!Never /\ gNow[t] - gSeen[gCid[t]] \in 0 .. Gateway!dedup_window_)
  BY <1>1, GatewayDuplicates DEF Gateway!Forward
<1>3. gSeen[gCid[t]] # Gateway!Never => gSeen[gCid[t]] = gForwarded[gCid[t]]
  BY <1>1 DEF Gateway!IInv, Gateway!Stamps
<1>4. Gateway!dedup_window_ \in Nat
  BY GatewayWindow DEF Gateway!IInv, Gateway!Sized
<1> QED
  BY <1>1, <1>2, <1>3, <1>4 DEF Gateway!Within, Gateway!Times

(* The gateway that one thread feeds is the gateway, of which only that    *)
(* thread makes use.                                                       *)
LEMMA FedIsGateway ==
  ASSUME NEW t \in TwoThreads, OneThread = {t}, Fed!Next
  PROVE  Gateway!Alone(t)
<1>1. ASSUME NEW n PROVE Fed!Compacted(n) = Gateway!Compacted(n)
  BY DEF Fed!Compacted, Gateway!Compacted, Fed!Age, Gateway!Age, Fed!Never, Gateway!Never,
         Fed!dedup_window_, Gateway!dedup_window_
<1>2. Fed!Duplicate(t) <=> Gateway!Duplicate(t)
  BY <1>1 DEF Fed!Duplicate, Gateway!Duplicate, Fed!Age, Gateway!Age, Fed!Never,
         Gateway!Never, Fed!dedup_window_, Gateway!dedup_window_
<1>3. Fed!Drop(t) => Gateway!Drop(t)
  BY <1>1, <1>2 DEF Fed!Drop, Gateway!Drop
<1>4. Fed!Forward(t) => Gateway!Forward(t)
  BY <1>1, <1>2 DEF Fed!Forward, Gateway!Forward
<1>5. \A c \in Ids : Fed!ReadClock(t, c) => Gateway!ReadClock(t, c)
  BY DEF Fed!ReadClock, Gateway!ReadClock
<1>6. Fed!Tick => Gateway!Tick
  BY DEF Fed!Tick, Gateway!Tick
<1> QED
  BY <1>3, <1>4, <1>5, <1>6 DEF Fed!Next, Gateway!Alone

(* And so what is forwarded by that thread is forwarded by the gateway.    *)
LEMMA FedForwards ==
  ASSUME NEW t \in TwoThreads, OneThread = {t}, Gateway!ForwardsApart
  PROVE  Fed!ForwardsApart
<1>1. ASSUME NEW n PROVE Fed!Compacted(n) = Gateway!Compacted(n)
  BY DEF Fed!Compacted, Gateway!Compacted, Fed!Age, Gateway!Age, Fed!Never, Gateway!Never,
         Fed!dedup_window_, Gateway!dedup_window_
<1>2. Fed!Duplicate(t) <=> Gateway!Duplicate(t)
  BY <1>1 DEF Fed!Duplicate, Gateway!Duplicate, Fed!Age, Gateway!Age, Fed!Never,
         Gateway!Never, Fed!dedup_window_, Gateway!dedup_window_
<1>3. Fed!Forward(t) => Gateway!Forward(t)
  BY <1>1, <1>2 DEF Fed!Forward, Gateway!Forward
<1> QED
  BY <1>3 DEF Fed!ForwardsApart, Gateway!ForwardsApart, Fed!Within, Gateway!Within,
         Fed!Never, Gateway!Never, Fed!dedup_window_, Gateway!dedup_window_

-----------------------------------------------------------------------------
(* CommandOrderEntry *)

(* A repository maps some ids to entries.                                  *)
LEMMA CommandsRepoIs ==
  ASSUME NEW r \in Commands!Repos
  PROVE  /\ DOMAIN r \subseteq OrderIds /\ r = [x \in DOMAIN r |-> r[x]]
         /\ \A x \in DOMAIN r : r[x] \in Commands!Entries
BY DEF Commands!Repos

(* undo() of a command, in the repository it left, gives the one it found. *)
LEMMA CommandsReverts ==
  ASSUME NEW c \in Commands!AllCommands, NEW prior \in Commands!Repos, cOrders \in Commands!Repos,
         Commands!Applied(c, prior, cOrders)
  PROVE  Commands!Undone(c) = prior
<1>1. /\ prior = [x \in DOMAIN prior |-> prior[x]]
      /\ \A x \in DOMAIN prior : prior[x] \in Commands!Entries
  BY CommandsRepoIs
<1>2. CASE c.type = "kNew"
  <2>1. PICK e \in Commands!Entries : cOrders = Commands!Put(prior, c.id, e)
    BY <1>2 DEF Commands!Applied
  <2>2. c.id \notin DOMAIN prior
    BY <1>2 DEF Commands!Applied
  <2>3. DOMAIN cOrders = DOMAIN prior \cup {c.id} /\ \A x \in DOMAIN prior : cOrders[x] = prior[x]
    BY <2>1, <2>2 DEF Commands!Put
  <2>4. DOMAIN cOrders \ {c.id} = DOMAIN prior
    BY <2>2, <2>3
  <2>5. Commands!Undone(c) = [x \in DOMAIN cOrders \ {c.id} |-> cOrders[x]]
    BY <1>2 DEF Commands!Undone, Commands!Removed, Commands!Restrict
  <2> QED
    BY <1>1, <2>3, <2>4, <2>5
<1>3. CASE c.type # "kNew"
  <2>1. c.type \in {"kModify", "kCancel"} /\ c.old \in Commands!Entries
    BY <1>3 DEF Commands!AllCommands
  <2>2. c.id \in DOMAIN prior /\ c.old = prior[c.id] /\ c.old.status = "kActive"
    BY <1>3 DEF Commands!Applied
  <2>3. c.old = Commands!Entry(c.old.side, c.old.price, "kActive")
    BY <2>1, <2>2 DEF Commands!Entries, Commands!Entry
  <2>4. CASE c.type = "kModify"
    <3>1. PICK p \in Prices : cOrders = [prior EXCEPT ![c.id] = Commands!Entry(c.old.side, p, "kActive")]
      BY <2>4, <1>3 DEF Commands!Applied
    <3>2. /\ DOMAIN cOrders = DOMAIN prior /\ cOrders[c.id] = Commands!Entry(c.old.side, p, "kActive")
          /\ \A x \in DOMAIN prior \ {c.id} : cOrders[x] = prior[x]
      BY <3>1, <2>2, <1>1
    <3>3. Commands!Active(c.id)
      BY <3>2, <2>2 DEF Commands!Active, Commands!Entry
    <3>4. Commands!Undone(c) = [cOrders EXCEPT ![c.id].price = c.old.price]
      BY <2>4, <3>3 DEF Commands!Undone
    <3>5. [cOrders[c.id] EXCEPT !.price = c.old.price] = prior[c.id]
      BY <2>2, <2>3, <3>2 DEF Commands!Entry
    <3> QED
      BY <1>1, <2>2, <3>2, <3>4, <3>5
  <2>5. CASE c.type = "kCancel"
    <3>1. cOrders = [prior EXCEPT ![c.id] = Commands!Entry(c.old.side, c.old.price, "kCancelled")]
      BY <2>5, <1>3 DEF Commands!Applied
    <3>2. DOMAIN cOrders = DOMAIN prior /\ \A x \in DOMAIN prior \ {c.id} : cOrders[x] = prior[x]
      BY <3>1, <2>2, <1>1
    <3>3. Commands!Undone(c) = Commands!Put(cOrders, c.id, c.old)
      BY <2>5, <2>3 DEF Commands!Undone
    <3>4. DOMAIN cOrders \cup {c.id} = DOMAIN prior
      BY <3>2, <2>2
    <3> QED
      BY <1>1, <2>2, <3>2, <3>3, <3>4 DEF Commands!Put
  <2> QED
    BY <2>1, <2>4, <2>5
<1> QED
  BY <1>2, <1>3

(* A command that succeeded is logged with the repository it found.        *)
LEMMA CommandsSubmitKeeps ==
  ASSUME Commands!IInv, NEW c \in Commands!AllCommands, NEW r \in Commands!Repos, Commands!Submit(c, r),
         Commands!Applied(c, cOrders, r)
  PROVE  Commands!IInv'
<1>1. /\ cOrders' = r /\ cLog' = Append(cLog, c) /\ cBefore' = Append(cBefore, cOrders)
  BY DEF Commands!Submit
<1>2. /\ cLog \in Seq(Commands!AllCommands) /\ cBefore \in Seq(Commands!Repos) /\ Len(cBefore) = Len(cLog)
      /\ cOrders \in Commands!Repos
  BY DEF Commands!IInv
<1>3. /\ cLog' \in Seq(Commands!AllCommands) /\ cBefore' \in Seq(Commands!Repos)
      /\ Len(cLog') = Len(cLog) + 1 /\ Len(cBefore') = Len(cLog) + 1 /\ Len(cLog) \in Nat
      /\ \A k \in 1..Len(cLog) : cLog'[k] = cLog[k] /\ cBefore'[k] = cBefore[k]
      /\ cLog'[Len(cLog) + 1] = c /\ cBefore'[Len(cLog) + 1] = cOrders
  BY <1>1, <1>2
<1>4. ASSUME NEW k \in 1..Len(cLog') PROVE Commands!Applied(cLog'[k], cBefore'[k], Commands!After(k)')
  <2>1. CASE k = Len(cLog) + 1
    BY <2>1, <1>1, <1>3 DEF Commands!After
  <2>2. CASE k # Len(cLog) + 1
    <3>1. k \in 1..Len(cLog) /\ k # Len(cLog')
      BY <2>2, <1>3
    <3>2. Commands!After(k)' = Commands!After(k)
      <4>1. CASE k = Len(cLog)
        BY <3>1, <4>1, <1>3 DEF Commands!After
      <4>2. CASE k # Len(cLog)
        <5>1. k + 1 \in 1..Len(cLog)
          BY <3>1, <4>2, <1>3
        <5> QED
          BY <5>1, <3>1, <4>2, <1>3 DEF Commands!After
      <4> QED
        BY <4>1, <4>2
    <3> QED
      BY <3>1, <3>2, <1>3 DEF Commands!IInv
  <2> QED
    BY <2>1, <2>2
<1> QED
  BY <1>1, <1>3, <1>4 DEF Commands!IInv

(* undo_last() leaves the repository as the last command found it, where   *)
(* the command before had left it.                                         *)
LEMMA CommandsUndoKeeps ==
  ASSUME Commands!IInv, Commands!undo_last
  PROVE  Commands!IInv' /\ cOrders' = Commands!Last(cBefore)
<1>1. /\ cLog \in Seq(Commands!AllCommands) /\ cBefore \in Seq(Commands!Repos) /\ Len(cBefore) = Len(cLog)
      /\ cOrders \in Commands!Repos /\ cLog # <<>>
  BY DEF Commands!IInv, Commands!undo_last
<1>2. Len(cLog) \in Nat /\ Len(cLog) # 0
  BY <1>1
<1> DEFINE n == Len(cLog)
<1>3. Commands!Applied(cLog[n], cBefore[n], cOrders)
  BY <1>2 DEF Commands!IInv, Commands!After
<1>4. cLog[n] \in Commands!AllCommands /\ cBefore[n] \in Commands!Repos
  BY <1>1, <1>2
<1>5. cOrders' = cBefore[n]
  BY <1>1, <1>3, <1>4, CommandsReverts DEF Commands!undo_last, Commands!Last
<1>6. /\ cLog' \in Seq(Commands!AllCommands) /\ cBefore' \in Seq(Commands!Repos)
      /\ Len(cLog') = n - 1 /\ Len(cBefore') = n - 1
      /\ \A k \in 1..(n - 1) : cLog'[k] = cLog[k] /\ cBefore'[k] = cBefore[k]
  BY <1>1, <1>2 DEF Commands!undo_last, Commands!Front
<1>7. ASSUME NEW k \in 1..Len(cLog') PROVE Commands!Applied(cLog'[k], cBefore'[k], Commands!After(k)')
  <2>1. k \in 1..(n - 1) /\ k \in 1..n /\ k # n
    BY <1>2, <1>6
  <2>2. Commands!After(k)' = cBefore[k + 1]
    <3>1. CASE k = n - 1
      BY <3>1, <1>2, <1>5, <1>6 DEF Commands!After
    <3>2. CASE k # n - 1
      <4>1. k + 1 \in 1..(n - 1)
        BY <3>2, <2>1, <1>2
      <4> QED
        BY <4>1, <3>2, <1>6 DEF Commands!After
    <3> QED
      BY <3>1, <3>2
  <2>3. Commands!After(k) = cBefore[k + 1]
    BY <2>1 DEF Commands!After
  <2> QED
    BY <2>1, <2>2, <2>3, <1>6 DEF Commands!IInv
<1> QED
  BY <1>1, <1>4, <1>5, <1>6, <1>7 DEF Commands!IInv, Commands!Last

(* Every step keeps Commands!IInv, and every undo restores.                *)
LEMMA CommandsInductive == Commands!IInv /\ [Commands!Next]_Commands!vars => Commands!IInv' /\ Commands!UndoRestores
<1> SUFFICES ASSUME Commands!IInv, [Commands!Next]_Commands!vars PROVE Commands!IInv' /\ Commands!UndoRestores
  OBVIOUS
<1>0. cLog \in Seq(Commands!AllCommands) /\ Len(cLog) \in Nat /\ cOrders \in Commands!Repos
  BY DEF Commands!IInv
<1>1. CASE UNCHANGED Commands!vars
  BY <1>0, <1>1 DEF Commands!vars, Commands!IInv, Commands!After, Commands!UndoRestores
<1>2. ASSUME NEW i \in OrderIds, NEW s \in OrderSides, NEW p \in Prices, Commands!SubmitNew(i, s, p)
      PROVE  Commands!IInv' /\ Commands!UndoRestores
  <2> DEFINE c == [type |-> "kNew", id |-> i]
             r == Commands!Put(cOrders, i, Commands!Entry(s, p, "kActive"))
  <2>1. c \in Commands!AllCommands /\ Commands!Entry(s, p, "kActive") \in Commands!Entries
    BY DEF Commands!AllCommands, Commands!Entries, Commands!Entry
  <2>2. r \in Commands!Repos
    <3>1. DOMAIN cOrders \cup {i} \in SUBSET OrderIds /\ \A x \in DOMAIN cOrders : cOrders[x] \in Commands!Entries
      BY <1>0, CommandsRepoIs
    <3>2. r \in [DOMAIN cOrders \cup {i} -> Commands!Entries]
      BY <2>1, <3>1 DEF Commands!Put
    <3> QED
      BY <3>1, <3>2 DEF Commands!Repos
  <2>3. Commands!Applied(c, cOrders, r)
    BY <1>2, <2>1 DEF Commands!Applied, Commands!SubmitNew
  <2>4. Commands!Submit(c, r)
    BY <1>2 DEF Commands!SubmitNew
  <2>5. Commands!IInv'
    BY <2>1, <2>2, <2>3, <2>4, CommandsSubmitKeeps
  <2>6. Len(cLog') = Len(cLog) + 1
    BY <1>0, <2>1, <2>4 DEF Commands!Submit
  <2> QED
    BY <2>5, <2>6, <1>0 DEF Commands!UndoRestores
<1>3. ASSUME NEW i \in OrderIds, NEW p \in Prices, Commands!SubmitModify(i, p)
      PROVE  Commands!IInv' /\ Commands!UndoRestores
  <2> DEFINE c == [type |-> "kModify", id |-> i, old |-> cOrders[i]]
             r == [cOrders EXCEPT ![i].price = p]
  <2>1. /\ i \in DOMAIN cOrders /\ cOrders[i].status = "kActive" /\ cOrders[i] \in Commands!Entries
        /\ cOrders \in [DOMAIN cOrders -> Commands!Entries] /\ DOMAIN cOrders \in SUBSET OrderIds
    BY <1>0, <1>3, CommandsRepoIs DEF Commands!SubmitModify, Commands!Active
  <2>2. c \in Commands!AllCommands
    BY <2>1 DEF Commands!AllCommands
  <2>3. [cOrders[i] EXCEPT !.price = p] = Commands!Entry(cOrders[i].side, p, "kActive")
    BY <2>1 DEF Commands!Entries, Commands!Entry
  <2>4. r = [cOrders EXCEPT ![i] = Commands!Entry(cOrders[i].side, p, "kActive")]
    BY <2>3
  <2>5. Commands!Entry(cOrders[i].side, p, "kActive") \in Commands!Entries
    BY <2>1 DEF Commands!Entries, Commands!Entry
  <2>6. r \in [DOMAIN cOrders -> Commands!Entries]
    BY <2>1, <2>4, <2>5
  <2>7. r \in Commands!Repos
    BY <2>1, <2>6 DEF Commands!Repos
  <2>8. Commands!Applied(c, cOrders, r)
    BY <2>1, <2>4 DEF Commands!Applied
  <2>9. Commands!Submit(c, r)
    BY <1>3 DEF Commands!SubmitModify
  <2>10. Commands!IInv'
    BY <2>2, <2>7, <2>8, <2>9, CommandsSubmitKeeps
  <2>11. Len(cLog') = Len(cLog) + 1
    BY <1>0, <2>2, <2>9 DEF Commands!Submit
  <2> QED
    BY <2>10, <2>11, <1>0 DEF Commands!UndoRestores
<1>4. ASSUME NEW i \in OrderIds, Commands!SubmitCancel(i)
      PROVE  Commands!IInv' /\ Commands!UndoRestores
  <2> DEFINE c == [type |-> "kCancel", id |-> i, old |-> cOrders[i]]
             r == [cOrders EXCEPT ![i].status = "kCancelled"]
  <2>1. /\ i \in DOMAIN cOrders /\ cOrders[i].status = "kActive" /\ cOrders[i] \in Commands!Entries
        /\ cOrders \in [DOMAIN cOrders -> Commands!Entries] /\ DOMAIN cOrders \in SUBSET OrderIds
    BY <1>0, <1>4, CommandsRepoIs DEF Commands!SubmitCancel, Commands!Active
  <2>2. c \in Commands!AllCommands
    BY <2>1 DEF Commands!AllCommands
  <2>3. [cOrders[i] EXCEPT !.status = "kCancelled"] = Commands!Entry(cOrders[i].side, cOrders[i].price, "kCancelled")
    BY <2>1 DEF Commands!Entries, Commands!Entry
  <2>4. r = [cOrders EXCEPT ![i] = Commands!Entry(cOrders[i].side, cOrders[i].price, "kCancelled")]
    BY <2>3
  <2>5. Commands!Entry(cOrders[i].side, cOrders[i].price, "kCancelled") \in Commands!Entries
    BY <2>1 DEF Commands!Entries, Commands!Entry
  <2>6. r \in [DOMAIN cOrders -> Commands!Entries]
    BY <2>1, <2>4, <2>5
  <2>7. r \in Commands!Repos
    BY <2>1, <2>6 DEF Commands!Repos
  <2>8. Commands!Applied(c, cOrders, r)
    BY <2>1, <2>4 DEF Commands!Applied
  <2>9. Commands!Submit(c, r)
    BY <1>4 DEF Commands!SubmitCancel
  <2>10. Commands!IInv'
    BY <2>2, <2>7, <2>8, <2>9, CommandsSubmitKeeps
  <2>11. Len(cLog') = Len(cLog) + 1
    BY <1>0, <2>2, <2>9 DEF Commands!Submit
  <2> QED
    BY <2>10, <2>11, <1>0 DEF Commands!UndoRestores
<1>5. CASE Commands!undo_last
  BY <1>5, CommandsUndoKeeps DEF Commands!UndoRestores
<1> QED
  BY <1>1, <1>2, <1>3, <1>4, <1>5 DEF Commands!Next

(* An empty repository and an empty log.                                   *)
LEMMA CommandsInitHolds == Commands!Init => Commands!IInv
<1> SUFFICES ASSUME Commands!Init PROVE Commands!IInv
  OBVIOUS
<1>1. cOrders \in Commands!Repos
  <2>1. cOrders \in [{} -> Commands!Entries] /\ {} \in SUBSET OrderIds
    BY DEF Commands!Init
  <2> QED
    BY <2>1 DEF Commands!Repos
<1>2. Len(cLog) = 0 /\ Len(cBefore) = 0 /\ cLog \in Seq(Commands!AllCommands) /\ cBefore \in Seq(Commands!Repos)
  BY DEF Commands!Init
<1> QED
  BY <1>1, <1>2 DEF Commands!IInv

-----------------------------------------------------------------------------
(* UniquePtr *)

(* Unique's Cardinality is the one that the theorems on finite sets are    *)
(* about.                                                                  *)
LEMMA UniqueCardinality == ASSUME NEW S PROVE Unique!Cardinality(S) = Cardinality(S)
BY DEF Unique!Cardinality, Cardinality

(* In one place: of owners, graves and the caller there is one.            *)
LEMMA UniqueImplied == Unique!IInv => Unique!OneOwner
<1> SUFFICES ASSUME Unique!IInv, NEW o \in Objects, uKind[o] # Null
    PROVE  LET owners == {h \in Handles : uPtr[h] = o}
               graves == {d \in Deleters : uDestroyedBy[o][d] > 0}
           IN /\ Unique!Cardinality(owners) + Unique!Cardinality(graves) + (IF o \in uRaw THEN 1 ELSE 0) = 1
              /\ \A h \in owners : uDeleter[h] = uKind[o]
              /\ \A d \in graves : d = uKind[o] /\ uDestroyedBy[o][d] = 1
  BY DEF Unique!OneOwner
<1> DEFINE owners == {h \in Handles : uPtr[h] = o}
           graves == {d \in Deleters : uDestroyedBy[o][d] > 0}
<1>1. o # Null /\ uKind[o] \in Deleters /\ \A d \in Deleters : uDestroyedBy[o][d] \in Nat
  BY DEF Unique!IInv, Unique!Apart, Unique!TypeOK
<1>2. \A h \in owners : uDeleter[h] = uKind[o]
  BY <1>1 DEF Unique!IInv, Unique!Held
<1>3. \A d \in graves : d = uKind[o] /\ uDestroyedBy[o][d] = 1
  BY DEF Unique!IInv, Unique!Dead
<1>4. CASE owners # {}
  <2>1. PICK h \in Handles : uPtr[h] = o
    BY <1>4
  <2>2. owners = {h}
    BY <2>1, <1>1 DEF Unique!IInv, Unique!Held
  <2>3. graves = {}
    BY <2>1, <1>1 DEF Unique!IInv, Unique!Held
  <2>4. o \notin uRaw
    BY <2>1, <1>1 DEF Unique!IInv, Unique!Held
  <2>5. Unique!Cardinality(owners) = 1
    BY <2>2, UniqueCardinality, FS_Singleton, Zenon
  <2>6. Unique!Cardinality(graves) = 0
    BY <2>3, UniqueCardinality, FS_EmptySet, Zenon
  <2> QED
    BY <2>4, <2>5, <2>6, <1>2, <1>3
<1>5. CASE owners = {}
  <2>1. Unique!Cardinality(owners) = 0
    BY <1>5, UniqueCardinality, FS_EmptySet, Zenon
  <2>2. CASE o \in uRaw
    <3>1. graves = {}
      BY <2>2, <1>1 DEF Unique!IInv, Unique!GivenAway
    <3>2. Unique!Cardinality(graves) = 0
      BY <3>1, UniqueCardinality, FS_EmptySet, Zenon
    <3> QED
      BY <2>1, <2>2, <3>2, <1>2, <1>3
  <2>3. CASE o \notin uRaw
    <3>1. graves = {uKind[o]}
      BY <1>1, <1>3, <1>5, <2>3 DEF Unique!IInv, Unique!NotLost
    <3>2. Unique!Cardinality(graves) = 1
      BY <3>1, UniqueCardinality, FS_Singleton, Zenon
    <3> QED
      BY <2>1, <2>3, <3>2, <1>2, <1>3
  <2> QED
    BY <2>2, <2>3
<1> QED
  BY <1>4, <1>5

(* What a handle destroys had not been destroyed, and the handle has its   *)
(* deleter.                                                                *)
LEMMA UniqueDestroyed ==
  ASSUME Unique!IInv, NEW h \in Handles, Unique!Destroy(uPtr[h], uDeleter[h])
  PROVE  /\ uDestroyedBy' \in [Objects -> [Deleters -> Nat]]
         /\ \A o \in Objects, d \in Deleters : uDestroyedBy'[o][d] =
              IF o = uPtr[h] /\ d = uDeleter[h] THEN 1 ELSE uDestroyedBy[o][d]
         /\ \A o \in uRaw, d \in Deleters : uDestroyedBy'[o][d] = 0
         /\ uPtr[h] # Null => uDestroyedBy'[uPtr[h]][uKind[uPtr[h]]] = 1
<1>0. \A o \in uRaw : o # uPtr[h] /\ o \in Objects /\ \A d \in Deleters : uDestroyedBy[o][d] = 0
  BY DEF Unique!IInv, Unique!TypeOK, Unique!Apart, Unique!Held, Unique!GivenAway
<1>1. CASE uPtr[h] = Null
  BY <1>0, <1>1 DEF Unique!Destroy, Unique!IInv, Unique!TypeOK, Unique!Apart
<1>2. CASE uPtr[h] # Null
  <2>1. /\ uPtr[h] \in Objects /\ uDeleter[h] \in Deleters
        /\ uKind[uPtr[h]] = uDeleter[h] /\ uDestroyedBy[uPtr[h]][uDeleter[h]] = 0
    BY <1>2 DEF Unique!IInv, Unique!TypeOK, Unique!Held
  <2>2. uDestroyedBy' = [uDestroyedBy EXCEPT ![uPtr[h]][uDeleter[h]] = @ + 1]
    BY <1>2 DEF Unique!Destroy
  <2>3. /\ uDestroyedBy' \in [Objects -> [Deleters -> Nat]]
        /\ \A o \in Objects, d \in Deleters : uDestroyedBy'[o][d] =
             IF o = uPtr[h] /\ d = uDeleter[h] THEN 1 ELSE uDestroyedBy[o][d]
    BY <2>1, <2>2 DEF Unique!IInv, Unique!TypeOK
  <2> QED
    BY <1>0, <2>1, <2>3
<1> QED
  BY <1>1, <1>2

(* reset(new T): the new object is made for the deleter of the handle.     *)
LEMMA UniqueResetNewKeeps ==
  ASSUME Unique!IInv, NEW h \in Handles, NEW o \in Objects, Unique!ResetNew(h, o)
  PROVE  Unique!IInv'
<1>1. /\ uDestroyedBy' \in [Objects -> [Deleters -> Nat]]
      /\ \A p \in Objects, d \in Deleters : uDestroyedBy'[p][d] =
           IF p = uPtr[h] /\ d = uDeleter[h] THEN 1 ELSE uDestroyedBy[p][d]
      /\ \A p \in uRaw, d \in Deleters : uDestroyedBy'[p][d] = 0
      /\ uPtr[h] # Null => uDestroyedBy'[uPtr[h]][uKind[uPtr[h]]] = 1
  BY UniqueDestroyed DEF Unique!ResetNew
<1>2. /\ uKind[o] = Null /\ uKind' = [uKind EXCEPT ![o] = uDeleter[h]]
      /\ uPtr' = [uPtr EXCEPT ![h] = o] /\ uDeleter' = uDeleter /\ uRaw' = uRaw
  BY DEF Unique!ResetNew
<1>3. /\ uDeleter[h] \in Deleters /\ uDeleter[h] # Null /\ o # Null
      /\ o \notin uRaw /\ \A k \in Handles : uPtr[k] # o
      /\ \A d \in Deleters : uDestroyedBy[o][d] = 0
      /\ uKind'[o] = uDeleter[h] /\ \A p \in Objects \ {o} : uKind'[p] = uKind[p]
      /\ uPtr'[h] = o /\ \A k \in Handles \ {h} : uPtr'[k] = uPtr[k]
  BY <1>2 DEF Unique!IInv, Unique!TypeOK, Unique!Apart, Unique!Held, Unique!GivenAway, Unique!Dead
<1>4. Unique!TypeOK'
  BY <1>1, <1>2, <1>3 DEF Unique!IInv, Unique!TypeOK
<1>5. Unique!Held'
  BY <1>1, <1>2, <1>3 DEF Unique!IInv, Unique!Held, Unique!TypeOK
<1>6. Unique!GivenAway'
  BY <1>1, <1>2, <1>3 DEF Unique!IInv, Unique!TypeOK, Unique!GivenAway
<1>7. Unique!Dead'
  <2> SUFFICES ASSUME NEW p \in Objects, NEW d \in Deleters, uDestroyedBy'[p][d] > 0
      PROVE  d = uKind'[p] /\ uDestroyedBy'[p][d] = 1
    BY DEF Unique!Dead
  <2>1. p # o
    BY <1>1, <1>3
  <2>2. CASE p = uPtr[h] /\ d = uDeleter[h]
    BY <1>1, <1>3, <2>1, <2>2 DEF Unique!IInv, Unique!Held, Unique!Apart
  <2>3. CASE ~(p = uPtr[h] /\ d = uDeleter[h])
    BY <1>1, <1>3, <2>1, <2>3 DEF Unique!IInv, Unique!Dead
  <2> QED
    BY <2>2, <2>3
<1>8. Unique!NotLost'
  <2> SUFFICES ASSUME NEW p \in Objects, uKind'[p] # Null
      PROVE  (\E g \in Handles : uPtr'[g] = p) \/ p \in uRaw' \/ uDestroyedBy'[p][uKind'[p]] > 0
    BY DEF Unique!NotLost
  <2>0. p # Null
    BY DEF Unique!IInv, Unique!Apart
  <2>1. CASE p = uPtr[h]
    BY <1>1, <1>2, <1>3, <2>0, <2>1
  <2>2. CASE p # uPtr[h] /\ \E g \in Handles : uPtr[g] = p
    BY <1>2, <1>3, <2>2 DEF Unique!IInv, Unique!TypeOK
  <2>3. CASE p \in uRaw
    BY <1>2, <1>3, <2>3 DEF Unique!IInv, Unique!TypeOK
  <2>4. CASE p # uPtr[h] /\ p \notin uRaw /\ ~\E g \in Handles : uPtr[g] = p
    <3>1. CASE p = o
      BY <1>2, <1>3, <3>1 DEF Unique!IInv, Unique!TypeOK
    <3>2. CASE ~(p = o)
      <4>1. uKind'[p] = uKind[p] /\ uKind[p] \in Deleters
        BY <1>2, <1>3, <3>2 DEF Unique!IInv, Unique!TypeOK
      <4>2. uDestroyedBy[p][uKind[p]] > 0
        BY <2>4, <4>1 DEF Unique!IInv, Unique!NotLost, Unique!Apart
      <4> QED
        BY <1>1, <2>4, <4>1, <4>2
    <3> QED
      BY <3>1, <3>2
  <2> QED
    BY <2>1, <2>2, <2>3, <2>4
<1> QED
  BY <1>4, <1>5, <1>6, <1>7, <1>8 DEF Unique!IInv, Unique!Apart

(* reset(): the object goes to its grave.                                  *)
LEMMA UniqueResetKeeps ==
  ASSUME Unique!IInv, NEW h \in Handles, Unique!Reset(h)
  PROVE  Unique!IInv'
<1>1. /\ uDestroyedBy' \in [Objects -> [Deleters -> Nat]]
      /\ \A p \in Objects, d \in Deleters : uDestroyedBy'[p][d] =
           IF p = uPtr[h] /\ d = uDeleter[h] THEN 1 ELSE uDestroyedBy[p][d]
      /\ \A p \in uRaw, d \in Deleters : uDestroyedBy'[p][d] = 0
      /\ uPtr[h] # Null => uDestroyedBy'[uPtr[h]][uKind[uPtr[h]]] = 1
  BY UniqueDestroyed DEF Unique!Reset
<1>2. /\ uKind' = uKind /\ uPtr' = [uPtr EXCEPT ![h] = Null]
      /\ uDeleter' = uDeleter /\ uRaw' = uRaw
  BY DEF Unique!Reset
<1>3. uDeleter[h] \in Deleters
  BY DEF Unique!IInv, Unique!TypeOK
<1>4. Unique!TypeOK'
  BY <1>1, <1>2, <1>3 DEF Unique!IInv, Unique!TypeOK
<1>5. Unique!Held'
  BY <1>1, <1>2, <1>3 DEF Unique!IInv, Unique!Held, Unique!TypeOK
<1>6. Unique!GivenAway'
  BY <1>1, <1>2, <1>3 DEF Unique!IInv, Unique!TypeOK, Unique!GivenAway
<1>7. Unique!Dead'
  BY <1>1, <1>2, <1>3 DEF Unique!IInv, Unique!Held, Unique!TypeOK, Unique!Dead, Unique!Apart
<1>8. Unique!NotLost'
  BY <1>1, <1>2, <1>3 DEF Unique!IInv, Unique!TypeOK, Unique!Held, Unique!NotLost
<1> QED
  BY <1>4, <1>5, <1>6, <1>7, <1>8 DEF Unique!IInv, Unique!Apart

(* release(): the object goes to the caller.                               *)
LEMMA UniqueReleaseKeeps ==
  ASSUME Unique!IInv, NEW h \in Handles, Unique!Release(h)
  PROVE  Unique!IInv'
<1>2. /\ uKind' = uKind /\ uPtr' = [uPtr EXCEPT ![h] = Null] /\ uPtr[h] # Null
      /\ uDeleter' = uDeleter /\ uRaw' = uRaw \cup {uPtr[h]} /\ uDestroyedBy' = uDestroyedBy
  BY DEF Unique!Release
<1>3. uDeleter[h] \in Deleters /\ uKind[uPtr[h]] # Null /\ uPtr[h] \in Objects
  BY <1>2 DEF Unique!IInv, Unique!TypeOK, Unique!Held, Unique!Apart
<1>4. Unique!TypeOK'
  BY <1>2, <1>3 DEF Unique!IInv, Unique!TypeOK
<1>5. Unique!Held'
  BY <1>2, <1>3 DEF Unique!IInv, Unique!Held, Unique!TypeOK
<1>6. Unique!GivenAway'
  BY <1>2, <1>3 DEF Unique!IInv, Unique!Held, Unique!TypeOK, Unique!GivenAway
<1>7. Unique!Dead'
  BY <1>2, <1>3 DEF Unique!IInv, Unique!Dead
<1>8. Unique!NotLost'
  BY <1>2, <1>3 DEF Unique!IInv, Unique!TypeOK, Unique!Held, Unique!NotLost
<1> QED
  BY <1>4, <1>5, <1>6, <1>7, <1>8 DEF Unique!IInv, Unique!Apart

(* An object that the caller has gets an owner again, with its deleter.    *)
LEMMA UniqueAdoptKeeps ==
  ASSUME Unique!IInv, NEW h \in Handles, NEW o \in Objects, Unique!Adopt(h, o)
  PROVE  Unique!IInv'
<1>1. /\ uDestroyedBy' \in [Objects -> [Deleters -> Nat]]
      /\ \A p \in Objects, d \in Deleters : uDestroyedBy'[p][d] =
           IF p = uPtr[h] /\ d = uDeleter[h] THEN 1 ELSE uDestroyedBy[p][d]
      /\ \A p \in uRaw, d \in Deleters : uDestroyedBy'[p][d] = 0
      /\ uPtr[h] # Null => uDestroyedBy'[uPtr[h]][uKind[uPtr[h]]] = 1
  BY UniqueDestroyed DEF Unique!Adopt
<1>2. /\ o \in uRaw /\ uKind' = uKind /\ uDeleter' = [uDeleter EXCEPT ![h] = uKind[o]]
      /\ uPtr' = [uPtr EXCEPT ![h] = o] /\ uRaw' = uRaw \ {o}
  BY DEF Unique!Adopt
<1>3. /\ uKind[o] \in Deleters /\ o # Null /\ \A k \in Handles : uPtr[k] # o
      /\ \A d \in Deleters : uDestroyedBy[o][d] = 0
  BY <1>2 DEF Unique!IInv, Unique!TypeOK, Unique!Apart, Unique!Held, Unique!GivenAway
<1>4. Unique!TypeOK'
  BY <1>1, <1>2, <1>3 DEF Unique!IInv, Unique!TypeOK
<1>5. Unique!Held'
  BY <1>1, <1>2, <1>3 DEF Unique!IInv, Unique!Held, Unique!TypeOK
<1>6. Unique!GivenAway'
  BY <1>1, <1>2, <1>3 DEF Unique!IInv, Unique!TypeOK, Unique!GivenAway
<1>7. Unique!Dead'
  BY <1>1, <1>2, <1>3 DEF Unique!IInv, Unique!Held, Unique!TypeOK, Unique!Dead, Unique!Apart
<1>8. Unique!NotLost'
  <2> SUFFICES ASSUME NEW p \in Objects, uKind'[p] # Null
      PROVE  (\E g \in Handles : uPtr'[g] = p) \/ p \in uRaw' \/ uDestroyedBy'[p][uKind'[p]] > 0
    BY DEF Unique!NotLost
  <2>0. p # Null
    BY DEF Unique!IInv, Unique!Apart
  <2>1. CASE p = uPtr[h]
    BY <1>1, <1>2, <1>3, <2>0, <2>1
  <2>2. CASE p # uPtr[h] /\ \E g \in Handles : uPtr[g] = p
    BY <1>2, <1>3, <2>2 DEF Unique!IInv, Unique!TypeOK
  <2>3. CASE p \in uRaw
    BY <1>2, <1>3, <2>3 DEF Unique!IInv, Unique!TypeOK
  <2>4. CASE p # uPtr[h] /\ p \notin uRaw /\ ~\E g \in Handles : uPtr[g] = p
    <3>1. CASE p = o
      BY <1>2, <1>3, <3>1 DEF Unique!IInv, Unique!TypeOK
    <3>2. CASE ~(p = o)
      <4>1. uKind'[p] = uKind[p] /\ uKind[p] \in Deleters
        BY <1>2, <1>3, <3>2 DEF Unique!IInv, Unique!TypeOK
      <4>2. uDestroyedBy[p][uKind[p]] > 0
        BY <2>4, <4>1 DEF Unique!IInv, Unique!NotLost, Unique!Apart
      <4> QED
        BY <1>1, <2>4, <4>1, <4>2
    <3> QED
      BY <3>1, <3>2
  <2> QED
    BY <2>1, <2>2, <2>3, <2>4
<1> QED
  BY <1>4, <1>5, <1>6, <1>7, <1>8 DEF Unique!IInv, Unique!Apart

(* A move: the deleter goes with the object, after the old one was used.   *)
LEMMA UniqueMoveAssignKeeps ==
  ASSUME Unique!IInv, NEW h \in Handles, NEW k \in Handles, Unique!MoveAssign(h, k)
  PROVE  Unique!IInv'
<1>1. /\ uDestroyedBy' \in [Objects -> [Deleters -> Nat]]
      /\ \A p \in Objects, d \in Deleters : uDestroyedBy'[p][d] =
           IF p = uPtr[h] /\ d = uDeleter[h] THEN 1 ELSE uDestroyedBy[p][d]
      /\ \A p \in uRaw, d \in Deleters : uDestroyedBy'[p][d] = 0
      /\ uPtr[h] # Null => uDestroyedBy'[uPtr[h]][uKind[uPtr[h]]] = 1
  BY UniqueDestroyed DEF Unique!MoveAssign
<1>2. /\ h # k /\ uKind' = uKind /\ uDeleter' = [uDeleter EXCEPT ![h] = uDeleter[k]]
      /\ uPtr' = [uPtr EXCEPT ![h] = uPtr[k], ![k] = Null] /\ uRaw' = uRaw
  BY DEF Unique!MoveAssign
<1>3. /\ uPtr'[h] = uPtr[k] /\ uPtr'[k] = Null /\ uDeleter'[h] = uDeleter[k]
      /\ uDeleter[h] \in Deleters /\ uDeleter[k] \in Deleters
      /\ \A g \in Handles \ {h, k} : uPtr'[g] = uPtr[g]
      /\ \A g \in Handles \ {h} : uDeleter'[g] = uDeleter[g]
  BY <1>2 DEF Unique!IInv, Unique!TypeOK
<1>4. Unique!TypeOK'
  BY <1>1, <1>2, <1>3 DEF Unique!IInv, Unique!TypeOK
<1>5. Unique!Held'
  BY <1>1, <1>2, <1>3 DEF Unique!IInv, Unique!Held, Unique!TypeOK
<1>6. Unique!GivenAway'
  BY <1>1, <1>2, <1>3 DEF Unique!IInv, Unique!TypeOK, Unique!GivenAway
<1>7. Unique!Dead'
  BY <1>1, <1>2, <1>3 DEF Unique!IInv, Unique!Held, Unique!TypeOK, Unique!Dead, Unique!Apart
<1>8. Unique!NotLost'
  <2> SUFFICES ASSUME NEW p \in Objects, uKind'[p] # Null
      PROVE  (\E g \in Handles : uPtr'[g] = p) \/ p \in uRaw' \/ uDestroyedBy'[p][uKind'[p]] > 0
    BY DEF Unique!NotLost
  <2>0. p # Null
    BY DEF Unique!IInv, Unique!Apart
  <2>1. CASE p = uPtr[h]
    BY <1>1, <1>2, <1>3, <2>0, <2>1
  <2>2. CASE p # uPtr[h] /\ \E g \in Handles : uPtr[g] = p
    BY <1>2, <1>3, <2>2 DEF Unique!IInv, Unique!TypeOK
  <2>3. CASE p \in uRaw
    BY <1>2, <1>3, <2>3 DEF Unique!IInv, Unique!TypeOK
  <2>4. CASE p # uPtr[h] /\ p \notin uRaw /\ ~\E g \in Handles : uPtr[g] = p
    <3>1. uKind'[p] = uKind[p] /\ uKind[p] \in Deleters
      BY <1>2 DEF Unique!IInv, Unique!TypeOK
    <3>2. uDestroyedBy[p][uKind[p]] > 0
      BY <2>4, <3>1 DEF Unique!IInv, Unique!NotLost, Unique!Apart
    <3> QED
      BY <1>1, <2>4, <3>1, <3>2
  <2> QED
    BY <2>1, <2>2, <2>3, <2>4
<1> QED
  BY <1>4, <1>5, <1>6, <1>7, <1>8 DEF Unique!IInv, Unique!Apart

(* A swap, with itself too.                                                *)
LEMMA UniqueSwapKeeps ==
  ASSUME Unique!IInv, NEW h \in Handles, NEW k \in Handles, Unique!Swap(h, k)
  PROVE  Unique!IInv'
<1>1. uKind' = uKind /\ uRaw' = uRaw /\ uDestroyedBy' = uDestroyedBy
  BY DEF Unique!Swap
<1>2. /\ uPtr' = [uPtr EXCEPT ![h] = uPtr[k], ![k] = uPtr[h]]
      /\ uDeleter' = [uDeleter EXCEPT ![h] = uDeleter[k], ![k] = uDeleter[h]]
  BY DEF Unique!Swap
<1>3. /\ uPtr'[h] = uPtr[k] /\ uPtr'[k] = uPtr[h]
      /\ uDeleter'[h] = uDeleter[k] /\ uDeleter'[k] = uDeleter[h]
      /\ uDeleter[h] \in Deleters /\ uDeleter[k] \in Deleters
      /\ \A g \in Handles \ {h, k} : uPtr'[g] = uPtr[g] /\ uDeleter'[g] = uDeleter[g]
  BY <1>2 DEF Unique!IInv, Unique!TypeOK
<1>4. Unique!TypeOK'
  BY <1>1, <1>2, <1>3 DEF Unique!IInv, Unique!TypeOK
<1>5. Unique!Held'
  BY <1>1, <1>3 DEF Unique!IInv, Unique!Held
<1>6. Unique!GivenAway'
  BY <1>1 DEF Unique!IInv, Unique!GivenAway
<1>7. Unique!Dead'
  BY <1>1 DEF Unique!IInv, Unique!Dead
<1>8. Unique!NotLost'
  <2>1. \A g \in Handles : \E f \in Handles : uPtr'[f] = uPtr[g]
    BY <1>3
  <2> QED
    BY <1>1, <2>1 DEF Unique!IInv, Unique!NotLost
<1> QED
  BY <1>4, <1>5, <1>6, <1>7, <1>8 DEF Unique!IInv, Unique!Apart

(* Every step keeps Unique!IInv.                                           *)
LEMMA UniqueInductive == Unique!IInv /\ [Unique!Next]_Unique!vars => Unique!IInv'
<1> SUFFICES ASSUME Unique!IInv, [Unique!Next]_Unique!vars PROVE Unique!IInv'
  OBVIOUS
<1>1. CASE UNCHANGED Unique!vars
  BY <1>1 DEF Unique!vars, Unique!IInv, Unique!Apart, Unique!TypeOK, Unique!Held, Unique!GivenAway, Unique!Dead, Unique!NotLost
<1>2. CASE Unique!Next
  BY <1>2, UniqueResetKeeps, UniqueReleaseKeeps, UniqueResetNewKeeps, UniqueAdoptKeeps, UniqueMoveAssignKeeps, UniqueSwapKeeps DEF Unique!Next
<1> QED
  BY <1>1, <1>2

(* Empty handles.                                                          *)
LEMMA UniqueInitHolds == Unique!Apart /\ Unique!Init => Unique!IInv
BY DEF Unique!Init, Unique!IInv, Unique!Apart, Unique!TypeOK, Unique!Held, Unique!GivenAway, Unique!Dead, Unique!NotLost

-----------------------------------------------------------------------------
(* LoanTokens *)

(* A token resolves as long as its record is there.                        *)
LEMMA TokensImplied == Tokens!IInv => Tokens!TokensExclude
<1> SUFFICES ASSUME Tokens!IInv PROVE Tokens!TokensExclude
  OBVIOUS
<1>0. Tokens!Presented \subseteq Tokens!AllTokens /\ ltIssued \subseteq Tokens!AllTokens
  BY DEF Tokens!Presented, Tokens!AllTokens, Tokens!IInv, Tokens!Known
<1>1. \A t \in Tokens!AllTokens : Tokens!Access(t) <=> t \in ltIssued \ ltRepaid
  BY DEF Tokens!IInv, Tokens!Known
<1>r. \A i \in 1..Len(ltLoans) : ltLoans[i] \in Tokens!AllTokens /\ ltLoans[i] \in ltIssued \ ltRepaid
  BY DEF Tokens!IInv, Tokens!Records, Tokens!Known, Tokens!Access
<1>2. \A t \in ltIssued : Tokens!AccessMut(t) => Tokens!Access(t)
  <2> SUFFICES ASSUME NEW t \in ltIssued, NEW i \in 1..Len(ltLoans), ltLoans[i].id = t.id PROVE Tokens!Access(t)
    BY DEF Tokens!AccessMut
  <2> QED
    BY <1>r DEF Tokens!IInv, Tokens!Known, Tokens!Access
<1>3. ASSUME NEW t \in ltIssued, NEW u \in Tokens!Presented, Tokens!AccessMut(t), Tokens!Access(u) \/ Tokens!AccessMut(u)
      PROVE  t = u
  <2>1. PICK i \in 1..Len(ltLoans) : ltLoans[i] = t
    BY <1>2, <1>3 DEF Tokens!Access
  <2>2. t.mut /\ Len(ltLoans) = 1
    BY <1>3, <2>1 DEF Tokens!AccessMut, Tokens!IInv, Tokens!Writes
  <2>3. \A j \in 1..Len(ltLoans) : ltLoans[j] = t
    BY <2>1, <2>2
  <2>4. CASE Tokens!Access(u)
    BY <2>3, <2>4 DEF Tokens!Access
  <2>5. CASE Tokens!AccessMut(u)
    <3>1. u.mut /\ u.id = t.id
      BY <2>3, <2>5 DEF Tokens!AccessMut
    <3>2. u.mut = TRUE /\ t.mut = TRUE
      BY <3>1, <2>2, <1>0, Zenon DEF Tokens!AllTokens
    <3> QED
      BY <3>1, <3>2, <1>0 DEF Tokens!AllTokens
  <2> QED
    BY <1>3, <2>4, <2>5
<1>4. ASSUME NEW t \in Tokens!Presented, Tokens!AccessMut(t), t \notin ltIssued
      PROVE  Tokens!Token(t.id, FALSE) \in ltIssued \ ltRepaid
  <2>1. PICK i \in 1..Len(ltLoans) : ltLoans[i].id = t.id
    BY <1>4 DEF Tokens!AccessMut
  <2>2. PICK r \in Tokens!AllTokens : r = ltLoans[i] /\ r \in ltIssued \ ltRepaid /\ r.id = t.id
    BY <1>r, <2>1
  <2>3. ~r.mut
    <3>1. SUFFICES ASSUME r.mut PROVE FALSE
      OBVIOUS
    <3>2. Tokens!AccessMut(r)
      BY <2>1, <2>2, <3>1 DEF Tokens!AccessMut
    <3>3. r = t
      BY <1>3, <1>4, <2>2, <3>2
    <3> QED
      BY <1>4, <2>2, <3>3
  <2>4. r = Tokens!Token(t.id, FALSE)
    BY <2>2, <2>3 DEF Tokens!AllTokens, Tokens!Token
  <2> QED
    BY <2>2, <2>4
<1>5. ltWriter <=> \E t \in ltIssued : Tokens!AccessMut(t)
  <2>1. ASSUME NEW i \in 1..Len(ltLoans), ltLoans[i].mut PROVE \E t \in ltIssued : Tokens!AccessMut(t)
    BY <1>r, <2>1 DEF Tokens!AccessMut
  <2>2. ASSUME NEW t \in ltIssued, Tokens!AccessMut(t) PROVE \E i \in 1..Len(ltLoans) : ltLoans[i].mut
    BY <1>2, <2>2 DEF Tokens!Access, Tokens!AccessMut
  <2> QED
    BY <2>1, <2>2 DEF Tokens!IInv, Tokens!Writes
<1> QED
  BY <1>0, <1>1, <1>3, <1>4, <1>5 DEF Tokens!TokensExclude

(* A new token has a new id, so no other has its record.                   *)
LEMMA TokensIssueKeeps ==
  ASSUME Tokens!IInv, NEW m \in BOOLEAN, Tokens!Issue(m), ltRepaid' = ltRepaid,
         ltWriter' \in BOOLEAN
  PROVE  Tokens!Records' /\ Tokens!Known'
<1> DEFINE t == Tokens!Token(ltNextId, m)
<1>1. t \in Tokens!AllTokens /\ t.id = ltNextId /\ t.mut = m
  BY DEF Tokens!IInv, Tokens!Records, Tokens!AllTokens, Tokens!Token
<1> HIDE DEF t
<1>2. /\ ltLoans' = Append(ltLoans, t) /\ ltNextId' = ltNextId + 1
      /\ ltIssued' = ltIssued \cup {t}
  BY DEF Tokens!Issue, t
<1>3. \A i \in 1..Len(ltLoans) : ltLoans[i] \in ltIssued
  BY DEF Tokens!IInv, Tokens!Records, Tokens!Known, Tokens!Access
<1>4. Len(ltLoans') = Len(ltLoans) + 1 /\ \A i \in 1..Len(ltLoans') : ltLoans'[i] = IF i = Len(ltLoans) + 1 THEN t ELSE ltLoans[i]
  BY <1>1, <1>2 DEF Tokens!IInv, Tokens!Records
<1>5. \A i \in 1..Len(ltLoans) : ltLoans[i].id < ltNextId
  BY <1>3 DEF Tokens!IInv, Tokens!Known
<1>6. Tokens!Records'
  <2>1. ltLoans' \in Seq(Tokens!AllTokens) /\ ltNextId' \in Nat
    BY <1>1, <1>2 DEF Tokens!IInv, Tokens!Records
  <2>2. \A i, j \in 1..Len(ltLoans') : ltLoans'[i].id = ltLoans'[j].id => i = j
    BY <1>1, <1>4, <1>5 DEF Tokens!IInv, Tokens!Records
  <2> QED
    BY <2>1, <2>2 DEF Tokens!Records
<1>7. \A u \in Tokens!AllTokens : Tokens!Access(u)' <=> Tokens!Access(u) \/ u = t
  BY <1>4 DEF Tokens!Access, Tokens!IInv, Tokens!Records
<1>8. t \notin ltIssued
  BY <1>1 DEF Tokens!IInv, Tokens!Known, Tokens!Records
<1>9. Tokens!Known'
  <2>1. \A u \in ltIssued' : u.id < ltNextId'
    BY <1>1, <1>2 DEF Tokens!IInv, Tokens!Known, Tokens!Records, Tokens!AllTokens
  <2>2. \A u, v \in ltIssued' : u.id = v.id => u = v
    BY <1>1, <1>2 DEF Tokens!IInv, Tokens!Known, Tokens!Records, Tokens!AllTokens
  <2> QED
    BY <1>1, <1>2, <1>7, <1>8, <2>1, <2>2 DEF Tokens!IInv, Tokens!Known
<1> QED
  BY <1>6, <1>9

(* borrow(): one more reader.                                              *)
LEMMA TokensBorrowKeeps == Tokens!IInv /\ Tokens!Borrow => Tokens!IInv'
<1> SUFFICES ASSUME Tokens!IInv, Tokens!Borrow PROVE Tokens!IInv'
  OBVIOUS
<1>1. Tokens!Records' /\ Tokens!Known'
  BY TokensIssueKeeps DEF Tokens!Borrow, Tokens!IInv, Tokens!Records
<1>2. /\ Len(ltLoans') = Len(ltLoans) + 1 /\ ~ltWriter /\ ~ltWriter'
      /\ \A i \in 1..Len(ltLoans') : ltLoans'[i] = IF i = Len(ltLoans) + 1 THEN Tokens!Token(ltNextId, FALSE) ELSE ltLoans[i]
  <2>1. ltLoans \in Seq(Tokens!AllTokens) /\ Tokens!Token(ltNextId, FALSE) \in Tokens!AllTokens
    BY DEF Tokens!IInv, Tokens!Records, Tokens!AllTokens, Tokens!Token
  <2>2. ~ltWriter /\ ltWriter' = ltWriter /\ ltLoans' = Append(ltLoans, Tokens!Token(ltNextId, FALSE))
    BY DEF Tokens!Borrow, Tokens!Issue
  <2>3. ~ltWriter'
    BY <2>2, Zenon
  <2>4. /\ Len(ltLoans') = Len(ltLoans) + 1
        /\ \A i \in 1..Len(ltLoans') : ltLoans'[i] = IF i = Len(ltLoans) + 1 THEN Tokens!Token(ltNextId, FALSE) ELSE ltLoans[i]
    <3>1. PICK r \in Tokens!AllTokens : r = Tokens!Token(ltNextId, FALSE)
      BY <2>1
    <3>2. ltLoans' = Append(ltLoans, r)
      BY <2>2, <3>1
    <3>3. Len(ltLoans') = Len(ltLoans) + 1 /\ \A i \in 1..Len(ltLoans') : ltLoans'[i] = IF i = Len(ltLoans) + 1 THEN r ELSE ltLoans[i]
      BY <2>1, <3>2
    <3> QED
      BY <3>1, <3>3, Zenon
  <2> QED
    BY <2>2, <2>3, <2>4, Zenon
<1>3. Tokens!Writes'
  BY <1>2 DEF Tokens!IInv, Tokens!Writes, Tokens!Token, Tokens!Records
<1> QED
  BY <1>1, <1>3 DEF Tokens!IInv

(* borrow_mut(): with no loans, the writer is alone.                       *)
LEMMA TokensBorrowMutKeeps == Tokens!IInv /\ Tokens!BorrowMut => Tokens!IInv'
<1> SUFFICES ASSUME Tokens!IInv, Tokens!BorrowMut PROVE Tokens!IInv'
  OBVIOUS
<1>1. Tokens!Records' /\ Tokens!Known'
  BY TokensIssueKeeps DEF Tokens!BorrowMut, Tokens!IInv, Tokens!Records
<1>2. Len(ltLoans') = 1 /\ ltLoans'[1] = Tokens!Token(ltNextId, TRUE) /\ ltWriter'
  BY DEF Tokens!BorrowMut, Tokens!Issue, Tokens!IInv, Tokens!Records
<1>3. Tokens!Writes'
  BY <1>2 DEF Tokens!IInv, Tokens!Writes, Tokens!Token
<1> QED
  BY <1>1, <1>3 DEF Tokens!IInv

(* repay(): exactly the record of the token goes.                          *)
LEMMA TokensRepayKeeps ==
  ASSUME Tokens!IInv, NEW t \in Tokens!Presented, Tokens!Repay(t)
  PROVE  Tokens!IInv'
<1> DEFINE k == Tokens!Find(t)
<1>1. k \in 1..Len(ltLoans) /\ ltLoans[k].id = t.id
  BY DEF Tokens!Repay, Tokens!Access, Tokens!Find
<1>t. t \in Tokens!AllTokens
  BY DEF Tokens!Presented, Tokens!AllTokens
<1>2. t \in ltIssued /\ ltLoans[k] = t
  BY <1>1, <1>t DEF Tokens!Repay, Tokens!Access, Tokens!IInv, Tokens!Known, Tokens!Records
<1>3. /\ ltLoans' = [j \in 1..(Len(ltLoans) - 1) |-> ltLoans[IF j < k THEN j ELSE j + 1]]
      /\ ltWriter' = (ltWriter /\ ~t.mut) /\ ltRepaid' = ltRepaid \cup {t}
      /\ ltNextId' = ltNextId /\ ltIssued' = ltIssued
  BY DEF Tokens!Repay, Tokens!Prune
<1> HIDE DEF k
<1>4. Len(ltLoans) \in Nat /\ ltLoans \in Seq(Tokens!AllTokens)
  BY DEF Tokens!IInv, Tokens!Records
<1>5. \A j \in 1..(Len(ltLoans) - 1) : (IF j < k THEN j ELSE j + 1) \in 1..Len(ltLoans)
  BY <1>1, <1>4
<1>6. ltLoans' \in Seq(Tokens!AllTokens) /\ Len(ltLoans') = Len(ltLoans) - 1
  BY <1>1, <1>3, <1>4, <1>5
<1>7. Tokens!Records'
  BY <1>1, <1>3, <1>4, <1>5, <1>6 DEF Tokens!IInv, Tokens!Records
<1>8. \A u \in Tokens!AllTokens : Tokens!Access(u)' <=> Tokens!Access(u) /\ u # t
  <2>1. ASSUME NEW u \in Tokens!AllTokens, Tokens!Access(u)' PROVE Tokens!Access(u) /\ u # t
    <3>1. PICK j \in 1..Len(ltLoans') : ltLoans'[j] = u
      BY <2>1 DEF Tokens!Access
    <3>2. ltLoans[IF j < k THEN j ELSE j + 1] = u
      BY <1>3, <1>6, <3>1
    <3>3. (IF j < k THEN j ELSE j + 1) # k
      BY <3>1, <1>1, <1>6, <1>4
    <3> QED
      BY <3>2, <3>3, <1>1, <1>2, <1>5, <1>6 DEF Tokens!Access, Tokens!IInv, Tokens!Records
  <2>2. ASSUME NEW u \in Tokens!AllTokens, Tokens!Access(u), u # t PROVE Tokens!Access(u)'
    <3>1. PICK i \in 1..Len(ltLoans) : ltLoans[i] = u
      BY <2>2 DEF Tokens!Access
    <3>2. i # k
      BY <2>2, <3>1, <1>2
    <3>3. CASE i < k
      <4>1. i \in 1..(Len(ltLoans) - 1)
        BY <3>3, <1>1, <1>4
      <4> QED
        BY <4>1, <3>1, <3>3, <1>3, <1>6 DEF Tokens!Access
    <3>4. CASE i > k
      <4>1. i - 1 \in 1..(Len(ltLoans) - 1) /\ ~(i - 1 < k) /\ (i - 1) + 1 = i
        BY <3>4, <1>1, <1>4
      <4>2. ltLoans'[i - 1] = u
        BY <4>1, <3>1, <1>3
      <4> QED
        BY <4>1, <4>2, <1>6 DEF Tokens!Access
    <3> QED
      BY <3>2, <3>3, <3>4, <1>1, <1>4
  <2> QED
    BY <2>1, <2>2
<1>9. Tokens!Known'
  BY <1>2, <1>t, <1>3, <1>8 DEF Tokens!IInv, Tokens!Known
<1>10. Tokens!Writes'
  <2>1. CASE t.mut
    <3>1. Len(ltLoans) = 1
      BY <2>1, <1>1, <1>2 DEF Tokens!IInv, Tokens!Writes
    <3>2. Len(ltLoans') = 0
      BY <3>1, <1>6
    <3>3. ~ltWriter'
      BY <2>1, <1>3, Zenon
    <3> QED
      BY <3>2, <3>3 DEF Tokens!Writes
  <2>2. CASE ~t.mut
    <3>1. \A i \in 1..Len(ltLoans) : ~ltLoans[i].mut
      BY <2>2, <1>1, <1>2, <1>4 DEF Tokens!IInv, Tokens!Writes
    <3>2. \A i \in 1..Len(ltLoans') : ~ltLoans'[i].mut
      BY <3>1, <1>3, <1>5, <1>6
    <3> QED
      BY <2>2, <3>1, <3>2, <1>3 DEF Tokens!Writes, Tokens!IInv
  <2> QED
    BY <2>1, <2>2
<1> QED
  BY <1>7, <1>9, <1>10 DEF Tokens!IInv

(* Every step keeps Tokens!IInv.                                           *)
LEMMA TokensInductive == Tokens!IInv /\ [Tokens!Next]_Tokens!vars => Tokens!IInv'
<1> SUFFICES ASSUME Tokens!IInv, [Tokens!Next]_Tokens!vars PROVE Tokens!IInv'
  OBVIOUS
<1>1. CASE UNCHANGED Tokens!vars
  BY <1>1 DEF Tokens!vars, Tokens!IInv, Tokens!Records, Tokens!Known, Tokens!Writes, Tokens!Access
<1>2. CASE Tokens!Next
  BY <1>2, TokensBorrowKeeps, TokensBorrowMutKeeps, TokensRepayKeeps DEF Tokens!Next
<1> QED
  BY <1>1, <1>2

(* Before the first loan.                                                  *)
LEMMA TokensInitHolds == Tokens!Init => Tokens!IInv
<1> SUFFICES ASSUME Tokens!Init PROVE Tokens!IInv
  OBVIOUS
<1>1. Len(ltLoans) = 0 /\ ltLoans \in Seq(Tokens!AllTokens)
  BY DEF Tokens!Init
<1>2. \A i \in 1..Len(ltLoans) : FALSE
  BY <1>1
<1>3. Tokens!Records
  BY <1>1, <1>2 DEF Tokens!Init, Tokens!Records
<1>4. Tokens!Known
  BY <1>2 DEF Tokens!Init, Tokens!Known, Tokens!Access
<1>5. Tokens!Writes
  BY <1>2 DEF Tokens!Init, Tokens!Writes
<1> QED
  BY <1>3, <1>4, <1>5 DEF Tokens!IInv

-----------------------------------------------------------------------------
(* StateBorrow *)

(* Typed's finite sets are those that the theorems on finite sets are      *)
(* about.                                                                  *)
LEMMA TypedCardinality ==
  ASSUME NEW S
  PROVE  Typed!Cardinality(S) = Cardinality(S) /\ (Typed!IsFiniteSet(S) <=> IsFiniteSet(S))
BY DEF Typed!Cardinality, Cardinality, Typed!IsFiniteSet, IsFiniteSet

(* Whoever joins or leaves a set of handles changes its size by one.       *)
LEMMA TypedRecount ==
  ASSUME Typed!IsFiniteSet(Refs), NEW S \in SUBSET Refs, NEW r \in Refs
  PROVE  /\ Typed!Cardinality(S) \in Nat
         /\ r \notin S => Typed!Cardinality(S \cup {r}) = Typed!Cardinality(S) + 1
         /\ r \in S => Typed!Cardinality(S \ {r}) = Typed!Cardinality(S) - 1
BY TypedCardinality, FS_Subset, FS_AddElement, FS_RemoveElement, FS_CardinalityType

(* The object of an SMut is in a LockedBox, so in no SBox, and a reader    *)
(* has one of an SBox.                                                     *)
LEMMA TypedImplied ==
  ASSUME Typed!Sized, Typed!IInv
  PROVE  Typed!WritersAlone /\ Typed!ReadersCounted
<1> SUFFICES ASSUME NEW m \in Muts, sbMut[m] # Null
             PROVE  /\ \A n \in Muts \ {m} : sbMut[n] # sbMut[m]
                    /\ \A r \in Refs : sbRef[r].ptr # sbMut[m]
                    /\ \A b \in Boxes : sbValue[b] # sbMut[m]
  BY DEF Typed!IInv, Typed!WritersAlone
<1>1. PICK l \in Locks : sbLocked[l] = sbMut[m]
  BY DEF Typed!IInv, Typed!Writing
<1>2. \A n \in Muts \ {m} : sbMut[n] # sbMut[m]
  BY DEF Typed!IInv, Typed!Writing
<1>3. \A b \in Boxes : sbValue[b] # sbMut[m]
  BY <1>1 DEF Typed!IInv, Typed!Apart
<1>4. ASSUME NEW r \in Refs PROVE sbRef[r].ptr # sbMut[m]
  <2>1. CASE sbRef[r] = Typed!Empty
    BY <2>1 DEF Typed!Empty
  <2>2. CASE sbRef[r] # Typed!Empty
    <3>1. \E b \in Boxes : sbRef[r].ptr = sbValue[b]
      BY <2>2 DEF Typed!IInv, Typed!Reading, Typed!Counted
    <3> QED
      BY <3>1, <1>3
  <2> QED
    BY <2>1, <2>2
<1> QED
  BY <1>2, <1>3, <1>4

(* How readers_ changes, box by box.                                       *)
LEMMA TypedCounts ==
  ASSUME Typed!Sized, Typed!TypeOK, NEW f \in [Boxes -> Int], NEW o \in Boxes \cup {Null}
  PROVE  /\ Typed!AddReader(f, o) \in [Boxes -> Int] /\ Typed!ReleaseReader(f, o) \in [Boxes -> Int]
         /\ \A b \in Boxes : /\ Typed!AddReader(f, o)[b] = f[b] + (IF o = b THEN 1 ELSE 0)
                             /\ Typed!ReleaseReader(f, o)[b] = f[b] - (IF o = b THEN 1 ELSE 0)
BY DEF Typed!AddReader, Typed!ReleaseReader, Typed!Sized

(* How many handles a box has when one handle changes hands.               *)
LEMMA TypedOwnerChanges ==
  ASSUME Typed!Sized, NEW r \in Refs, \A q \in Refs \ {r} : sbRef'[q].owner = sbRef[q].owner, NEW b
  PROVE  Typed!Cardinality(Typed!Readers(b)') = (Typed!Cardinality(Typed!Readers(b)) + (IF sbRef'[r].owner = b THEN 1 ELSE 0))
                                                - (IF sbRef[r].owner = b THEN 1 ELSE 0)
<1> DEFINE R == Typed!Readers(b)
<1>0. R \in SUBSET Refs /\ Typed!IsFiniteSet(Refs) /\ (r \in R <=> sbRef[r].owner = b)
  BY DEF Typed!Readers, Typed!Sized
<1>1. Typed!Readers(b)' = IF sbRef'[r].owner = b THEN R \cup {r} ELSE R \ {r}
  BY DEF Typed!Readers
<1> HIDE DEF R
<1>2. /\ Typed!Cardinality(R) \in Nat
      /\ r \notin R => Typed!Cardinality(R \cup {r}) = Typed!Cardinality(R) + 1
      /\ r \in R => Typed!Cardinality(R \ {r}) = Typed!Cardinality(R) - 1
  BY <1>0, TypedRecount
<1>3. r \in R => Typed!Cardinality(R \cup {r}) = Typed!Cardinality(R)
  <2>1. r \in R => R \cup {r} = R
    OBVIOUS
  <2> QED
    BY <2>1, Zenon
<1>4. r \notin R => Typed!Cardinality(R \ {r}) = Typed!Cardinality(R)
  <2>1. r \notin R => R \ {r} = R
    OBVIOUS
  <2> QED
    BY <2>1, Zenon
<1>5. Typed!Cardinality(Typed!Readers(b)') = IF sbRef'[r].owner = b THEN Typed!Cardinality(R \cup {r}) ELSE Typed!Cardinality(R \ {r})
  BY <1>1, Zenon
<1>6. Typed!Cardinality(Typed!Readers(b)') = (Typed!Cardinality(R) + (IF sbRef'[r].owner = b THEN 1 ELSE 0))
                                             - (IF sbRef[r].owner = b THEN 1 ELSE 0)
  BY <1>0, <1>2, <1>3, <1>4, <1>5
<1> QED
  BY <1>6 DEF R

(* The count of a box follows its handles, and what came with its object.  *)
LEMMA TypedCounted ==
  ASSUME Typed!Sized, Typed!IInv, NEW b \in Boxes
  PROVE  /\ sbReaders[b] = Typed!Cardinality(Typed!Readers(b)) + sbCarried[b]
         /\ sbReaders[b] \in Nat /\ sbCarried[b] \in Nat /\ Typed!Cardinality(Typed!Readers(b)) \in Nat
<1>1. Typed!Readers(b) \in SUBSET Refs
  BY DEF Typed!Readers
<1>2. Typed!Cardinality(Typed!Readers(b)) \in Nat
  BY <1>1, TypedCardinality, FS_Subset, FS_CardinalityType DEF Typed!Sized
<1> QED
  BY <1>2 DEF Typed!IInv, Typed!TypeOK, Typed!ReadersCounted

(* A step of the readers moves no object.                                  *)
LEMMA TypedRefsKeep ==
  ASSUME Typed!Sized, Typed!IInv, UNCHANGED <<sbValue, sbLocked, sbMut, sbCarried>>,
         sbRef' \in [Refs -> [ptr : Values \cup {Null}, owner : Boxes \cup {Null}]],
         sbReaders' \in [Boxes -> Int],
         \A b \in Boxes : sbReaders'[b] = Typed!Cardinality(Typed!Readers(b)') + sbCarried[b],
         \A r \in Refs : \/ sbRef'[r] = Typed!Empty
                         \/ sbRef'[r].owner # Null /\ sbRef'[r].ptr # Null /\ Typed!Counted(sbRef'[r])
  PROVE  Typed!IInv'
<1>1. \A b \in Boxes : sbReaders'[b] \in Nat
  <2> SUFFICES ASSUME NEW b \in Boxes PROVE sbReaders'[b] \in Nat
    OBVIOUS
  <2>1. Typed!Readers(b)' \in SUBSET Refs
    BY DEF Typed!Readers
  <2>2. Typed!Cardinality(Typed!Readers(b)') \in Nat /\ sbCarried[b] \in Nat
    BY <2>1, TypedCardinality, FS_Subset, FS_CardinalityType DEF Typed!Sized, Typed!IInv, Typed!TypeOK
  <2> QED
    BY <2>2
<1>2. Typed!TypeOK'
  BY <1>1 DEF Typed!IInv, Typed!TypeOK
<1>3. Typed!Apart' /\ Typed!Writing'
  BY DEF Typed!IInv, Typed!Apart, Typed!Writing
<1>4. Typed!Reading'
  BY DEF Typed!Reading, Typed!Counted
<1>5. Typed!ReadersCounted'
  BY DEF Typed!ReadersCounted
<1> QED
  BY <1>2, <1>3, <1>4, <1>5 DEF Typed!IInv

(* borrow(), the copy and the end of an SRef.                              *)
LEMMA TypedOneRefKeeps ==
  ASSUME Typed!Sized, Typed!IInv, NEW r \in Refs,
         Typed!DropRef(r) \/ (\E s \in Refs : Typed!CopyRef(r, s)) \/ (\E b \in Boxes : Typed!Borrow(r, b))
  PROVE  Typed!IInv'
<1>0. /\ sbRef \in [Refs -> [ptr : Values \cup {Null}, owner : Boxes \cup {Null}]]
      /\ sbReaders \in [Boxes -> Int] /\ sbValue \in [Boxes -> Values \cup {Null}]
      /\ \A q \in Refs : \/ sbRef[q] = Typed!Empty
                         \/ sbRef[q].owner # Null /\ sbRef[q].ptr # Null /\ Typed!Counted(sbRef[q])
  BY DEF Typed!IInv, Typed!TypeOK, Typed!Reading
<1> DEFINE Set(h) == /\ sbRef' = [sbRef EXCEPT ![r] = h]
                     /\ h \in [ptr : Values \cup {Null}, owner : Boxes \cup {Null}]
                     /\ h = Typed!Empty \/ (h.owner # Null /\ h.ptr # Null /\ Typed!Counted(h))
                     /\ sbReaders' \in [Boxes -> Int]
                     /\ \A b \in Boxes : sbReaders'[b] = (sbReaders[b] + (IF h.owner = b THEN 1 ELSE 0))
                                                         - (IF sbRef[r].owner = b THEN 1 ELSE 0)
<1>1. \E h : Set(h)
  <2>1. CASE Typed!DropRef(r)
    <3>1. Typed!Empty \in [ptr : Values \cup {Null}, owner : Boxes \cup {Null}] /\ Typed!Empty.owner = Null
      BY DEF Typed!Empty
    <3>2. /\ sbReaders' \in [Boxes -> Int]
          /\ \A b \in Boxes : sbReaders'[b] = sbReaders[b] - (IF sbRef[r].owner = b THEN 1 ELSE 0)
      BY <1>0, <2>1, TypedCounts DEF Typed!DropRef, Typed!IInv
    <3>3. \A b \in Boxes : sbReaders'[b] = (sbReaders[b] + (IF Typed!Empty.owner = b THEN 1 ELSE 0))
                                           - (IF sbRef[r].owner = b THEN 1 ELSE 0)
      BY <1>0, <3>1, <3>2 DEF Typed!Sized
    <3>4. Set(Typed!Empty)
      BY ONLY <2>1, <3>1, <3>2, <3>3 DEF Typed!DropRef
    <3> QED
      BY ONLY <3>4
  <2>2. ASSUME NEW s \in Refs, Typed!CopyRef(r, s)
        PROVE  /\ sbReaders' \in [Boxes -> Int]
               /\ \A b \in Boxes : sbReaders'[b] = (sbReaders[b] + (IF sbRef[s].owner = b THEN 1 ELSE 0))
                                                   - (IF sbRef[r].owner = b THEN 1 ELSE 0)
    <3> DEFINE f == Typed!ReleaseReader(sbReaders, sbRef[r].owner)
    <3>1. f \in [Boxes -> Int] /\ \A b \in Boxes : f[b] = sbReaders[b] - (IF sbRef[r].owner = b THEN 1 ELSE 0)
      BY <1>0, TypedCounts DEF Typed!IInv
    <3>2. sbReaders' = Typed!AddReader(f, sbRef[s].owner)
      BY <2>2 DEF Typed!CopyRef
    <3> HIDE DEF f
    <3>3. sbReaders' \in [Boxes -> Int] /\ \A b \in Boxes : sbReaders'[b] = f[b] + (IF sbRef[s].owner = b THEN 1 ELSE 0)
      BY <1>0, <3>1, <3>2, TypedCounts DEF Typed!IInv
    <3> QED
      BY <1>0, <3>1, <3>3
  <2>3. ASSUME NEW c \in Boxes, Typed!Borrow(r, c)
        PROVE  /\ sbReaders' \in [Boxes -> Int]
               /\ \A b \in Boxes : sbReaders'[b] = (sbReaders[b] + (IF c = b THEN 1 ELSE 0))
                                                   - (IF sbRef[r].owner = b THEN 1 ELSE 0)
    <3> DEFINE f == Typed!AddReader(sbReaders, c)
    <3>1. f \in [Boxes -> Int] /\ \A b \in Boxes : f[b] = sbReaders[b] + (IF c = b THEN 1 ELSE 0)
      BY <1>0, TypedCounts DEF Typed!IInv
    <3>2. sbReaders' = Typed!ReleaseReader(f, sbRef[r].owner)
      BY <2>3 DEF Typed!Borrow
    <3> HIDE DEF f
    <3>3. sbReaders' \in [Boxes -> Int] /\ \A b \in Boxes : sbReaders'[b] = f[b] - (IF sbRef[r].owner = b THEN 1 ELSE 0)
      BY <1>0, <3>1, <3>2, TypedCounts DEF Typed!IInv
    <3> QED
      BY <1>0, <3>1, <3>3
  <2>4. ASSUME NEW s \in Refs, Typed!CopyRef(r, s) PROVE sbRef' = [sbRef EXCEPT ![r] = sbRef[s]]
    BY <2>4 DEF Typed!CopyRef
  <2>5. ASSUME NEW c \in Boxes, Typed!Borrow(r, c)
        PROVE  /\ sbRef' = [sbRef EXCEPT ![r] = [ptr |-> sbValue[c], owner |-> c]]
               /\ sbValue[c] # Null /\ c # Null /\ Typed!Counted([ptr |-> sbValue[c], owner |-> c])
    BY <2>5 DEF Typed!Borrow, Typed!Sized, Typed!Counted
  <2>6. ASSUME NEW s \in Refs, Typed!CopyRef(r, s) PROVE Set(sbRef[s])
    BY ONLY <1>0, <2>2, <2>4, <2>6, s \in Refs
  <2>7. ASSUME NEW c \in Boxes, Typed!Borrow(r, c) PROVE Set([ptr |-> sbValue[c], owner |-> c])
    <3> DEFINE n == [ptr |-> sbValue[c], owner |-> c]
    <3>1. n \in [ptr : Values \cup {Null}, owner : Boxes \cup {Null}] /\ n.ptr = sbValue[c] /\ n.owner = c
      BY <1>0
    <3>2. /\ sbRef' = [sbRef EXCEPT ![r] = n] /\ sbValue[c] # Null /\ c # Null /\ Typed!Counted(n)
      BY <2>5, <2>7
    <3> HIDE DEF n
    <3>3. Set(n)
      BY ONLY <2>3, <2>7, <3>1, <3>2, c \in Boxes
    <3> QED
      BY ONLY <3>3 DEF n
  <2> HIDE DEF Set
  <2> QED
    BY <2>1, <2>6, <2>7
<1>1h. PICK h : Set(h)
  BY ONLY <1>1
<1>2. sbRef'[r] = h /\ \A q \in Refs \ {r} : sbRef'[q] = sbRef[q]
  BY <1>0, <1>1h
<1>3. ASSUME NEW b \in Boxes PROVE sbReaders'[b] = Typed!Cardinality(Typed!Readers(b)') + sbCarried[b]
  BY <1>1h, <1>2, TypedOwnerChanges, TypedCounted
<1>4. UNCHANGED <<sbValue, sbLocked, sbMut, sbCarried>>
  BY DEF Typed!DropRef, Typed!CopyRef, Typed!Borrow
<1>5. sbRef' \in [Refs -> [ptr : Values \cup {Null}, owner : Boxes \cup {Null}]]
  BY <1>0, <1>1h
<1>6. \A q \in Refs : \/ sbRef'[q] = Typed!Empty
                      \/ sbRef'[q].owner # Null /\ sbRef'[q].ptr # Null /\ Typed!Counted(sbRef'[q])
  BY <1>0, <1>1h, <1>2
<1> QED
  BY <1>1h, <1>3, <1>4, <1>5, <1>6, TypedRefsKeep

(* A move of an SRef.                                                      *)
LEMMA TypedMoveRefKeeps ==
  ASSUME Typed!Sized, Typed!IInv, NEW r \in Refs, NEW s \in Refs, Typed!MoveRef(r, s)
  PROVE  Typed!IInv'
<1>0. /\ sbRef \in [Refs -> [ptr : Values \cup {Null}, owner : Boxes \cup {Null}]]
      /\ sbReaders \in [Boxes -> Int]
      /\ \A q \in Refs : \/ sbRef[q] = Typed!Empty
                         \/ sbRef[q].owner # Null /\ sbRef[q].ptr # Null /\ Typed!Counted(sbRef[q])
  BY DEF Typed!IInv, Typed!TypeOK, Typed!Reading
<1>1. Typed!Empty \in [ptr : Values \cup {Null}, owner : Boxes \cup {Null}] /\ Typed!Empty.owner = Null /\ Null \notin Boxes
  BY DEF Typed!Empty, Typed!Sized
<1>2. /\ r # s /\ sbRef'[r] = sbRef[s] /\ sbRef'[s] = Typed!Empty /\ \A q \in Refs \ {r, s} : sbRef'[q] = sbRef[q]
      /\ sbRef' \in [Refs -> [ptr : Values \cup {Null}, owner : Boxes \cup {Null}]]
      /\ UNCHANGED <<sbValue, sbLocked, sbMut, sbCarried>>
  BY <1>0, <1>1 DEF Typed!MoveRef
<1>3. /\ sbReaders' \in [Boxes -> Int]
      /\ \A b \in Boxes : sbReaders'[b] = sbReaders[b] - (IF sbRef[r].owner = b THEN 1 ELSE 0)
  BY <1>0, TypedCounts DEF Typed!MoveRef, Typed!IInv
<1>4. ASSUME NEW b \in Boxes PROVE sbReaders'[b] = Typed!Cardinality(Typed!Readers(b)') + sbCarried[b]
  <2> DEFINE R == Typed!Readers(b)
  <2>0. R \in SUBSET Refs /\ R \ {s} \in SUBSET Refs /\ Typed!IsFiniteSet(Refs)
        /\ (r \in R <=> sbRef[r].owner = b) /\ (s \in R <=> sbRef[s].owner = b)
        /\ sbReaders[b] = Typed!Cardinality(R) + sbCarried[b] /\ Typed!Cardinality(R) \in Nat /\ sbCarried[b] \in Nat
    BY TypedCounted DEF Typed!Readers, Typed!Sized
  <2>1. Typed!Readers(b)' = IF sbRef[s].owner = b THEN (R \ {s}) \cup {r} ELSE R \ {r}
    BY <1>1, <1>2 DEF Typed!Readers
  <2> HIDE DEF R
  <2>2. CASE s \in R /\ r \in R
    <3>1. Typed!Readers(b)' = R \ {s}
      BY <2>0, <2>1, <2>2, <1>2
    <3> QED
      BY <3>1, <2>0, <2>2, <1>3, TypedRecount
  <2>3. CASE s \in R /\ r \notin R
    <3>1. Typed!Readers(b)' = (R \ {s}) \cup {r} /\ r \notin R \ {s}
      BY <2>0, <2>1, <2>3
    <3>2. Typed!Cardinality(R \ {s}) = Typed!Cardinality(R) - 1
      BY <2>0, <2>3, TypedRecount
    <3>3. Typed!Cardinality((R \ {s}) \cup {r}) = Typed!Cardinality(R \ {s}) + 1
      BY <2>0, <3>1, TypedRecount
    <3> QED
      BY <3>1, <3>2, <3>3, <2>0, <2>3, <1>3
  <2>4. CASE s \notin R /\ r \in R
    <3>1. Typed!Readers(b)' = R \ {r}
      BY <2>0, <2>1, <2>4
    <3> QED
      BY <3>1, <2>0, <2>4, <1>3, TypedRecount
  <2>5. CASE s \notin R /\ r \notin R
    <3>1. Typed!Readers(b)' = R
      BY <2>0, <2>1, <2>5
    <3> QED
      BY <3>1, <2>0, <2>5, <1>3
  <2> QED
    BY <2>2, <2>3, <2>4, <2>5
<1>5. \A q \in Refs : \/ sbRef'[q] = Typed!Empty
                      \/ sbRef'[q].owner # Null /\ sbRef'[q].ptr # Null /\ Typed!Counted(sbRef'[q])
  BY <1>0, <1>2
<1> QED
  BY <1>2, <1>3, <1>4, <1>5, TypedRefsKeep

(* A step that moves no reader keeps the counts that it does not write.    *)
LEMMA TypedBoxesKeep ==
  ASSUME Typed!Sized, Typed!IInv, Typed!TypeOK', Typed!Apart', Typed!Writing', Typed!Reading', UNCHANGED sbRef,
         \A b \in Boxes : \/ sbReaders'[b] = sbReaders[b] /\ sbCarried'[b] = sbCarried[b]
                          \/ Typed!Readers(b) = {} /\ sbReaders'[b] = sbCarried'[b]
  PROVE  Typed!IInv'
<1>1. ASSUME NEW b \in Boxes PROVE sbReaders'[b] = Typed!Cardinality(Typed!Readers(b)') + sbCarried'[b]
  <2>1. Typed!Readers(b)' = Typed!Readers(b) /\ sbCarried'[b] \in Nat
    BY DEF Typed!Readers, Typed!TypeOK
  <2>2. Typed!Readers(b) = {} => Typed!Cardinality(Typed!Readers(b)) = 0
    BY TypedCardinality, FS_EmptySet
  <2> QED
    BY <2>1, <2>2, TypedCounted
<1> QED
  BY <1>1 DEF Typed!IInv, Typed!ReadersCounted

(* Where no handle is counted, the count is what came along.               *)
LEMMA TypedUnread ==
  ASSUME Typed!Sized, Typed!IInv, NEW b \in Boxes
  PROVE  /\ sbReaders[b] = 0 => Typed!Readers(b) = {} /\ sbCarried[b] = 0
         /\ Typed!Readers(b) # {} \/ sbCarried[b] > 0 => sbReaders[b] > 0
<1>1. Typed!IsFiniteSet(Typed!Readers(b))
  BY TypedCardinality, FS_Subset DEF Typed!Readers, Typed!Sized
<1>2. Typed!Cardinality(Typed!Readers(b)) = 0 <=> Typed!Readers(b) = {}
  BY <1>1, TypedCardinality, FS_EmptySet
<1> QED
  BY <1>2, TypedCounted

(* Handles read on where their objects stay, counted as they were.         *)
LEMMA TypedReadingKept ==
  ASSUME Typed!IInv, UNCHANGED sbRef, NEW b \in Boxes,
         \A r \in Refs : sbRef[r].ptr # Null /\ sbRef[r].ptr = sbValue[b] => sbRef[r].owner # b /\ ~(sbCarried[b] > 0),
         \A c \in Boxes \ {b} : sbValue'[c] = sbValue[c] /\ sbCarried'[c] = sbCarried[c]
  PROVE  Typed!Reading'
<1> SUFFICES ASSUME NEW r \in Refs, sbRef[r] # Typed!Empty
             PROVE  sbRef[r].owner # Null /\ sbRef[r].ptr # Null /\
                    \E c \in Boxes : sbRef[r].ptr = sbValue'[c] /\ (sbRef[r].owner = c \/ sbCarried'[c] > 0)
  BY DEF Typed!Reading, Typed!Counted
<1>1. sbRef[r].owner # Null /\ sbRef[r].ptr # Null
  BY DEF Typed!IInv, Typed!Reading
<1>2. PICK c \in Boxes : sbRef[r].ptr = sbValue[c] /\ (sbRef[r].owner = c \/ sbCarried[c] > 0)
  BY DEF Typed!IInv, Typed!Reading, Typed!Counted
<1>3. c # b
  BY <1>1, <1>2
<1> QED
  BY <1>1, <1>2, <1>3

(* borrow_mut(): the object leaves the SBox for the LockedBox, unread.     *)
LEMMA TypedBorrowMutKeeps ==
  ASSUME Typed!Sized, Typed!IInv, NEW b \in Boxes, NEW l \in Locks, NEW m \in Muts, Typed!BorrowMut(b, l, m)
  PROVE  Typed!IInv'
<1>0. Typed!Readers(b) = {} /\ sbCarried[b] = 0
  BY TypedUnread DEF Typed!BorrowMut
<1>1. Typed!TypeOK'
  BY DEF Typed!BorrowMut, Typed!IInv, Typed!TypeOK
<1>2. /\ sbValue[b] # Null /\ sbLocked[l] = Null /\ sbMut[m] = Null
      /\ sbValue'[b] = Null /\ \A c \in Boxes \ {b} : sbValue'[c] = sbValue[c]
      /\ sbLocked'[l] = sbValue[b] /\ \A k \in Locks \ {l} : sbLocked'[k] = sbLocked[k]
      /\ sbMut'[m] = sbValue[b] /\ \A n \in Muts \ {m} : sbMut'[n] = sbMut[n]
  BY DEF Typed!BorrowMut, Typed!IInv, Typed!TypeOK
<1>3. Typed!Apart'
  BY <1>2 DEF Typed!IInv, Typed!Apart
<1>4. Typed!Writing'
  <2>1. \A k \in Locks : sbLocked[k] # sbValue[b]
    BY <1>2 DEF Typed!IInv, Typed!Apart
  <2>2. ASSUME NEW n \in Muts, sbMut'[n] # Null PROVE \E k \in Locks : sbLocked'[k] = sbMut'[n]
    <3>1. CASE n = m
      BY <3>1, <1>2
    <3>2. CASE n # m
      <4>1. PICK k \in Locks : sbLocked[k] = sbMut[n]
        BY <2>2, <3>2, <1>2 DEF Typed!IInv, Typed!Writing
      <4> QED
        BY <4>1, <2>2, <3>2, <1>2
    <3> QED
      BY <3>1, <3>2
  <2>3. \A n \in Muts : sbMut[n] # sbValue[b]
    BY <1>2, <2>1 DEF Typed!IInv, Typed!Writing
  <2>4. \A n, o \in Muts : sbMut'[n] = sbMut'[o] => n = o \/ sbMut'[n] = Null
    BY <1>2, <2>3 DEF Typed!IInv, Typed!Writing
  <2> QED
    BY <2>2, <2>4 DEF Typed!Writing
<1>5. UNCHANGED <<sbRef, sbReaders, sbCarried>>
  BY DEF Typed!BorrowMut
<1>6. Typed!Reading'
  <2>1. ASSUME NEW r \in Refs PROVE sbRef[r].owner # b
    BY <1>0 DEF Typed!Readers
  <2>2. ~(sbCarried[b] > 0)
    BY <1>0
  <2> QED
    BY <1>2, <1>5, <2>1, <2>2, TypedReadingKept
<1> QED
  BY <1>1, <1>3, <1>4, <1>5, <1>6, TypedBoxesKeep

(* release(): it returns, without its writer.                              *)
LEMMA TypedReleaseKeeps ==
  ASSUME Typed!Sized, Typed!IInv, NEW b \in Boxes, NEW l \in Locks, NEW m \in Muts, Typed!Release(l, m, b)
  PROVE  Typed!IInv'
<1>0. Typed!Readers(b) = {}
  BY DEF Typed!Release, Typed!Assignable, Typed!Sized
<1>1. Typed!TypeOK'
  BY DEF Typed!Release, Typed!IInv, Typed!TypeOK
<1>2. /\ sbLocked[l] # Null /\ sbValue[b] = Null /\ sbMut[m] = sbLocked[l]
      /\ sbValue'[b] = sbLocked[l] /\ \A c \in Boxes \ {b} : sbValue'[c] = sbValue[c]
      /\ sbLocked'[l] = Null /\ \A k \in Locks \ {l} : sbLocked'[k] = sbLocked[k]
      /\ sbMut'[m] = Null /\ \A n \in Muts \ {m} : sbMut'[n] = sbMut[n]
      /\ sbReaders'[b] = 0 /\ \A c \in Boxes \ {b} : sbReaders'[c] = sbReaders[c]
      /\ sbCarried'[b] = 0 /\ \A c \in Boxes \ {b} : sbCarried'[c] = sbCarried[c]
      /\ UNCHANGED sbRef
  BY DEF Typed!Release, Typed!IInv, Typed!TypeOK, Typed!Sized
<1>3. Typed!Apart'
  BY <1>2 DEF Typed!IInv, Typed!Apart
<1>4. Typed!Writing'
  <2>1. \A n \in Muts \ {m} : sbMut[n] # sbLocked[l]
    BY <1>2 DEF Typed!IInv, Typed!Writing
  <2>2. ASSUME NEW n \in Muts, sbMut'[n] # Null PROVE \E k \in Locks : sbLocked'[k] = sbMut'[n]
    <3>1. n # m /\ sbMut'[n] = sbMut[n]
      BY <1>2, <2>2
    <3>2. PICK k \in Locks : sbLocked[k] = sbMut[n]
      BY <2>2, <3>1 DEF Typed!IInv, Typed!Writing
    <3>3. k # l
      BY <3>1, <3>2, <2>1
    <3> QED
      BY <3>1, <3>2, <3>3, <1>2
  <2>3. \A n, o \in Muts : sbMut'[n] = sbMut'[o] => n = o \/ sbMut'[n] = Null
    BY <1>2 DEF Typed!IInv, Typed!Writing
  <2> QED
    BY <2>2, <2>3 DEF Typed!Writing
<1>5. Typed!Reading'
  BY <1>2, TypedReadingKept
<1> QED
  BY <1>0, <1>1, <1>2, <1>3, <1>4, <1>5, TypedBoxesKeep

(* A move of an SMut.                                                      *)
LEMMA TypedMoveMutKeeps ==
  ASSUME Typed!Sized, Typed!IInv, NEW m \in Muts, NEW n \in Muts, Typed!MoveMut(m, n)
  PROVE  Typed!IInv'
<1>1. Typed!TypeOK'
  BY DEF Typed!MoveMut, Typed!IInv, Typed!TypeOK
<1>2. /\ sbMut'[m] = sbMut[n] /\ sbMut'[n] = Null /\ \A o \in Muts \ {m, n} : sbMut'[o] = sbMut[o]
      /\ UNCHANGED <<sbValue, sbReaders, sbLocked, sbRef, sbCarried>> /\ m # n
  BY DEF Typed!MoveMut, Typed!IInv, Typed!TypeOK
<1>3. Typed!Apart'
  BY <1>2 DEF Typed!IInv, Typed!Apart
<1>4. Typed!Writing'
  BY <1>2 DEF Typed!IInv, Typed!Writing
<1>5. Typed!Reading'
  BY <1>2 DEF Typed!IInv, Typed!Reading, Typed!Counted
<1> QED
  BY <1>1, <1>2, <1>3, <1>4, <1>5, TypedBoxesKeep

(* A move of an SBox: what is read of it is counted where it arrives.      *)
LEMMA TypedMoveBoxKeeps ==
  ASSUME Typed!Sized, Typed!IInv, NEW b \in Boxes, NEW c \in Boxes, Typed!MoveBox(b, c)
  PROVE  Typed!IInv'
<1>1. Typed!Readers(b) = {} /\ \A r \in Refs : sbRef[r].ptr # Null => sbRef[r].ptr # sbValue[b]
  BY DEF Typed!MoveBox, Typed!Assignable, Typed!Sized
<1>3. Typed!TypeOK'
  BY DEF Typed!MoveBox, Typed!IInv, Typed!TypeOK
<1>4. /\ sbValue'[b] = sbValue[c] /\ sbValue'[c] = Null /\ \A d \in Boxes \ {b, c} : sbValue'[d] = sbValue[d]
      /\ sbReaders'[b] = sbReaders[c] /\ \A d \in Boxes \ {b} : sbReaders'[d] = sbReaders[d]
      /\ sbCarried'[b] = sbReaders[c] /\ \A d \in Boxes \ {b} : sbCarried'[d] = sbCarried[d]
      /\ UNCHANGED <<sbLocked, sbRef, sbMut>> /\ b # c
  BY DEF Typed!MoveBox, Typed!IInv, Typed!TypeOK
<1>5. Typed!Apart'
  BY <1>4 DEF Typed!IInv, Typed!Apart
<1>6. Typed!Writing'
  BY <1>4 DEF Typed!IInv, Typed!Writing
<1>7. Typed!Reading'
  <2> SUFFICES ASSUME NEW r \in Refs, sbRef[r] # Typed!Empty
               PROVE  sbRef[r].owner # Null /\ sbRef[r].ptr # Null /\
                      \E d \in Boxes : sbRef[r].ptr = sbValue'[d] /\ (sbRef[r].owner = d \/ sbCarried'[d] > 0)
    BY <1>4 DEF Typed!Reading, Typed!Counted
  <2>1. sbRef[r].owner # Null /\ sbRef[r].ptr # Null
    BY DEF Typed!IInv, Typed!Reading
  <2>2. PICK d \in Boxes : sbRef[r].ptr = sbValue[d] /\ (sbRef[r].owner = d \/ sbCarried[d] > 0)
    BY DEF Typed!IInv, Typed!Reading, Typed!Counted
  <2>3. d # b
    BY <1>1, <2>1, <2>2
  <2>4. CASE d = c
    <3>1. Typed!Readers(c) # {} \/ sbCarried[c] > 0
      BY <2>2, <2>4 DEF Typed!Readers
    <3>2. sbReaders[c] > 0
      BY <3>1, TypedUnread
    <3> QED
      BY <1>4, <2>1, <2>2, <2>4, <3>2
  <2>5. CASE d # c
    BY <1>4, <2>1, <2>2, <2>3, <2>5
  <2> QED
    BY <2>4, <2>5
<1> QED
  BY <1>1, <1>3, <1>4, <1>5, <1>6, <1>7, TypedBoxesKeep

(* Every step keeps Typed!IInv.                                            *)
LEMMA TypedInductive == ASSUME Typed!Sized, Typed!IInv, [Typed!Next]_Typed!vars PROVE Typed!IInv'
<1>1. CASE UNCHANGED Typed!vars
  <2>1. UNCHANGED <<sbValue, sbReaders, sbLocked, sbRef, sbMut, sbCarried>>
    BY <1>1 DEF Typed!vars
  <2>2. Typed!TypeOK' /\ Typed!Apart' /\ Typed!Writing' /\ Typed!Reading'
    BY <2>1 DEF Typed!IInv, Typed!TypeOK, Typed!Apart, Typed!Writing, Typed!Reading, Typed!Counted
  <2> QED
    BY <2>1, <2>2, TypedBoxesKeep
<1> QED
  BY <1>1, TypedOneRefKeeps, TypedMoveRefKeeps, TypedBorrowMutKeeps, TypedReleaseKeeps, TypedMoveMutKeeps, TypedMoveBoxKeeps
     DEF Typed!Next, Typed!RefOps, Typed!BoxOps

(* Boxes with an object each.                                              *)
LEMMA TypedInitHolds == ASSUME Typed!Sized, Typed!Init PROVE Typed!IInv
<1>1. Typed!TypeOK
  BY DEF Typed!Init, Typed!TypeOK, Typed!Empty
<1>2. Typed!Apart /\ Typed!Writing /\ Typed!Reading
  BY DEF Typed!Init, Typed!Apart, Typed!Writing, Typed!Reading, Typed!Sized
<1>3. ASSUME NEW b \in Boxes PROVE Typed!Readers(b) = {}
  BY DEF Typed!Init, Typed!Empty, Typed!Sized, Typed!Readers
<1>4. Typed!ReadersCounted
  BY <1>3, TypedCardinality, FS_EmptySet DEF Typed!Init, Typed!ReadersCounted
<1> QED
  BY <1>1, <1>2, <1>4 DEF Typed!IInv

-----------------------------------------------------------------------------
(* Numbers and the worklist of the collectors *)

\* One round of the worklist.
Round(child, there, s) == s \cup ({child[x] : x \in s} \cap there)

(* A set of numbers that is not empty has a least one.                     *)
LEMMA NatMin ==
  ASSUME NEW T \in SUBSET Nat, T # {} 
  PROVE  \E x \in T : \A y \in T : x <= y
<1> DEFINE R == OpToRel(<, Nat)
<1>1. IsWellFoundedOn(R, Nat)
  BY NatLessThanWellFounded
<1>2. \A x, y \in Nat : y < x => <<y, x>> \in R
  BY DEF OpToRel
<1> HIDE DEF R
<1>3. PICK x \in T : \A y \in T : ~ (<<y, x>> \in R)
  BY <1>1, WFMin
<1>4. ASSUME NEW y \in T PROVE x <= y
  <2>1. x \in Nat /\ y \in Nat
    OBVIOUS
  <2>2. ~(y < x)
    BY <2>1, <1>2, <1>3, Zenon
  <2> QED
    BY <2>1, <2>2
<1> QED
  BY <1>4

(* A set of numbers up to n that is not empty has a greatest one.          *)
LEMMA NatMax ==
  ASSUME NEW n \in Nat, NEW S \in SUBSET (0 .. n), S # {}
  PROVE  \E x \in S : \A y \in S : y <= x
<1> DEFINE T == {n - y : y \in S}
<1>0. \A y \in S : n - y \in Nat
  OBVIOUS
<1>1. T \in SUBSET Nat /\ T # {}
  BY <1>0
<1>2. PICK t \in T : \A u \in T : t <= u
  BY <1>1, NatMin
<1>3. PICK x \in S : t = n - x
  BY <1>2
<1>4. ASSUME NEW y \in S PROVE y <= x
  <2>1. n - x <= n - y
    BY <1>2, <1>3
  <2> QED
    BY <2>1
<1> QED
  BY <1>4

(* The rounds of the worklist exist as a function, from the seeds on.      *)
LEMMA MarkRounds ==
  ASSUME NEW seeds, NEW child, NEW there, Cardinality(there) \in Nat
  PROVE  \E f : /\ Arena!Mark(seeds, child, there) = f[Cardinality(there)]
                /\ f[0] = seeds \cap there
                /\ \A n \in 1 .. Cardinality(there) :
                     f[n] = Round(child, there, f[n - 1])
<1> DEFINE Most == Cardinality(there)
           More(s) == Round(child, there, s)
           G(f, n) == IF n = 0 THEN seeds \cap there ELSE More(f[n - 1])
           E(m) == \E f : f = [n \in 0 .. m |-> G(f, n)]
           T == {m \in 0 .. Most : ~ E(m)}
           found == CHOOSE f : f = [n \in 0 .. Most |-> G(f, n)]
<1>0. E(0)
  <2> DEFINE h == [n \in 0 .. 0 |-> seeds \cap there]
  <2>1. h = [n \in 0 .. 0 |-> G(h, n)]
    OBVIOUS
  <2> QED
    BY <2>1
<1>m. Arena!Mark(seeds, child, there) = found[Most]
  BY DEF Arena!Mark, Round, Arena!Cardinality, Cardinality
<1> HIDE DEF More, Most
<1>1. ASSUME NEW m \in Nat, E(m) PROVE E(m + 1)
  <2>1. PICK f : f = [n \in 0 .. m |-> G(f, n)]
    BY <1>1
  <2> DEFINE g == More(f[m])
             h == [n \in 0 .. m + 1 |-> IF n = m + 1 THEN g ELSE f[n]]
  <2>f. \A n \in 0 .. m : f[n] = G(f, n)
    <3> HIDE DEF G
    <3> QED BY <2>1
  <2>h. \A n \in 0 .. m : h[n] = f[n]
    OBVIOUS
  <2>2. \A n \in 0 .. m : h[n] = f[n] /\ f[n] = G(f, n)
    <3> HIDE DEF G, h
    <3> QED BY <2>f, <2>h
  <2>3. h[m + 1] = g
    OBVIOUS
  <2> HIDE DEF g, h
  <2>4. \A n \in 0 .. m : h[n] = G(h, n)
    BY <2>2
  <2>5. h[m + 1] = G(h, m + 1)
    BY <2>2, <2>3 DEF g
  <2>6. \A n \in 0 .. m + 1 : h[n] = G(h, n)
    <3> HIDE DEF G
    <3> QED BY <2>4, <2>5
  <2>7. h = [n \in 0 .. m + 1 |-> h[n]]
    BY DEF h
  <2>8. h = [n \in 0 .. m + 1 |-> G(h, n)]
    <3> HIDE DEF G
    <3> QED
      BY <2>6, <2>7
  <2> QED
    BY <2>8
<1> HIDE DEF E
<1>n. Most \in Nat
  BY DEF Most
<1>2. T = {}
  <2> SUFFICES ASSUME T # {} PROVE FALSE
    OBVIOUS
  <2>0. T \in SUBSET Nat
    BY <1>n
  <2> HIDE DEF T
  <2>1. PICK m \in T : \A y \in T : m <= y
    BY <2>0, NatMin
  <2>2. m # 0
    BY <2>1, <1>0 DEF T
  <2>3. m - 1 \in Nat /\ m - 1 \notin T
    BY <2>0, <2>1, <2>2
  <2>4. E(m - 1)
    BY <2>3, <2>1, <1>n DEF T
  <2>5. E((m - 1) + 1)
    BY <2>3, <2>4, <1>1
  <2> QED
    BY <2>5, <2>1, <1>n DEF T
<1>3. E(Most)
  BY <1>2, <1>n
<1>4. found = [n \in 0 .. Most |-> G(found, n)]
  BY <1>3 DEF E
<1> HIDE DEF found
<1>5. \A n \in 0 .. Most : found[n] = G(found, n)
  <2> HIDE DEF G
  <2> QED
    BY <1>4
<1>6. found[0] = seeds \cap there /\ \A n \in 1 .. Most : found[n] = More(found[n - 1])
  BY <1>5, <1>n
<1> QED
  BY <1>6, <1>m DEF More, Most

(* The worklist finds what is reachable: a round that adds nothing ends    *)
(* the search, and there are no more rounds that add something than        *)
(* objects.                                                                *)
LEMMA MarkIsReachable ==
  ASSUME NEW seeds, NEW child, NEW there, IsFiniteSet(there)
  PROVE  Arena!Mark(seeds, child, there) = Arena!Reachable(seeds, child, there)
<1> DEFINE Most == Cardinality(there)
           Closed(S) == \A y \in S : child[y] \in there => child[y] \in S
           More(s) == Round(child, there, s)
<1>0. Most \in Nat
  BY FS_CardinalityType
<1>1. PICK f : /\ Arena!Mark(seeds, child, there) = f[Most]
               /\ f[0] = seeds \cap there
               /\ \A n \in 1 .. Most : f[n] = More(f[n - 1])
  BY <1>0, MarkRounds
<1> HIDE DEF Most, More
<1>2. \A s : s \subseteq More(s)
  BY DEF More, Round
<1>3. \A s : s \subseteq there => More(s) \subseteq there
  BY DEF More, Round
<1>4. \A s : Closed(s) => More(s) = s
  BY DEF More, Round
<1>5. \A s : More(s) = s /\ s \subseteq there => Closed(s)
  BY DEF More, Round
<1>6. ASSUME NEW S, seeds \cap there \subseteq S, Closed(S), S \subseteq there
      PROVE  \A n \in 0 .. Most : f[n] \subseteq S
  <2> DEFINE T == {n \in 0 .. Most : ~(f[n] \subseteq S)}
  <2> SUFFICES ASSUME T # {} PROVE FALSE
    OBVIOUS
  <2>0. T \in SUBSET Nat
    BY <1>0
  <2> HIDE DEF T
  <2>1. PICK m \in T : \A y \in T : m <= y
    BY <2>0, NatMin
  <2>2. m # 0
    BY <2>1, <1>1, <1>6 DEF T
  <2>3. m \in 1 .. Most /\ m - 1 \in 0 .. Most /\ m - 1 \notin T
    BY <2>0, <2>1, <2>2, <1>0 DEF T
  <2>4. f[m - 1] \subseteq S
    BY <2>3 DEF T
  <2>5. f[m] = More(f[m - 1])
    BY <2>3, <1>1
  <2>6. f[m] \subseteq S
    BY <2>4, <2>5, <1>6 DEF More, Round
  <2> QED
    BY <2>6, <2>1 DEF T
<1>7. Closed(there)
  OBVIOUS
<1>8. \A n \in 0 .. Most : f[n] \subseteq there
  <2>1. seeds \cap there \subseteq there
    OBVIOUS
  <2> HIDE DEF Closed
  <2> QED
    BY <2>1, <1>6, <1>7
<1>9. f[Most] \subseteq there /\ f[Most] \subseteq Arena!Reachable(seeds, child, there)
  <2>1. Most \in 0 .. Most
    BY <1>0
  <2>2. ASSUME NEW x \in f[Most], NEW S \in SUBSET there, seeds \cap there \subseteq S, Closed(S)
        PROVE  x \in S
    <3>1. f[Most] \subseteq S
      <4> HIDE DEF Closed
      <4> QED BY <1>6, <2>2, <2>1
    <3> QED BY <3>1
  <2>3. f[Most] \subseteq there
    BY <2>1, <1>8
  <2> QED
    BY <2>2, <2>3 DEF Arena!Reachable
<1>10. ASSUME NEW s, s \subseteq there PROVE IsFiniteSet(s) /\ Cardinality(s) \in Nat /\ Cardinality(s) <= Most
  BY <1>10, FS_Subset, FS_CardinalityType DEF Most
<1>11. \A n \in 0 .. Most : Closed(f[n]) \/ Cardinality(f[n]) > n
  <2> DEFINE T == {n \in 0 .. Most : ~(Closed(f[n]) \/ Cardinality(f[n]) > n)}
  <2> SUFFICES ASSUME T # {} PROVE FALSE
    OBVIOUS
  <2>0. T \in SUBSET Nat
    BY <1>0
  <2> HIDE DEF T
  <2>1. PICK m \in T : \A y \in T : m <= y
    BY <2>0, NatMin
  <2>m. m \in 0 .. Most /\ f[m] \subseteq there /\ ~Closed(f[m]) /\ ~(Cardinality(f[m]) > m) /\ m \in Nat
    BY <2>0, <2>1, <1>8 DEF T
  <2>2. CASE m = 0
    <3>1. f[m] # {}
      BY <2>m
    <3>2. Cardinality(f[m]) # 0
      BY <3>1, <2>m, <1>10, FS_EmptySet
    <3> QED
      BY <3>2, <2>2, <2>m, <1>10
  <2>3. CASE m # 0
    <3>1. m \in 1 .. Most /\ m - 1 \in 0 .. Most /\ m - 1 \notin T
      BY <2>0, <2>1, <2>3, <1>0 DEF T
    <3>2. f[m] = More(f[m - 1]) /\ f[m - 1] \subseteq there
      BY <3>1, <1>1, <1>8
    <3>3. ~Closed(f[m - 1])
      <4> HIDE DEF Closed
      <4> QED BY <3>2, <1>4, <2>m
    <3>4. Cardinality(f[m - 1]) > m - 1
      BY <3>1, <3>3 DEF T
    <3>5. f[m - 1] \subseteq f[m] /\ f[m - 1] # f[m]
      <4> HIDE DEF Closed
      <4> QED BY <3>2, <3>3, <1>2, <1>5
    <3>6. Cardinality(f[m - 1]) < Cardinality(f[m])
      BY <3>5, <2>m, <1>10, FS_Subset
    <3> QED
      BY <3>4, <3>6, <2>m, <3>2, <1>10
  <2> QED
    BY <2>2, <2>3
<1>12. Closed(f[Most])
  <2>1. Most \in 0 .. Most
    BY <1>0
  <2>2. ~(Cardinality(f[Most]) > Most)
    BY <1>9, <1>10, <1>0
  <2> HIDE DEF Closed
  <2> QED
    BY <2>1, <2>2, <1>11
<1>13. seeds \cap there \subseteq f[Most]
  <2> DEFINE T == {n \in 0 .. Most : ~(seeds \cap there \subseteq f[n])}
  <2> SUFFICES ASSUME T # {} PROVE FALSE
    BY <1>0
  <2>0. T \in SUBSET Nat
    BY <1>0
  <2> HIDE DEF T
  <2>1. PICK m \in T : \A y \in T : m <= y
    BY <2>0, NatMin
  <2>2. m # 0
    BY <2>1, <1>1 DEF T
  <2>3. m \in 1 .. Most /\ m - 1 \in 0 .. Most /\ m - 1 \notin T
    BY <2>0, <2>1, <2>2, <1>0 DEF T
  <2>4. seeds \cap there \subseteq f[m - 1] /\ f[m] = More(f[m - 1])
    BY <2>3, <1>1 DEF T
  <2>5. seeds \cap there \subseteq f[m]
    BY <2>4, <1>2
  <2> QED
    BY <2>5, <2>1 DEF T
<1>14. Arena!Reachable(seeds, child, there) \subseteq f[Most]
  <2> SUFFICES ASSUME NEW x \in Arena!Reachable(seeds, child, there) PROVE x \in f[Most]
    OBVIOUS
  <2>1. \A S \in SUBSET there : seeds \cap there \subseteq S /\ Closed(S) => x \in S
    BY DEF Arena!Reachable
  <2> HIDE DEF Closed
  <2> QED
    BY <2>1, <1>9, <1>12, <1>13
<1> QED
  BY <1>1, <1>9, <1>14

-----------------------------------------------------------------------------
(* ArenaGc *)

(* Arena's finite sets are those that the theorems on finite sets are      *)
(* about.                                                                  *)
LEMMA ArenaCardinality ==
  ASSUME NEW S
  PROVE  Arena!Cardinality(S) = Cardinality(S) /\ (Arena!IsFiniteSet(S) <=> IsFiniteSet(S))
BY DEF Arena!Cardinality, Cardinality, Arena!IsFiniteSet, IsFiniteSet

(* Its mark phase finds what is reachable.                                 *)
LEMMA ArenaMarkIsReachable ==
  ASSUME NEW seeds, NEW cld, NEW there, Arena!IsFiniteSet(there)
  PROVE  Arena!Mark(seeds, cld, there) = Arena!Reachable(seeds, cld, there)
BY ArenaCardinality, MarkIsReachable

(* What is reachable is there, has the seeds and is closed.                *)
LEMMA ArenaReachableClosed ==
  ASSUME NEW seeds, NEW cld, NEW there
  PROVE  /\ Arena!Reachable(seeds, cld, there) \subseteq there
         /\ seeds \cap there \subseteq Arena!Reachable(seeds, cld, there)
         /\ \A y \in Arena!Reachable(seeds, cld, there) : cld[y] \in there => cld[y] \in Arena!Reachable(seeds, cld, there)
BY DEF Arena!Reachable

(* Whoever joins or leaves a set of guards changes its size by one.        *)
LEMMA ArenaRecount ==
  ASSUME Arena!Sized, NEW H \in SUBSET TwoThreads, NEW g \in TwoThreads
  PROVE  /\ Arena!Cardinality(H) \in Nat
         /\ Arena!Cardinality(H) = 0 <=> H = {}
         /\ g \notin H => Arena!Cardinality(H \cup {g}) = Arena!Cardinality(H) + 1
         /\ g \in H => Arena!Cardinality(H \ {g}) = Arena!Cardinality(H) - 1
BY ArenaCardinality, FS_Subset, FS_AddElement, FS_RemoveElement, FS_CardinalityType, FS_EmptySet DEF Arena!Sized

(* A guard made since the last reset(), of a slot no stale guard has       *)
(* robbed, has its slot registered.                                        *)
LEMMA ArenaHeldRegistered ==
  ASSUME Arena!Sized, Arena!IInv, NEW g \in TwoThreads \ agStale, agGuard[g].slot \notin {0} \cup agRobbed
  PROVE  agGuard[g].slot \in Arena!Registered /\ agGuard[g].slot \in Arena!Slots \ agRobbed
<1>1. agGuard[g].slot \in Arena!Slots \ agRobbed
  BY DEF Arena!IInv, Arena!TypeOK, Arena!Slots, Arena!Sized
<1> DEFINE s == agGuard[g].slot
<1>2. agRoots[s] = Arena!Cardinality(Arena!Holders(s)) /\ Arena!Holders(s) \in SUBSET TwoThreads /\ g \in Arena!Holders(s)
  BY <1>1 DEF Arena!IInv, Arena!RootsCounted, Arena!Holders
<1> HIDE DEF s
<1>3. Arena!Cardinality(Arena!Holders(s)) \in Nat /\ (Arena!Cardinality(Arena!Holders(s)) = 0 <=> Arena!Holders(s) = {})
  BY <1>2, ArenaRecount
<1>4. agRoots[s] > 0
  BY <1>2, <1>3
<1> QED
  BY <1>1, <1>4 DEF Arena!Registered, s

(* What is kept ends with a reachable object, and holds them all.          *)
LEMMA ArenaKeptIs ==
  ASSUME Arena!Sized, Arena!IInv
  PROVE  /\ Arena!Marked = Arena!Reachable(Arena!Registered, Arena!Children, 1 .. Len(agSlots))
         /\ Arena!Marked \subseteq 1 .. Len(agSlots) /\ Arena!Registered \cap 1 .. Len(agSlots) \subseteq Arena!Marked
         /\ Arena!Kept \in Arena!Marked \cup {0} /\ \A m \in Arena!Marked : m <= Arena!Kept
<1>0. Len(agSlots) \in Nat
  BY DEF Arena!IInv, Arena!TypeOK
<1>1. Arena!IsFiniteSet(1 .. Len(agSlots))
  BY <1>0, ArenaCardinality, FS_Interval
<1>2. Arena!Marked = Arena!Reachable(Arena!Registered, Arena!Children, 1 .. Len(agSlots))
  BY <1>1, ArenaMarkIsReachable DEF Arena!Marked
<1>4. Arena!Marked \subseteq 1 .. Len(agSlots) /\ Arena!Registered \cap 1 .. Len(agSlots) \subseteq Arena!Marked
  BY <1>2, ArenaReachableClosed
<1>5. \E n \in Arena!Marked \cup {0} : \A m \in Arena!Marked \cup {0} : m <= n
  <2>1. Arena!Marked \cup {0} \in SUBSET (0 .. Len(agSlots)) /\ Arena!Marked \cup {0} # {}
    BY <1>0, <1>4
  <2> QED
    BY <1>0, <2>1, NatMax
<1>6. \E n \in Arena!Marked \cup {0} : \A m \in Arena!Marked : m <= n
  BY <1>5
<1>7. Arena!Kept \in Arena!Marked \cup {0} /\ \A m \in Arena!Marked : m <= Arena!Kept
  BY <1>6 DEF Arena!Kept
<1> QED
  BY <1>2, <1>4, <1>7

(* collect(): no guarded slot is popped or pruned.                         *)
LEMMA ArenaCollectKeeps ==
  ASSUME Arena!Sized, Arena!IInv, Arena!Collect
  PROVE  Arena!IInv' /\ Arena!PopsDeadTail
<1> DEFINE L == Len(agSlots)
<1>0. /\ L \in Nat /\ agSlots \in Seq([id : 1 .. MaxObjects, child : 0 .. ArenaSize]) /\ L <= ArenaSize
      /\ agRoots \in [Arena!Slots -> Nat]
  BY DEF Arena!IInv, Arena!TypeOK
<1>1. /\ Arena!Marked = Arena!Reachable(Arena!Registered, Arena!Children, 1 .. L)
      /\ Arena!Marked \subseteq 1 .. L /\ Arena!Registered \cap 1 .. L \subseteq Arena!Marked
      /\ Arena!Kept \in Arena!Marked \cup {0} /\ \A m \in Arena!Marked : m <= Arena!Kept
  BY ArenaKeptIs
<1>2. /\ agSlots' = SubSeq(agSlots, 1, Arena!Kept) /\ agGuard' = agGuard /\ agMade' = agMade
      /\ agStale' = agStale /\ agRobbed' = agRobbed
      /\ agRoots' = [s \in Arena!Slots |-> IF s <= Arena!Kept THEN agRoots[s] ELSE 0]
  BY DEF Arena!Collect
<1>3. Arena!Kept \in 0 .. L
  BY <1>0, <1>1
<1> HIDE DEF L
<1>4. /\ agSlots' \in Seq([id : 1 .. MaxObjects, child : 0 .. ArenaSize]) /\ Len(agSlots') = Arena!Kept
      /\ \A i \in 1 .. Arena!Kept : agSlots'[i] = agSlots[i]
  <2> DEFINE Obj == [id : 1 .. MaxObjects, child : 0 .. ArenaSize]
             K == Arena!Kept
  <2>1. K \in Int /\ 1 \in Int /\ K \in 0 .. L /\ agSlots \in Seq(Obj)
    BY <1>0, <1>3
  <2> HIDE DEF Obj, K
  <2>2. \A i \in 1 .. K : agSlots[i] \in Obj
    BY <1>0, <2>1, ElementOfSeq DEF L
  <2>3. /\ SubSeq(agSlots, 1, K) \in Seq(Obj)
        /\ Len(SubSeq(agSlots, 1, K)) = IF 1 <= K THEN K - 1 + 1 ELSE 0
        /\ \A i \in 1 .. K - 1 + 1 : SubSeq(agSlots, 1, K)[i] = agSlots[1 + i - 1]
    BY <2>1, <2>2, SubSeqProperties
  <2>4. /\ SubSeq(agSlots, 1, K) \in Seq(Obj) /\ Len(SubSeq(agSlots, 1, K)) = K
        /\ \A i \in 1 .. K : SubSeq(agSlots, 1, K)[i] = agSlots[i]
    BY <1>0, <2>1, <2>3
  <2> QED
    BY <1>2, <2>4 DEF Obj, K
<1>5. Arena!TypeOK'
  <2>1. Len(agSlots') <= ArenaSize
    BY <1>0, <1>3, <1>4 DEF Arena!Sized
  <2>2. agRoots' \in [Arena!Slots -> Nat]
    BY <1>0, <1>2
  <2> QED
    BY <1>2, <1>4, <2>1, <2>2 DEF Arena!IInv, Arena!TypeOK
<1>6. Arena!GuardsHold'
  <2> SUFFICES ASSUME NEW g \in TwoThreads \ agStale, agGuard[g].slot \notin {0} \cup agRobbed
      PROVE  agGuard[g].slot <= Len(agSlots') /\ agSlots'[agGuard[g].slot].id = agGuard[g].id
    BY <1>2 DEF Arena!GuardsHold
  <2>a. agGuard[g].slot \in Arena!Registered /\ agGuard[g].slot \in Arena!Slots
    BY ArenaHeldRegistered
  <2>b. agGuard[g].slot <= L /\ agSlots[agGuard[g].slot].id = agGuard[g].id
    BY DEF Arena!IInv, Arena!GuardsHold, L
  <2>1. agGuard[g].slot \in Arena!Marked /\ agSlots[agGuard[g].slot].id = agGuard[g].id
    BY <1>0, <1>1, <2>a, <2>b DEF Arena!Slots, Arena!Sized
  <2>2. agGuard[g].slot <= Arena!Kept /\ agGuard[g].slot \in 1 .. Arena!Kept
    BY <1>0, <1>1, <1>3, <2>1
  <2> QED
    BY <1>4, <2>1, <2>2
<1>7. Arena!RootsCounted'
  <2> SUFFICES ASSUME NEW s \in Arena!Slots \ agRobbed PROVE agRoots'[s] = Arena!Cardinality(Arena!Holders(s)')
    BY <1>2 DEF Arena!RootsCounted
  <2>1. Arena!Holders(s)' = Arena!Holders(s) /\ agRoots[s] = Arena!Cardinality(Arena!Holders(s))
    BY <1>2 DEF Arena!Holders, Arena!IInv, Arena!RootsCounted
  <2>2. CASE s <= Arena!Kept
    BY <2>1, <2>2, <1>2
  <2>3. CASE ~(s <= Arena!Kept)
    <3>1. Arena!Holders(s) = {}
      <4> SUFFICES ASSUME NEW g \in Arena!Holders(s) PROVE FALSE
        OBVIOUS
      <4>1. g \in TwoThreads \ agStale /\ agGuard[g].slot = s /\ s \notin {0} \cup agRobbed
        BY DEF Arena!Holders, Arena!Slots
      <4>2. s \in Arena!Registered /\ s <= L
        BY <4>1, ArenaHeldRegistered DEF Arena!IInv, Arena!GuardsHold, L
      <4>3. s \in Arena!Marked
        BY <1>0, <1>1, <4>2 DEF Arena!Slots, Arena!Sized
      <4> QED
        BY <1>1, <2>3, <4>3
    <3> QED
      BY <2>1, <2>3, <3>1, <1>2, ArenaCardinality, FS_EmptySet
  <2> QED
    BY <2>2, <2>3
<1>8. Arena!PopsDeadTail
  <2>1. ASSUME agSlots' # <<>> PROVE Arena!Kept # 0
    BY <2>1, <1>4
  <2> QED
    BY <2>1, <1>1, <1>4 DEF Arena!PopsDeadTail, L
<1> QED
  BY <1>5, <1>6, <1>7, <1>8 DEF Arena!IInv

(* reset(): nothing is registered, and every guard there is is stale.      *)
LEMMA ArenaResetKeeps ==
  ASSUME Arena!Sized, Arena!IInv, Arena!Reset
  PROVE  Arena!IInv' /\ Arena!PopsDeadTail
<1>1. /\ agSlots' = <<>> /\ agRoots' = [s \in Arena!Slots |-> 0] /\ agGuard' = agGuard /\ agMade' = agMade
      /\ agStale' = {g \in TwoThreads : agGuard[g].slot # 0} /\ agRobbed' = {}
  BY DEF Arena!Reset
<1>2. Arena!TypeOK'
  BY <1>1 DEF Arena!IInv, Arena!TypeOK, Arena!Sized
<1>3. Arena!GuardsHold'
  BY <1>1 DEF Arena!GuardsHold
<1>4. ASSUME NEW s \in Arena!Slots PROVE Arena!Holders(s)' = {} /\ agRoots'[s] = 0
  BY <1>1 DEF Arena!Holders, Arena!Slots
<1>5. Arena!RootsCounted'
  BY <1>4, ArenaCardinality, FS_EmptySet DEF Arena!RootsCounted
<1> QED
  BY <1>2, <1>3, <1>5 DEF Arena!IInv, Arena!PopsDeadTail

(* allocate() and the stores of handles move no object.                    *)
LEMMA ArenaHeapKeeps ==
  ASSUME Arena!Sized, Arena!IInv, NEW c \in 0 .. ArenaSize, Arena!Allocate(c) \/ \E s \in Arena!Slots : Arena!Link(s, c)
  PROVE  Arena!IInv' /\ Len(agSlots') >= Len(agSlots)
<1> DEFINE Obj == [id : 1 .. MaxObjects, child : 0 .. ArenaSize]
           L == Len(agSlots)
<1>0. L \in Nat /\ agSlots \in Seq(Obj) /\ agMade \in 0 .. MaxObjects /\ agRoots' = agRoots /\ agGuard' = agGuard /\ L <= ArenaSize
      /\ agStale' = agStale /\ agRobbed' = agRobbed
  BY DEF Arena!IInv, Arena!TypeOK, Arena!Allocate, Arena!Link
<1>1. /\ agSlots' \in Seq(Obj) /\ Len(agSlots') \in Nat /\ Len(agSlots') >= L /\ Len(agSlots') <= ArenaSize
      /\ agMade' \in 0 .. MaxObjects
      /\ \A i \in 1 .. L : agSlots'[i].id = agSlots[i].id
  <2>1. CASE Arena!Allocate(c)
    <3>1. PICK e : e = [id |-> agMade + 1, child |-> c]
      OBVIOUS
    <3>2. e \in Obj
      BY <1>0, <2>1, <3>1 DEF Arena!Allocate, Arena!Sized
    <3>3. agSlots' = Append(agSlots, e)
      BY <2>1, <3>1 DEF Arena!Allocate
    <3> HIDE DEF Obj
    <3>4. agSlots' \in Seq(Obj) /\ Len(agSlots') = L + 1 /\ \A i \in 1 .. L : agSlots'[i] = agSlots[i]
      BY <1>0, <3>2, <3>3, AppendProperties
    <3> QED
      BY <1>0, <2>1, <3>4 DEF Arena!Allocate, Arena!Sized
  <2>2. ASSUME NEW s \in Arena!Slots, Arena!Link(s, c)
        PROVE  /\ agSlots' \in Seq(Obj) /\ Len(agSlots') = L
               /\ \A i \in 1 .. L : agSlots'[i].id = agSlots[i].id
    <3>1. s \in 1 .. L
      BY <1>0, <2>2 DEF Arena!Link, Arena!Slots, Arena!Sized
    <3>2. PICK e : e = [agSlots[s] EXCEPT !.child = c]
      OBVIOUS
    <3>3. agSlots[s] \in Obj
      <4> HIDE DEF Obj
      <4> QED BY <1>0, <3>1, ElementOfSeq
    <3>4. e \in Obj /\ e.id = agSlots[s].id
      BY <3>2, <3>3
    <3>5. agSlots' = [agSlots EXCEPT ![s] = e]
      BY <2>2, <3>2 DEF Arena!Link
    <3> HIDE DEF Obj
    <3>6. agSlots' \in Seq(Obj) /\ Len(agSlots') = L /\ \A i \in 1 .. L : agSlots'[i] = IF i = s THEN e ELSE agSlots[i]
      BY <1>0, <3>1, <3>4, <3>5, ExceptSeq
    <3> QED
      BY <3>4, <3>6
  <2>3. CASE \E s \in Arena!Slots : Arena!Link(s, c)
    <3>1. PICK s \in Arena!Slots : Arena!Link(s, c)
      BY <2>3
    <3>2. agSlots' \in Seq(Obj) /\ Len(agSlots') = L /\ \A i \in 1 .. L : agSlots'[i].id = agSlots[i].id
      BY <2>2, <3>1
    <3>3. agMade' = agMade
      BY <3>1 DEF Arena!Link
    <3> HIDE DEF Obj
    <3> QED
      BY <1>0, <3>2, <3>3
  <2> QED
    BY <2>1, <2>3
<1>2. Arena!TypeOK'
  BY <1>0, <1>1 DEF Arena!IInv, Arena!TypeOK
<1>3. Arena!GuardsHold'
  <2> SUFFICES ASSUME NEW g \in TwoThreads \ agStale, agGuard[g].slot \notin {0} \cup agRobbed
      PROVE  agGuard[g].slot <= Len(agSlots') /\ agSlots'[agGuard[g].slot].id = agGuard[g].id
    BY <1>0 DEF Arena!GuardsHold
  <2>1. agGuard[g].slot \in 0 .. ArenaSize /\ agGuard[g].slot <= L /\ agSlots[agGuard[g].slot].id = agGuard[g].id
    BY DEF Arena!IInv, Arena!TypeOK, Arena!GuardsHold
  <2>2. agGuard[g].slot \in 1 .. L
    <3>1. agGuard[g].slot # 0
      OBVIOUS
    <3> QED
      BY ONLY <3>1, <1>0, <2>1, Arena!Sized DEF Arena!Sized
  <2>3. agSlots'[agGuard[g].slot].id = agGuard[g].id
    BY <1>1, <2>1, <2>2
  <2> HIDE DEF L
  <2> QED
    BY <1>0, <1>1, <2>2, <2>3
<1>4. Arena!RootsCounted'
  <2>1. \A s \in Arena!Slots : Arena!Holders(s)' = Arena!Holders(s)
    BY <1>0 DEF Arena!Holders
  <2> QED
    BY <1>0, <2>1 DEF Arena!IInv, Arena!RootsCounted
<1> QED
  BY <1>1, <1>2, <1>3, <1>4 DEF Arena!IInv

(* A step of the guards that counts right.                                 *)
LEMMA ArenaGuardsKeep ==
  ASSUME Arena!IInv, agSlots' = agSlots, agMade' = agMade, agGuard' \in [TwoThreads -> [slot : 0 .. ArenaSize, id : 0 .. MaxObjects]],
         agRoots' \in [Arena!Slots -> Nat], agStale' \subseteq TwoThreads, agRobbed' \subseteq Arena!Slots,
         \A b \in Arena!Slots \ agRobbed' : agRoots'[b] = Arena!Cardinality(Arena!Holders(b)'),
         \A g \in TwoThreads \ agStale' : agGuard'[g].slot \notin {0} \cup agRobbed' =>
           agGuard'[g].slot <= Len(agSlots) /\ agSlots[agGuard'[g].slot].id = agGuard'[g].id
  PROVE  Arena!IInv'
<1>1. Arena!TypeOK'
  BY DEF Arena!IInv, Arena!TypeOK
<1>2. Arena!GuardsHold'
  BY DEF Arena!GuardsHold
<1> QED
  BY <1>1, <1>2 DEF Arena!IInv, Arena!RootsCounted

(* How the registrations of a slot change when g takes it or lets go of    *)
(* it.                                                                     *)
LEMMA ArenaCounting ==
  ASSUME Arena!Sized, NEW g \in TwoThreads, NEW H \in SUBSET TwoThreads
  PROVE  /\ Arena!Cardinality(H) \in Nat
         /\ g \in H => Arena!Cardinality(H) > 0
         /\ g \in H => Arena!Cardinality(H \ {g}) = Arena!Cardinality(H) - 1
         /\ g \notin H => Arena!Cardinality(H \ {g}) = Arena!Cardinality(H)
         /\ g \in H => Arena!Cardinality(H \cup {g}) = Arena!Cardinality(H)
         /\ g \notin H => Arena!Cardinality(H \cup {g}) = Arena!Cardinality(H) + 1
<1>1. /\ Arena!Cardinality(H) \in Nat
      /\ Arena!Cardinality(H) = 0 <=> H = {}
      /\ g \notin H => Arena!Cardinality(H \cup {g}) = Arena!Cardinality(H) + 1
      /\ g \in H => Arena!Cardinality(H \ {g}) = Arena!Cardinality(H) - 1
  BY ArenaRecount
<1>2. (g \notin H => H \ {g} = H) /\ (g \in H => H \cup {g} = H)
  OBVIOUS
<1>3. /\ g \notin H => Arena!Cardinality(H \ {g}) = Arena!Cardinality(H)
      /\ g \in H => Arena!Cardinality(H \cup {g}) = Arena!Cardinality(H)
  BY <1>2
<1>4. g \in H => Arena!Cardinality(H) > 0
  BY <1>1
<1> QED
  BY <1>1, <1>3, <1>4

(* What one registration less makes of the table.                          *)
LEMMA ArenaUnrooted ==
  ASSUME NEW bag \in [Arena!Slots -> Nat], NEW o \in 0 .. ArenaSize, ArenaSize \in Nat
  PROVE  /\ Arena!Unroot(bag, o) \in [Arena!Slots -> Nat]
         /\ \A b \in Arena!Slots : Arena!Unroot(bag, o)[b] = IF b = o /\ bag[b] > 0 THEN bag[b] - 1 ELSE bag[b]
<1>1. CASE o = 0
  BY <1>1 DEF Arena!Unroot, Arena!Slots
<1>2. CASE o # 0
  <2>1. o \in Arena!Slots
    BY <1>2 DEF Arena!Slots
  <2> QED
    BY <1>2, <2>1 DEF Arena!Unroot
<1> QED
  BY <1>1, <1>2

(* What a guard is to begin with.                                          *)
LEMMA ArenaGuardIs ==
  ASSUME Arena!Sized, Arena!IInv
  PROVE  /\ agGuard \in [TwoThreads -> [slot : 0 .. ArenaSize, id : 0 .. MaxObjects]] /\ agRoots \in [Arena!Slots -> Nat]
         /\ Arena!Loose \in [slot : 0 .. ArenaSize, id : 0 .. MaxObjects] /\ Arena!Loose.slot = 0
         /\ agStale \subseteq TwoThreads /\ agRobbed \subseteq Arena!Slots
         /\ \A g \in TwoThreads : agGuard[g].slot \in 0 .. ArenaSize
         /\ \A b \in Arena!Slots : b # 0 /\ Arena!Holders(b) \in SUBSET TwoThreads
         /\ \A b \in Arena!Slots \ agRobbed : agRoots[b] = Arena!Cardinality(Arena!Holders(b))
BY DEF Arena!Sized, Arena!IInv, Arena!TypeOK, Arena!Loose, Arena!RootsCounted, Arena!Holders, Arena!Slots

(* Letting go of g's slot takes g's own registration, or none, or that of  *)
(* a slot that is robbed from then on.                                     *)
LEMMA ArenaLetGo ==
  ASSUME Arena!Sized, Arena!IInv, NEW g \in TwoThreads, NEW bag \in [Arena!Slots -> Nat]
  PROVE  /\ Arena!Unroot(bag, agGuard[g].slot) \in [Arena!Slots -> Nat]
         /\ agRobbed \subseteq Arena!Robbed(bag, g) /\ Arena!Robbed(bag, g) \subseteq Arena!Slots
         /\ \A b \in Arena!Slots \ Arena!Robbed(bag, g) :
              /\ b \in Arena!Slots \ agRobbed
              /\ Arena!Unroot(bag, agGuard[g].slot)[b] =
                   IF g \in Arena!Holders(b) /\ bag[b] > 0 THEN bag[b] - 1 ELSE bag[b]
<1>1. agGuard[g].slot \in 0 .. ArenaSize /\ ArenaSize \in Nat /\ agRobbed \subseteq Arena!Slots
  BY ArenaGuardIs DEF Arena!Sized
<1>2. /\ Arena!Unroot(bag, agGuard[g].slot) \in [Arena!Slots -> Nat]
      /\ \A b \in Arena!Slots : Arena!Unroot(bag, agGuard[g].slot)[b] = IF b = agGuard[g].slot /\ bag[b] > 0 THEN bag[b] - 1 ELSE bag[b]
  BY <1>1, ArenaUnrooted
<1>3. agRobbed \subseteq Arena!Robbed(bag, g) /\ Arena!Robbed(bag, g) \subseteq Arena!Slots
  BY <1>1 DEF Arena!Robbed
<1>4. ASSUME NEW b \in Arena!Slots \ Arena!Robbed(bag, g)
      PROVE  (b = agGuard[g].slot /\ bag[b] > 0) <=> (g \in Arena!Holders(b) /\ bag[b] > 0)
  BY DEF Arena!Robbed, Arena!Holders
<1> QED
  BY <1>2, <1>3, <1>4

(* The end of a guard.                                                     *)
LEMMA ArenaDropKeeps ==
  ASSUME Arena!Sized, Arena!IInv, NEW g \in TwoThreads, Arena!DropGuard(g)
  PROVE  Arena!IInv'
<1>0. /\ agSlots' = agSlots /\ agMade' = agMade /\ agRoots' = Arena!Unroot(agRoots, agGuard[g].slot)
      /\ agGuard' = [agGuard EXCEPT ![g] = Arena!Loose]
      /\ agStale' = agStale \ {g} /\ agRobbed' = Arena!Robbed(agRoots, g)
  BY DEF Arena!DropGuard
<1>1. /\ agRoots' \in [Arena!Slots -> Nat]
      /\ agRobbed \subseteq agRobbed' /\ agRobbed' \subseteq Arena!Slots
      /\ \A b \in Arena!Slots \ agRobbed' :
           /\ b \in Arena!Slots \ agRobbed
           /\ agRoots'[b] = IF g \in Arena!Holders(b) /\ agRoots[b] > 0 THEN agRoots[b] - 1 ELSE agRoots[b]
  BY <1>0, ArenaGuardIs, ArenaLetGo
<1>2. ASSUME NEW b \in Arena!Slots \ agRobbed' PROVE agRoots'[b] = Arena!Cardinality(Arena!Holders(b)')
  <2>1. Arena!Holders(b)' = Arena!Holders(b) \ {g}
    BY <1>0, ArenaGuardIs DEF Arena!Holders
  <2> DEFINE H == Arena!Holders(b)
  <2>2. H \in SUBSET TwoThreads /\ agRoots[b] = Arena!Cardinality(H)
    BY <1>1, ArenaGuardIs
  <2> HIDE DEF H
  <2>3. /\ Arena!Cardinality(H) \in Nat
        /\ g \in H => Arena!Cardinality(H) > 0 /\ Arena!Cardinality(H \ {g}) = Arena!Cardinality(H) - 1
        /\ g \notin H => Arena!Cardinality(H \ {g}) = Arena!Cardinality(H)
    BY <2>2, ArenaCounting
  <2> QED
    BY <1>1, <2>1, <2>2, <2>3 DEF H
<1>3. agGuard' \in [TwoThreads -> [slot : 0 .. ArenaSize, id : 0 .. MaxObjects]] /\ agStale' \subseteq TwoThreads
  BY <1>0, ArenaGuardIs
<1>4. ASSUME NEW h \in TwoThreads \ agStale', agGuard'[h].slot \notin {0} \cup agRobbed'
      PROVE  agGuard'[h].slot <= Len(agSlots) /\ agSlots[agGuard'[h].slot].id = agGuard'[h].id
  <2>1. h # g /\ agGuard'[h] = agGuard[h] /\ h \notin agStale /\ agGuard[h].slot \notin {0} \cup agRobbed
    BY <1>0, <1>1, <1>4, ArenaGuardIs
  <2> QED
    BY <2>1 DEF Arena!IInv, Arena!GuardsHold
<1> QED
  BY <1>0, <1>1, <1>2, <1>3, <1>4, ArenaGuardsKeep

(* A move of a guard.                                                      *)
LEMMA ArenaMoveKeeps ==
  ASSUME Arena!Sized, Arena!IInv, NEW g \in TwoThreads, NEW k \in TwoThreads, Arena!MoveGuard(g, k)
  PROVE  Arena!IInv'
<1>0. /\ agSlots' = agSlots /\ agMade' = agMade /\ agRoots' = Arena!Unroot(agRoots, agGuard[g].slot) /\ g # k
      /\ agGuard' = [agGuard EXCEPT ![g] = agGuard[k], ![k] = Arena!Loose]
      /\ agStale' = (agStale \ {g, k}) \cup {x \in {g} : k \in agStale} /\ agRobbed' = Arena!Robbed(agRoots, g)
  BY DEF Arena!MoveGuard
<1>1. /\ agRoots' \in [Arena!Slots -> Nat]
      /\ agRobbed \subseteq agRobbed' /\ agRobbed' \subseteq Arena!Slots
      /\ \A b \in Arena!Slots \ agRobbed' :
           /\ b \in Arena!Slots \ agRobbed
           /\ agRoots'[b] = IF g \in Arena!Holders(b) /\ agRoots[b] > 0 THEN agRoots[b] - 1 ELSE agRoots[b]
  BY <1>0, ArenaGuardIs, ArenaLetGo
<1>s. /\ g \in agStale' <=> k \in agStale
      /\ \A x \in TwoThreads \ {g, k} : x \in agStale' <=> x \in agStale
  BY <1>0
<1>2. ASSUME NEW b \in Arena!Slots \ agRobbed' PROVE agRoots'[b] = Arena!Cardinality(Arena!Holders(b)')
  <2> DEFINE H == Arena!Holders(b)
             K == H \ {k}
  <2>1. Arena!Holders(b)' = IF k \in H THEN K \cup {g} ELSE H \ {g}
    <3>1. /\ agGuard'[g] = agGuard[k] /\ agGuard'[k].slot = 0 /\ b # 0
          /\ \A x \in TwoThreads \ {g, k} : agGuard'[x] = agGuard[x]
      BY <1>0, ArenaGuardIs
    <3>2. ASSUME NEW x \in TwoThreads PROVE x \in Arena!Holders(b)' <=> IF k \in H THEN x \in K \cup {g} ELSE x \in H \ {g}
      <4>1. CASE x = g
        BY <4>1, <3>1, <1>s DEF Arena!Holders
      <4>2. CASE x = k
        BY <4>2, <3>1, <1>0 DEF Arena!Holders
      <4>3. CASE x \notin {g, k}
        BY <4>3, <3>1, <1>s DEF Arena!Holders
      <4> QED
        BY <4>1, <4>2, <4>3
    <3> QED
      BY <3>2 DEF Arena!Holders
  <2>2. H \in SUBSET TwoThreads /\ agRoots[b] = Arena!Cardinality(H)
    BY <1>1, ArenaGuardIs
  <2>a. agRoots'[b] = IF g \in H /\ agRoots[b] > 0 THEN agRoots[b] - 1 ELSE agRoots[b]
    BY <1>1
  <2>5. K \in SUBSET TwoThreads /\ (g \in K <=> g \in H)
    BY <2>2, <1>0
  <2>3. /\ Arena!Cardinality(H) \in Nat
        /\ g \in H => Arena!Cardinality(H) > 0 /\ Arena!Cardinality(H \ {g}) = Arena!Cardinality(H) - 1
        /\ g \notin H => Arena!Cardinality(H \ {g}) = Arena!Cardinality(H)
    BY <2>2, ArenaCounting
  <2>4. k \in H => Arena!Cardinality(K) = Arena!Cardinality(H) - 1
    BY <2>2, ArenaCounting
  <2> HIDE DEF H, K
  <2>6. /\ Arena!Cardinality(K) \in Nat
        /\ g \in K => Arena!Cardinality(K \cup {g}) = Arena!Cardinality(K)
        /\ g \notin K => Arena!Cardinality(K \cup {g}) = Arena!Cardinality(K) + 1
    BY <2>5, ArenaCounting
  <2>7. CASE k \in H
    <3>1. Arena!Holders(b)' = K \cup {g}
      BY <2>1, <2>7
    <3> QED
      BY <2>a, <2>2, <2>3, <2>4, <2>5, <2>6, <2>7, <3>1
  <2>8. CASE k \notin H
    <3>1. Arena!Holders(b)' = H \ {g}
      BY <2>1, <2>8
    <3> QED
      BY <2>a, <2>2, <2>3, <2>8, <3>1
  <2> QED
    BY <2>7, <2>8
<1>3. agGuard' \in [TwoThreads -> [slot : 0 .. ArenaSize, id : 0 .. MaxObjects]] /\ agStale' \subseteq TwoThreads
  BY <1>0, ArenaGuardIs
<1>4. ASSUME NEW h \in TwoThreads \ agStale', agGuard'[h].slot \notin {0} \cup agRobbed'
      PROVE  agGuard'[h].slot <= Len(agSlots) /\ agSlots[agGuard'[h].slot].id = agGuard'[h].id
  <2>1. PICK x \in TwoThreads \ agStale : agGuard'[h] = agGuard[x]
    <3>1. h # k
      BY <1>0, <1>4, ArenaGuardIs
    <3>2. CASE h = g
      BY <3>2, <1>0, <1>4, <1>s, ArenaGuardIs
    <3>3. CASE h # g
      BY <3>1, <3>3, <1>0, <1>4, <1>s, ArenaGuardIs
    <3> QED
      BY <3>2, <3>3
  <2>2. agGuard[x].slot \notin {0} \cup agRobbed
    BY <1>1, <1>4, <2>1
  <2> QED
    BY <2>1, <2>2 DEF Arena!IInv, Arena!GuardsHold
<1> QED
  BY <1>0, <1>1, <1>2, <1>3, <1>4, ArenaGuardsKeep

(* A new object for a guard.                                               *)
LEMMA ArenaRootKeeps ==
  ASSUME Arena!Sized, Arena!IInv, NEW g \in TwoThreads, NEW s \in Arena!Slots, Arena!Root(g, s)
  PROVE  Arena!IInv'
<1> DEFINE bag == [agRoots EXCEPT ![s] = @ + 1]
<1>0. /\ agSlots' = agSlots /\ agMade' = agMade /\ agRoots' = Arena!Unroot(bag, agGuard[g].slot)
      /\ agGuard' = [agGuard EXCEPT ![g] = [slot |-> s, id |-> agSlots[s].id]] /\ s <= Len(agSlots)
      /\ agStale' = agStale \ {g} /\ agRobbed' = Arena!Robbed(bag, g)
  BY DEF Arena!Root
<1>b. bag \in [Arena!Slots -> Nat] /\ \A b \in Arena!Slots : bag[b] = IF b = s THEN agRoots[b] + 1 ELSE agRoots[b]
  BY ArenaGuardIs
<1> HIDE DEF bag
<1>1. /\ agRoots' \in [Arena!Slots -> Nat]
      /\ agRobbed \subseteq agRobbed' /\ agRobbed' \subseteq Arena!Slots
      /\ \A b \in Arena!Slots \ agRobbed' :
           /\ b \in Arena!Slots \ agRobbed
           /\ agRoots'[b] = IF g \in Arena!Holders(b) /\ bag[b] > 0 THEN bag[b] - 1 ELSE bag[b]
  BY <1>0, <1>b, ArenaLetGo
<1>o. agSlots[s].id \in 1 .. MaxObjects
  <2>1. s \in 1 .. Len(agSlots) /\ agSlots \in Seq([id : 1 .. MaxObjects, child : 0 .. ArenaSize])
    BY <1>0 DEF Arena!Slots, Arena!IInv, Arena!TypeOK, Arena!Sized
  <2>2. agSlots[s] \in [id : 1 .. MaxObjects, child : 0 .. ArenaSize]
    BY <2>1, ElementOfSeq
  <2> QED
    BY <2>2
<1>g. PICK e : e = [slot |-> s, id |-> agSlots[s].id]
  OBVIOUS
<1>e. e \in [slot : 0 .. ArenaSize, id : 0 .. MaxObjects] /\ e.slot = s /\ e.id = agSlots[s].id
  BY <1>g, <1>o DEF Arena!Slots, Arena!Sized
<1>f. agGuard' = [agGuard EXCEPT ![g] = e]
  BY <1>0, <1>g
<1>2. ASSUME NEW b \in Arena!Slots \ agRobbed' PROVE agRoots'[b] = Arena!Cardinality(Arena!Holders(b)')
  <2> DEFINE H == Arena!Holders(b)
  <2>1. Arena!Holders(b)' = IF b = s THEN H \cup {g} ELSE H \ {g}
    BY <1>0, <1>e, <1>f, ArenaGuardIs DEF Arena!Holders
  <2>2. H \in SUBSET TwoThreads /\ agRoots[b] = Arena!Cardinality(H)
    BY <1>1, ArenaGuardIs
  <2>a. agRoots'[b] = IF g \in H /\ bag[b] > 0 THEN bag[b] - 1 ELSE bag[b]
    BY <1>1
  <2>3. /\ Arena!Cardinality(H) \in Nat
        /\ g \in H => Arena!Cardinality(H) > 0 /\ Arena!Cardinality(H \ {g}) = Arena!Cardinality(H) - 1
        /\ g \notin H => Arena!Cardinality(H \ {g}) = Arena!Cardinality(H)
        /\ g \in H => Arena!Cardinality(H \cup {g}) = Arena!Cardinality(H)
        /\ g \notin H => Arena!Cardinality(H \cup {g}) = Arena!Cardinality(H) + 1
    BY <2>2, ArenaCounting
  <2> HIDE DEF H
  <2>4. CASE b = s
    <3>1. Arena!Holders(b)' = H \cup {g} /\ bag[b] = agRoots[b] + 1
      BY <2>1, <2>4, <1>b
    <3> QED
      BY <2>a, <2>2, <2>3, <2>4, <3>1
  <2>5. CASE b # s
    <3>1. Arena!Holders(b)' = H \ {g} /\ bag[b] = agRoots[b]
      BY <2>1, <2>5, <1>b
    <3> QED
      BY <2>a, <2>2, <2>3, <2>5, <3>1
  <2> QED
    BY <2>4, <2>5
<1>3. agGuard' \in [TwoThreads -> [slot : 0 .. ArenaSize, id : 0 .. MaxObjects]] /\ agStale' \subseteq TwoThreads
  BY <1>0, <1>e, <1>f, ArenaGuardIs
<1>4. ASSUME NEW h \in TwoThreads \ agStale', agGuard'[h].slot \notin {0} \cup agRobbed'
      PROVE  agGuard'[h].slot <= Len(agSlots) /\ agSlots[agGuard'[h].slot].id = agGuard'[h].id
  <2>1. CASE h = g
    BY <2>1, <1>0, <1>e, <1>f, ArenaGuardIs
  <2>2. CASE h # g
    <3>1. agGuard'[h] = agGuard[h] /\ h \notin agStale /\ agGuard[h].slot \notin {0} \cup agRobbed
      BY <2>2, <1>0, <1>1, <1>4, <1>f, ArenaGuardIs
    <3> QED
      BY <3>1 DEF Arena!IInv, Arena!GuardsHold
  <2> QED
    BY <2>1, <2>2
<1> QED
  BY <1>0, <1>1, <1>2, <1>3, <1>4, ArenaGuardsKeep

(* Every step keeps Arena!IInv, and a collect() pops exactly the dead      *)
(* tail.                                                                   *)
LEMMA ArenaInductive ==
  ASSUME Arena!Sized, Arena!IInv, [Arena!Next]_Arena!vars
  PROVE  Arena!IInv' /\ Arena!PopsDeadTail
<1>0. Len(agSlots) \in Nat
  BY DEF Arena!IInv, Arena!TypeOK
<1>1. CASE Arena!Collect \/ Arena!Reset
  BY <1>1, ArenaCollectKeeps, ArenaResetKeeps
<1>2. ASSUME NEW c \in 0 .. ArenaSize, Arena!Allocate(c) \/ \E s \in Arena!Slots : Arena!Link(s, c)
      PROVE  Arena!IInv' /\ Arena!PopsDeadTail
  <2>1. Arena!IInv' /\ Len(agSlots') >= Len(agSlots)
    BY <1>2, ArenaHeapKeeps
  <2>2. Len(agSlots') \in Nat
    BY <2>1 DEF Arena!IInv, Arena!TypeOK
  <2>3. ~(Len(agSlots') < Len(agSlots))
    BY <1>0, <2>1, <2>2
  <2> QED
    BY <2>1, <2>3 DEF Arena!PopsDeadTail
<1>3. ASSUME NEW g \in TwoThreads, Arena!GuardOps(g) PROVE Arena!IInv' /\ Arena!PopsDeadTail
  <2>1. agSlots' = agSlots
    BY <1>3 DEF Arena!GuardOps, Arena!DropGuard, Arena!Root, Arena!MoveGuard
  <2>2. ~(Len(agSlots') < Len(agSlots))
    BY <1>0, <2>1
  <2>3. Arena!IInv'
    BY <1>3, ArenaDropKeeps, ArenaRootKeeps, ArenaMoveKeeps DEF Arena!GuardOps
  <2> QED
    BY <2>2, <2>3 DEF Arena!PopsDeadTail
<1>4. CASE UNCHANGED Arena!vars
  <2>1. /\ agSlots' = agSlots /\ agRoots' = agRoots /\ agGuard' = agGuard /\ agMade' = agMade
        /\ agStale' = agStale /\ agRobbed' = agRobbed
    BY <1>4 DEF Arena!vars
  <2>2. \A b \in Arena!Slots : Arena!Holders(b)' = Arena!Holders(b)
    BY <2>1 DEF Arena!Holders
  <2>3. Arena!RootsCounted'
    BY <2>1, <2>2 DEF Arena!IInv, Arena!RootsCounted
  <2>4. ~(Len(agSlots') < Len(agSlots))
    BY <1>0, <2>1
  <2> QED
    BY <2>1, <2>3, <2>4 DEF Arena!IInv, Arena!TypeOK, Arena!GuardsHold, Arena!PopsDeadTail
<1> QED
  BY <1>1, <1>2, <1>3, <1>4 DEF Arena!Next

(* An empty arena.                                                         *)
LEMMA ArenaInitHolds == ASSUME Arena!Sized, Arena!Init PROVE Arena!IInv
<1>1. Arena!TypeOK /\ Arena!GuardsHold
  BY DEF Arena!Init, Arena!TypeOK, Arena!GuardsHold, Arena!Loose, Arena!Sized
<1>2. ASSUME NEW s \in Arena!Slots PROVE Arena!Holders(s) = {} /\ agRoots[s] = 0
  BY DEF Arena!Init, Arena!Holders, Arena!Slots, Arena!Loose
<1> QED
  BY <1>1, <1>2, ArenaCardinality, FS_EmptySet DEF Arena!IInv, Arena!RootsCounted

-----------------------------------------------------------------------------
(* MarkSweep *)

(* Sweep's finite sets are those that the theorems on finite sets are      *)
(* about.                                                                  *)
LEMMA SweepCardinality ==
  ASSUME NEW S
  PROVE  Sweep!Cardinality(S) = Cardinality(S) /\ (Sweep!IsFiniteSet(S) <=> IsFiniteSet(S))
BY DEF Sweep!Cardinality, Cardinality, Sweep!IsFiniteSet, IsFiniteSet

(* Its mark phase finds what is reachable.                                 *)
LEMMA SweepMarkIsReachable ==
  ASSUME NEW seeds, NEW cld, NEW there, Sweep!IsFiniteSet(there)
  PROVE  Sweep!Mark(seeds, cld, there) = Sweep!Reachable(seeds, cld, there)
<1>1. Arena!Mark(seeds, cld, there) = Arena!Reachable(seeds, cld, there)
  BY SweepCardinality, MarkIsReachable
<1>2. Sweep!Mark(seeds, cld, there) = Arena!Mark(seeds, cld, there)
  BY DEF Sweep!Mark, Arena!Mark, Sweep!Cardinality, Arena!Cardinality
<1>3. Sweep!Reachable(seeds, cld, there) = Arena!Reachable(seeds, cld, there)
  BY DEF Sweep!Reachable, Arena!Reachable
<1> QED
  BY <1>1, <1>2, <1>3

(* What is reachable is there, has the seeds and is closed.                *)
LEMMA SweepReachableClosed ==
  ASSUME NEW seeds, NEW cld, NEW there
  PROVE  /\ Sweep!Reachable(seeds, cld, there) \subseteq there
         /\ seeds \cap there \subseteq Sweep!Reachable(seeds, cld, there)
         /\ \A y \in Sweep!Reachable(seeds, cld, there) : cld[y] \in there => cld[y] \in Sweep!Reachable(seeds, cld, there)
BY DEF Sweep!Reachable

(* Whoever joins or leaves a set of guards changes its size by one.        *)
LEMMA SweepRecount ==
  ASSUME Sweep!Sized, NEW H \in SUBSET TwoThreads, NEW g \in TwoThreads
  PROVE  /\ Sweep!Cardinality(H) \in Nat
         /\ Sweep!Cardinality(H) = 0 <=> H = {}
         /\ g \notin H => Sweep!Cardinality(H \cup {g}) = Sweep!Cardinality(H) + 1
         /\ g \in H => Sweep!Cardinality(H \ {g}) = Sweep!Cardinality(H) - 1
BY SweepCardinality, FS_Subset, FS_AddElement, FS_RemoveElement, FS_CardinalityType, FS_EmptySet DEF Sweep!Sized

(* The registered objects are the guarded ones.                            *)
LEMMA SweepRootsAre ==
  ASSUME Sweep!Sized, Sweep!IInv
  PROVE  {a \in Addresses : msRoots[a] > 0} = Sweep!Guarded
<1>1. ASSUME NEW a \in Addresses PROVE msRoots[a] > 0 <=> a \in Sweep!Guarded
  <2>1. msRoots[a] = Sweep!Cardinality(Sweep!Holders(a)) /\ Sweep!Holders(a) \in SUBSET TwoThreads
    BY DEF Sweep!IInv, Sweep!RootsCounted, Sweep!Holders
  <2>2. msRoots[a] \in Nat /\ (msRoots[a] = 0 <=> Sweep!Holders(a) = {})
    BY <2>1, SweepCardinality, FS_Subset, FS_EmptySet, FS_CardinalityType DEF Sweep!Sized
  <2>3. Sweep!Holders(a) # {} <=> a \in Sweep!Guarded
    BY DEF Sweep!Holders, Sweep!Guarded, Sweep!Sized
  <2> QED
    BY <2>2, <2>3
<1>2. Sweep!Guarded \subseteq Addresses
  BY DEF Sweep!Guarded, Sweep!IInv, Sweep!TypeOK
<1> QED
  BY <1>1, <1>2

(* collect(): what is left is what the guards lead to, and has no handle   *)
(* to what is gone.                                                        *)
LEMMA SweepCollectKeeps ==
  ASSUME Sweep!Sized, Sweep!IInv, Sweep!Collect
  PROVE  Sweep!IInv' /\ msLive' = Sweep!Reachable(Sweep!Guarded, msChild, msLive)
<1> DEFINE R == Sweep!Reachable(Sweep!Guarded, msChild, msLive)
<1>0. msLive \subseteq Addresses /\ msChild \in [Addresses -> Addresses \cup {Null}] /\ Sweep!HandlesHold
  BY DEF Sweep!IInv, Sweep!TypeOK
<1>1. Sweep!IsFiniteSet(msLive)
  BY <1>0, SweepCardinality, FS_Subset DEF Sweep!Sized
<1>2. msLive' = R
  BY <1>1, SweepMarkIsReachable, SweepRootsAre DEF Sweep!Collect
<1>3. /\ R \subseteq msLive /\ Sweep!Guarded \cap msLive \subseteq R
      /\ \A y \in R : msChild[y] \in msLive => msChild[y] \in R
  BY SweepReachableClosed
<1> HIDE DEF R
<1>4. msRoots' = msRoots /\ msGuard' = msGuard /\ msChild' = [a \in Addresses |-> IF a \in R THEN msChild[a] ELSE Null]
  BY <1>2 DEF Sweep!Collect
<1>5. Sweep!TypeOK'
  BY <1>0, <1>2, <1>3, <1>4 DEF Sweep!IInv, Sweep!TypeOK
<1>6. Sweep!RootsCounted'
  <2>1. \A a \in Addresses : Sweep!Holders(a)' = Sweep!Holders(a)
    BY <1>4 DEF Sweep!Holders
  <2> QED
    BY <1>4, <2>1 DEF Sweep!IInv, Sweep!RootsCounted
<1>7. Sweep!HandlesHold'
  <2>1. Sweep!Guarded' = Sweep!Guarded
    BY <1>4 DEF Sweep!Guarded
  <2>2. Sweep!Guarded \subseteq R
    BY <1>0, <1>3 DEF Sweep!HandlesHold
  <2>3. \A a \in R : msChild'[a] \in R \cup {Null}
    BY <1>0, <1>3, <1>4 DEF Sweep!HandlesHold
  <2> QED
    BY <1>2, <2>1, <2>2, <2>3 DEF Sweep!HandlesHold
<1> QED
  BY <1>2, <1>5, <1>6, <1>7 DEF Sweep!IInv, R

(* allocate() and the stores of handles: only live objects are handled.    *)
LEMMA SweepHeapKeeps ==
  ASSUME Sweep!Sized, Sweep!IInv, NEW a \in Addresses, NEW c \in Addresses \cup {Null}, Sweep!Allocate(a, c) \/ Sweep!Link(a, c)
  PROVE  Sweep!IInv' /\ msLive \subseteq msLive'
<1>1. /\ msLive' = msLive \cup {a} /\ c \in msLive \cup {Null} /\ msChild' = [msChild EXCEPT ![a] = c]
      /\ msRoots' = msRoots /\ msGuard' = msGuard
  BY DEF Sweep!Allocate, Sweep!Link
<1>2. Sweep!TypeOK'
  BY <1>1 DEF Sweep!IInv, Sweep!TypeOK
<1>3. Sweep!RootsCounted'
  <2>1. \A b \in Addresses : Sweep!Holders(b)' = Sweep!Holders(b)
    BY <1>1 DEF Sweep!Holders
  <2> QED
    BY <1>1, <2>1 DEF Sweep!IInv, Sweep!RootsCounted
<1>4. Sweep!HandlesHold'
  BY <1>1 DEF Sweep!IInv, Sweep!TypeOK, Sweep!HandlesHold, Sweep!Guarded
<1> QED
  BY <1>1, <1>2, <1>3, <1>4 DEF Sweep!IInv

(* A step of the guards that counts right.                                 *)
LEMMA SweepGuardsKeep ==
  ASSUME Sweep!IInv, msLive' = msLive, msChild' = msChild, msGuard' \in [TwoThreads -> msLive \cup {Null}],
         \A b \in Addresses : msRoots'[b] \in Nat /\ msRoots'[b] = Sweep!Cardinality(Sweep!Holders(b)'),
         msRoots' = [b \in Addresses |-> msRoots'[b]]
  PROVE  Sweep!IInv'
<1>1. Sweep!TypeOK'
  BY DEF Sweep!IInv, Sweep!TypeOK
<1>2. Sweep!HandlesHold'
  BY DEF Sweep!IInv, Sweep!HandlesHold, Sweep!Guarded
<1> QED
  BY <1>1, <1>2 DEF Sweep!IInv, Sweep!RootsCounted

(* What a guard holds is alive.                                            *)
LEMMA SweepGuarding ==
  ASSUME Sweep!IInv
  PROVE  msGuard \in [TwoThreads -> msLive \cup {Null}] /\ msRoots \in [Addresses -> Nat]
BY DEF Sweep!IInv, Sweep!TypeOK, Sweep!HandlesHold, Sweep!Guarded

(* A new object for a guard.                                               *)
LEMMA SweepRootKeeps ==
  ASSUME Sweep!Sized, Sweep!IInv, NEW g \in TwoThreads, NEW a \in Addresses, Sweep!Root(g, a)
  PROVE  Sweep!IInv'
<1>0. msGuard \in [TwoThreads -> msLive \cup {Null}] /\ msRoots \in [Addresses -> Nat] /\ msLive \subseteq Addresses
  BY SweepGuarding DEF Sweep!IInv, Sweep!TypeOK
<1>1. a \in msLive /\ msGuard' = [msGuard EXCEPT ![g] = a] /\ msLive' = msLive /\ msChild' = msChild
  BY DEF Sweep!Root
<1>2. ASSUME NEW b \in Addresses
      PROVE  /\ msRoots[b] = Sweep!Cardinality(Sweep!Holders(b)) /\ Sweep!Holders(b) \in SUBSET TwoThreads
             /\ Sweep!Holders(b)' = IF b = a THEN Sweep!Holders(b) \cup {g} ELSE Sweep!Holders(b) \ {g}
             /\ g \in Sweep!Holders(b) <=> msGuard[g] = b
  BY <1>0, <1>1 DEF Sweep!IInv, Sweep!RootsCounted, Sweep!Holders
<1>3. ASSUME NEW b \in Addresses
      PROVE  msRoots'[b] = IF b = a THEN IF msGuard[g] = a THEN msRoots[a] ELSE msRoots[a] + 1
                           ELSE IF msGuard[g] = b THEN (IF msRoots[b] = 0 THEN 0 ELSE msRoots[b] - 1) ELSE msRoots[b]
  BY <1>0 DEF Sweep!Root, Sweep!Unroot, Sweep!Sized
<1>4. msRoots' = [b \in Addresses |-> msRoots'[b]]
  BY <1>0 DEF Sweep!Root, Sweep!Unroot
<1>5. ASSUME NEW b \in Addresses PROVE msRoots'[b] \in Nat /\ msRoots'[b] = Sweep!Cardinality(Sweep!Holders(b)')
  <2> DEFINE H == Sweep!Holders(b)
  <2>1. /\ Sweep!Cardinality(H) \in Nat
        /\ Sweep!Cardinality(H) = 0 <=> H = {}
        /\ g \notin H => Sweep!Cardinality(H \cup {g}) = Sweep!Cardinality(H) + 1
        /\ g \in H => Sweep!Cardinality(H \ {g}) = Sweep!Cardinality(H) - 1
    BY <1>2, SweepRecount
  <2>2. (g \in H => H \cup {g} = H) /\ (g \notin H => H \ {g} = H)
    OBVIOUS
  <2>3. msRoots[b] = Sweep!Cardinality(H) /\ Sweep!Holders(b)' = (IF b = a THEN H \cup {g} ELSE H \ {g}) /\ (g \in H <=> msGuard[g] = b)
    BY <1>2
  <2> HIDE DEF H
  <2>n. msRoots'[b] = IF b = a THEN IF msGuard[g] = a THEN msRoots[a] ELSE msRoots[a] + 1
                           ELSE IF msGuard[g] = b THEN (IF msRoots[b] = 0 THEN 0 ELSE msRoots[b] - 1) ELSE msRoots[b]
    BY <1>3
  <2>4. CASE b = a /\ g \in H
    <3>1. Sweep!Holders(b)' = H
      BY <2>2, <2>3, <2>4
    <3> QED
      BY <2>1, <2>3, <2>4, <2>n, <3>1
  <2>5. CASE b = a /\ g \notin H
    <3>1. Sweep!Cardinality(Sweep!Holders(b)') = Sweep!Cardinality(H) + 1
      BY <2>1, <2>3, <2>5
    <3> QED
      BY <2>1, <2>3, <2>5, <2>n, <3>1
  <2>6. CASE b # a /\ g \in H
    <3>1. Sweep!Cardinality(Sweep!Holders(b)') = Sweep!Cardinality(H) - 1 /\ Sweep!Cardinality(H) # 0
      BY <2>1, <2>3, <2>6
    <3> QED
      BY <2>1, <2>3, <2>6, <2>n, <3>1
  <2>7. CASE b # a /\ g \notin H
    <3>1. Sweep!Holders(b)' = H
      BY <2>2, <2>3, <2>7
    <3> QED
      BY <2>1, <2>3, <2>7, <2>n, <3>1
  <2> QED
    BY <2>4, <2>5, <2>6, <2>7
<1>6. msGuard' \in [TwoThreads -> msLive \cup {Null}]
  BY <1>0, <1>1
<1> QED
  BY <1>1, <1>4, <1>5, <1>6, SweepGuardsKeep

(* The end of a guard.                                                     *)
LEMMA SweepDropKeeps ==
  ASSUME Sweep!Sized, Sweep!IInv, NEW g \in TwoThreads, Sweep!DropGuard(g)
  PROVE  Sweep!IInv'
<1>0. msGuard \in [TwoThreads -> msLive \cup {Null}] /\ msRoots \in [Addresses -> Nat] /\ msLive \subseteq Addresses
  BY SweepGuarding DEF Sweep!IInv, Sweep!TypeOK
<1>1. msGuard' = [msGuard EXCEPT ![g] = Null] /\ msLive' = msLive /\ msChild' = msChild
  BY DEF Sweep!DropGuard
<1>2. ASSUME NEW b \in Addresses
      PROVE  /\ msRoots[b] = Sweep!Cardinality(Sweep!Holders(b)) /\ Sweep!Holders(b) \in SUBSET TwoThreads
             /\ Sweep!Holders(b)' = Sweep!Holders(b) \ {g}
             /\ g \in Sweep!Holders(b) <=> msGuard[g] = b
  BY <1>0, <1>1 DEF Sweep!IInv, Sweep!RootsCounted, Sweep!Holders, Sweep!Sized
<1>3. ASSUME NEW b \in Addresses
      PROVE  msRoots'[b] = IF msGuard[g] = b THEN (IF msRoots[b] = 0 THEN 0 ELSE msRoots[b] - 1) ELSE msRoots[b]
  BY <1>0 DEF Sweep!DropGuard, Sweep!Unroot, Sweep!Sized
<1>4. msRoots' = [b \in Addresses |-> msRoots'[b]]
  BY <1>0 DEF Sweep!DropGuard, Sweep!Unroot
<1>5. ASSUME NEW b \in Addresses PROVE msRoots'[b] \in Nat /\ msRoots'[b] = Sweep!Cardinality(Sweep!Holders(b)')
  <2> DEFINE H == Sweep!Holders(b)
  <2>1. /\ Sweep!Cardinality(H) \in Nat
        /\ Sweep!Cardinality(H) = 0 <=> H = {}
        /\ g \in H => Sweep!Cardinality(H \ {g}) = Sweep!Cardinality(H) - 1
    BY <1>2, SweepRecount
  <2>2. g \notin H => H \ {g} = H
    OBVIOUS
  <2>3. msRoots[b] = Sweep!Cardinality(H) /\ Sweep!Holders(b)' = H \ {g} /\ (g \in H <=> msGuard[g] = b)
    BY <1>2
  <2> HIDE DEF H
  <2> QED
    BY <2>1, <2>2, <2>3, <1>3
<1>6. msGuard' \in [TwoThreads -> msLive \cup {Null}]
  BY <1>0, <1>1
<1> QED
  BY <1>1, <1>4, <1>5, <1>6, SweepGuardsKeep

(* A move of a guard.                                                      *)
LEMMA SweepMoveKeeps ==
  ASSUME Sweep!Sized, Sweep!IInv, NEW g \in TwoThreads, NEW k \in TwoThreads, Sweep!MoveGuard(g, k)
  PROVE  Sweep!IInv'
<1>0. msGuard \in [TwoThreads -> msLive \cup {Null}] /\ msRoots \in [Addresses -> Nat] /\ msLive \subseteq Addresses
  BY SweepGuarding DEF Sweep!IInv, Sweep!TypeOK
<1>1. g # k /\ msGuard' = [msGuard EXCEPT ![g] = msGuard[k], ![k] = Null] /\ msLive' = msLive /\ msChild' = msChild
  BY DEF Sweep!MoveGuard
<1>2. ASSUME NEW b \in Addresses
      PROVE  /\ msRoots[b] = Sweep!Cardinality(Sweep!Holders(b)) /\ Sweep!Holders(b) \in SUBSET TwoThreads
             /\ Sweep!Holders(b)' = IF msGuard[k] = b THEN (Sweep!Holders(b) \ {k}) \cup {g} ELSE Sweep!Holders(b) \ {g}
             /\ g \in Sweep!Holders(b) <=> msGuard[g] = b
             /\ k \in Sweep!Holders(b) <=> msGuard[k] = b
  BY <1>0, <1>1 DEF Sweep!IInv, Sweep!RootsCounted, Sweep!Holders, Sweep!Sized
<1>3. ASSUME NEW b \in Addresses
      PROVE  msRoots'[b] = IF msGuard[g] = b THEN (IF msRoots[b] = 0 THEN 0 ELSE msRoots[b] - 1) ELSE msRoots[b]
  BY <1>0 DEF Sweep!MoveGuard, Sweep!Unroot, Sweep!Sized
<1>4. msRoots' = [b \in Addresses |-> msRoots'[b]]
  BY <1>0 DEF Sweep!MoveGuard, Sweep!Unroot
<1>5. ASSUME NEW b \in Addresses PROVE msRoots'[b] \in Nat /\ msRoots'[b] = Sweep!Cardinality(Sweep!Holders(b)')
  <2> DEFINE H == Sweep!Holders(b)
             K == H \ {k}
  <2>1. /\ Sweep!Cardinality(H) \in Nat
        /\ Sweep!Cardinality(H) = 0 <=> H = {}
        /\ g \in H => Sweep!Cardinality(H \ {g}) = Sweep!Cardinality(H) - 1
        /\ k \in H => Sweep!Cardinality(K) = Sweep!Cardinality(H) - 1
    BY <1>2, SweepRecount
  <2>2. /\ Sweep!Cardinality(K) \in Nat
        /\ g \notin K => Sweep!Cardinality(K \cup {g}) = Sweep!Cardinality(K) + 1
    BY <1>2, SweepRecount
  <2>3. (g \notin H => H \ {g} = H) /\ (g \in K <=> g \in H) /\ (g \in K => K \cup {g} = K)
    BY <1>1
  <2>4. /\ msRoots[b] = Sweep!Cardinality(H) /\ Sweep!Holders(b)' = (IF msGuard[k] = b THEN K \cup {g} ELSE H \ {g})
        /\ (g \in H <=> msGuard[g] = b) /\ (k \in H <=> msGuard[k] = b)
    BY <1>2
  <2> HIDE DEF H, K
  <2>n. msRoots'[b] = IF msGuard[g] = b THEN (IF msRoots[b] = 0 THEN 0 ELSE msRoots[b] - 1) ELSE msRoots[b]
    BY <1>3
  <2>5. CASE k \in H /\ g \in H
    <3>1. Sweep!Holders(b)' = K
      BY <2>3, <2>4, <2>5
    <3>2. Sweep!Cardinality(Sweep!Holders(b)') = Sweep!Cardinality(H) - 1 /\ Sweep!Cardinality(H) # 0
      BY <2>1, <2>5, <3>1
    <3> QED
      BY <2>1, <2>4, <2>5, <2>n, <3>2
  <2>6. CASE k \in H /\ g \notin H
    <3>1. Sweep!Cardinality(Sweep!Holders(b)') = Sweep!Cardinality(K) + 1
      BY <2>2, <2>3, <2>4, <2>6
    <3> QED
      BY <2>1, <2>4, <2>6, <2>n, <3>1
  <2>7. CASE k \notin H /\ g \in H
    <3>1. Sweep!Cardinality(Sweep!Holders(b)') = Sweep!Cardinality(H) - 1 /\ Sweep!Cardinality(H) # 0
      BY <2>1, <2>4, <2>7
    <3> QED
      BY <2>1, <2>4, <2>7, <2>n, <3>1
  <2>8. CASE k \notin H /\ g \notin H
    <3>1. Sweep!Holders(b)' = H
      BY <2>3, <2>4, <2>8
    <3> QED
      BY <2>1, <2>4, <2>8, <2>n, <3>1
  <2> QED
    BY <2>5, <2>6, <2>7, <2>8
<1>6. msGuard' \in [TwoThreads -> msLive \cup {Null}]
  BY <1>0, <1>1
<1> QED
  BY <1>1, <1>4, <1>5, <1>6, SweepGuardsKeep

(* Every step keeps Sweep!IInv, and a sweep takes exactly what is          *)
(* unreachable.                                                            *)
LEMMA SweepInductive ==
  ASSUME Sweep!Sized, Sweep!IInv, [Sweep!Next]_Sweep!vars
  PROVE  Sweep!IInv' /\ Sweep!SweepsUnreachable
<1>1. CASE Sweep!Collect
  BY <1>1, SweepCollectKeeps DEF Sweep!SweepsUnreachable
<1>2. ASSUME NEW a \in Addresses, NEW c \in Addresses \cup {Null}, Sweep!Allocate(a, c) \/ Sweep!Link(a, c)
      PROVE  Sweep!IInv' /\ Sweep!SweepsUnreachable
  BY <1>2, SweepHeapKeeps DEF Sweep!SweepsUnreachable
<1>3. ASSUME NEW g \in TwoThreads, Sweep!GuardOps(g) PROVE Sweep!IInv' /\ msLive' = msLive
  <2>1. msLive' = msLive
    BY <1>3 DEF Sweep!GuardOps, Sweep!DropGuard, Sweep!Root, Sweep!MoveGuard
  <2> QED
    BY <1>3, <2>1, SweepDropKeeps, SweepRootKeeps, SweepMoveKeeps DEF Sweep!GuardOps
<1>4. CASE UNCHANGED Sweep!vars
  <2>1. msLive' = msLive /\ msChild' = msChild /\ msRoots' = msRoots /\ msGuard' = msGuard
    BY <1>4 DEF Sweep!vars
  <2>2. \A b \in Addresses : Sweep!Holders(b)' = Sweep!Holders(b)
    BY <2>1 DEF Sweep!Holders
  <2>3. Sweep!RootsCounted'
    BY <2>1, <2>2 DEF Sweep!IInv, Sweep!RootsCounted
  <2> QED
    BY <2>1, <2>3 DEF Sweep!IInv, Sweep!TypeOK, Sweep!HandlesHold, Sweep!Guarded, Sweep!SweepsUnreachable
<1> QED
  BY <1>1, <1>2, <1>3, <1>4 DEF Sweep!Next, Sweep!SweepsUnreachable

(* An empty heap.                                                          *)
LEMMA SweepInitHolds == ASSUME Sweep!Sized, Sweep!Init PROVE Sweep!IInv
<1>1. Sweep!TypeOK /\ Sweep!HandlesHold
  BY DEF Sweep!Init, Sweep!TypeOK, Sweep!HandlesHold, Sweep!Guarded
<1>2. ASSUME NEW a \in Addresses PROVE Sweep!Holders(a) = {} /\ msRoots[a] = 0
  BY DEF Sweep!Init, Sweep!Holders, Sweep!Sized
<1> QED
  BY <1>1, <1>2, SweepCardinality, FS_EmptySet DEF Sweep!IInv, Sweep!RootsCounted

-----------------------------------------------------------------------------
(* TokenBucket *)

(* refill() adds what the time brought, up to a full bucket.               *)
LEMMA BucketRefilledIs ==
  ASSUME Bucket!Sized, Bucket!Types
  PROVE  /\ Bucket!Refilled \in Nat /\ Bucket!Refilled <= Burst
         /\ Bucket!Refilled <= tbTokens + (tbNow - tbLastRefill)
<1>1. PICK x : x = tbTokens + (tbNow - tbLastRefill)
  OBVIOUS
<1>2. x \in Nat /\ Burst \in Nat
  BY <1>1 DEF Bucket!Sized, Bucket!Types, Bucket!Times
<1>3. Bucket!Refilled = Bucket!Min({Burst, x})
  BY <1>1 DEF Bucket!Refilled
<1>4. \E m \in {Burst, x} : \A y \in {Burst, x} : m <= y
  BY <1>2
<1>5. Bucket!Min({Burst, x}) \in {Burst, x} /\ \A y \in {Burst, x} : Bucket!Min({Burst, x}) <= y
  BY <1>4 DEF Bucket!Min
<1> QED
  BY <1>1, <1>2, <1>3, <1>5

(* Every step of the clock and of try_acquire() keeps Bucket!IInv.         *)
LEMMA BucketInductive ==
  ASSUME Bucket!Sized, Bucket!IInv, [Bucket!Next]_Bucket!vars
  PROVE  Bucket!IInv'
<1> USE DEF Bucket!Sized, Bucket!IInv
<1>0. /\ tbNow \in Nat /\ tbLastRefill \in Nat /\ tbLastRefill <= tbNow /\ tbNow <= MaxTime
      /\ tbTokens \in Nat /\ MaxTime \in Nat /\ Burst \in Nat
      /\ \A t \in Bucket!Times : tbSpent[t] \in Nat
  BY DEF Bucket!Types, Bucket!Times
<1>1. ASSUME NEW n \in Requests, Bucket!try_acquire(n) PROVE Bucket!IInv'
  <2>r. Bucket!Refilled \in Nat /\ Bucket!Refilled <= Burst /\ Bucket!Refilled <= tbTokens + (tbNow - tbLastRefill)
    BY BucketRefilledIs
  <2>1. PICK k \in Nat : /\ tbTokens' = Bucket!Refilled - k /\ k <= Bucket!Refilled
                         /\ tbSpent' = [t \in Bucket!Times |-> tbSpent[t] + IF t < tbNow THEN 0 ELSE k]
    <3>1. CASE Bucket!Refilled < n
      <4>1. tbTokens' = Bucket!Refilled - 0 /\ tbSpent' = tbSpent
        BY <1>1, <3>1, <2>r DEF Bucket!try_acquire
      <4>2. tbSpent = [t \in Bucket!Times |-> tbSpent[t] + IF t < tbNow THEN 0 ELSE 0]
        BY <1>0 DEF Bucket!Types
      <4> QED
        BY <4>1, <4>2, <2>r
    <3>2. CASE ~(Bucket!Refilled < n)
      <4>1. tbTokens' = Bucket!Refilled - n /\ tbSpent' = [t \in Bucket!Times |-> tbSpent[t] + IF t < tbNow THEN 0 ELSE n]
        BY <1>1, <3>2 DEF Bucket!try_acquire
      <4>2. n \in Nat /\ n <= Bucket!Refilled
        BY <2>r, <3>2
      <4> QED
        BY <4>1, <4>2
    <3> QED
      BY <3>1, <3>2
  <2>2. tbLastRefill' = tbNow /\ tbNow' = tbNow
    BY <1>1 DEF Bucket!try_acquire
  <2>3. /\ \A t \in Bucket!Times : t < tbNow => tbSpent'[t] = tbSpent[t]
        /\ \A t \in Bucket!Times : t >= tbNow => tbSpent'[t] = tbSpent[tbLastRefill] + k
    BY <2>1, <1>0 DEF Bucket!Filled, Bucket!Times
  <2>4. Bucket!Types'
    BY <2>1, <2>2, <2>r, <1>0 DEF Bucket!Types, Bucket!Times
  <2>s. tbNow \in Bucket!Times /\ tbLastRefill \in Bucket!Times /\ tbSpent'[tbNow] = tbSpent[tbLastRefill] + k /\ tbSpent[tbLastRefill] \in Nat
    BY <2>3, <1>0 DEF Bucket!Times
  <2>5. ASSUME NEW a \in 0 .. tbNow PROVE Bucket!SpentIn(a, tbNow)' + tbTokens' <= Burst + (tbNow - a)
    <3>0. a # 0 => a - 1 \in Bucket!Times /\ tbSpent'[a - 1] = tbSpent[a - 1]
      BY <2>3, <1>0 DEF Bucket!Times
    <3>1. CASE a <= tbLastRefill
      <4>1. Bucket!SpentIn(a, tbLastRefill) + tbTokens <= Burst + (tbLastRefill - a) /\ a \in Nat
        BY <1>0, <3>1 DEF Bucket!Filled
      <4>2. Bucket!SpentIn(a, tbNow)' = Bucket!SpentIn(a, tbLastRefill) + k /\ Bucket!SpentIn(a, tbLastRefill) \in Int
        BY <3>0, <2>s, <2>2, <1>0 DEF Bucket!SpentIn
      <4> QED
        BY <4>1, <4>2, <2>1, <2>r, <1>0
    <3>2. CASE ~(a <= tbLastRefill)
      <4>1. a # 0 /\ tbSpent[a - 1] = tbSpent[tbLastRefill]
        BY <3>0, <3>2, <1>0 DEF Bucket!Filled
      <4>2. Bucket!SpentIn(a, tbNow)' = k
        BY <3>0, <4>1, <2>s, <2>2 DEF Bucket!SpentIn
      <4> QED
        BY <4>2, <2>1, <2>r, <1>0
    <3> QED
      BY <3>1, <3>2
  <2>6. Bucket!Filled'
    <3>1. \A t \in Bucket!Times : t >= tbNow => tbSpent'[t] = tbSpent'[tbNow]
      BY <2>3, <2>s
    <3> QED
      BY <3>1, <2>2, <2>5 DEF Bucket!Filled
  <2>7. ASSUME NEW a \in Bucket!Times, NEW b \in Bucket!Times, a <= b PROVE Bucket!SpentIn(a, b)' <= Burst + (b - a)
    <3>0. a # 0 => a - 1 \in Bucket!Times
      BY <1>0 DEF Bucket!Times
    <3>i. a \in Nat /\ b \in Nat
      BY DEF Bucket!Times
    <3>1. CASE b < tbNow
      <4>1. Bucket!SpentIn(a, b)' = Bucket!SpentIn(a, b)
        BY <3>0, <3>i, <3>1, <2>3, <2>7, <1>0 DEF Bucket!SpentIn
      <4> QED
        BY <4>1, <2>7 DEF Bucket!RateKept
    <3>2. CASE b >= tbNow /\ a <= tbNow
      <4>1. Bucket!SpentIn(a, b)' = Bucket!SpentIn(a, tbNow)'
        BY <3>2, <2>3, <2>s, <2>2 DEF Bucket!SpentIn
      <4>2. Bucket!SpentIn(a, tbNow)' + tbTokens' <= Burst + (tbNow - a) /\ tbTokens' \in Nat
        BY <3>2, <3>i, <2>5, <2>4, <1>0 DEF Bucket!Types
      <4>3. Bucket!SpentIn(a, tbNow)' \in Int
        <5>1. a # 0 => tbSpent'[a - 1] \in Nat
          BY <3>0, <2>4 DEF Bucket!Types
        <5> QED
          BY <5>1, <2>s, <2>1, <2>2 DEF Bucket!SpentIn
      <4> QED
        BY <4>1, <4>2, <4>3, <3>2, <3>i, <1>0
    <3>3. CASE a > tbNow
      <4>1. a # 0 /\ a - 1 >= tbNow /\ b >= tbNow
        BY <3>3, <3>i, <2>7, <1>0
      <4>2. Bucket!SpentIn(a, b)' = 0
        BY <4>1, <3>0, <2>3, <2>s, <2>1 DEF Bucket!SpentIn
      <4> QED
        BY <4>2, <3>i, <2>7, <1>0
    <3> QED
      BY <3>1, <3>2, <3>3, <3>i, <1>0
  <2>8. Bucket!RateKept'
    BY <2>7 DEF Bucket!RateKept
  <2> QED
    BY <2>4, <2>6, <2>8
<1>2. ASSUME NEW e \in 1 .. MaxTime, Bucket!advance(e) PROVE Bucket!IInv'
  <2>1. tbNow + e <= MaxTime /\ tbNow' = tbNow + e /\ tbTokens' = tbTokens /\ tbLastRefill' = tbLastRefill /\ tbSpent' = tbSpent
    BY <1>2 DEF Bucket!advance
  <2>2. Bucket!Types'
    BY <2>1, <1>0 DEF Bucket!Types, Bucket!Times
  <2> QED
    BY <2>1, <2>2 DEF Bucket!Filled, Bucket!RateKept, Bucket!SpentIn
<1>3. CASE UNCHANGED Bucket!vars
  BY <1>3 DEF Bucket!vars, Bucket!Types, Bucket!Filled, Bucket!RateKept, Bucket!SpentIn
<1> QED
  BY <1>1, <1>2, <1>3 DEF Bucket!Next

(* A new bucket is full.                                                   *)
LEMMA BucketInitHolds == ASSUME Bucket!Sized, Bucket!Init PROVE Bucket!IInv
<1>1. Bucket!Types
  BY DEF Bucket!Init, Bucket!Types, Bucket!Times, Bucket!Sized
<1>2. \A a \in Bucket!Times, b \in Bucket!Times : Bucket!SpentIn(a, b) = 0
  <2> SUFFICES ASSUME NEW a \in Bucket!Times, NEW b \in Bucket!Times PROVE Bucket!SpentIn(a, b) = 0
    OBVIOUS
  <2>1. a # 0 => a - 1 \in Bucket!Times
    BY DEF Bucket!Times, Bucket!Sized
  <2> QED
    BY <2>1 DEF Bucket!Init, Bucket!SpentIn
<1>3. Bucket!RateKept
  BY <1>2 DEF Bucket!RateKept, Bucket!Sized, Bucket!Times
<1>4. Bucket!Filled
  BY <1>2 DEF Bucket!Init, Bucket!Filled, Bucket!Sized, Bucket!Times
<1> QED
  BY <1>1, <1>3, <1>4 DEF Bucket!IInv

-----------------------------------------------------------------------------
(* PoolAllocator *)

\* The pool of objects, from whose proofs the facts about linked lists come.
Shared == INSTANCE ObjectPool WITH Threads <- TwoThreads,
        Capacity <- PoolSize, head_ <- oHead, next <- oNext, live_ <- oLive,
        handle <- oHandle, detached <- oDetached, pc <- oPc, op <- oOp,
        slot <- oSlot, nxt <- oNxt

(* Its Cardinality is the one that the theorems on finite sets are about.  *)
LEMMA SharedCardinality ==
  ASSUME NEW S
  PROVE  Shared!Cardinality(S) = Cardinality(S) /\ (Shared!IsFiniteSet(S) <=> IsFiniteSet(S))
BY DEF Shared!Cardinality, Cardinality, Shared!IsFiniteSet, IsFiniteSet

\* What every step keeps: the slots that are not live hang on the head, each once.
FreeListed ==
  /\ Allocator!TypeOK
  /\ \E s : /\ Shared!Chained(Allocator!Slots, 0 - 1, paHead, paLink, s)
            /\ Shared!Members(s) = Allocator!Slots \ paLive

(* The walk along the links exists as a function, as it exists up to any   *)
(* n: up to a least n for which it did not, it could be extended.          *)
LEMMA AllocatorWalkSteps ==
  ASSUME AllocatorSize \in Nat
  PROVE  /\ Allocator!walk[0] = paHead
         /\ \A n \in 1 .. AllocatorSize :
              Allocator!walk[n] = IF Allocator!walk[n - 1] \in Allocator!Slots THEN paLink[Allocator!walk[n - 1]] ELSE Allocator!walk[n - 1]
<1> DEFINE G(f, n) == IF n = 0 THEN paHead ELSE IF f[n - 1] \in Allocator!Slots THEN paLink[f[n - 1]] ELSE f[n - 1]
           E(m) == \E f : f = [n \in 0 .. m |-> G(f, n)]
           T == {m \in 0 .. AllocatorSize : ~ E(m)}
<1>0. E(0)
  <2> DEFINE h == [n \in 0 .. 0 |-> paHead]
  <2>1. h = [n \in 0 .. 0 |-> G(h, n)]
    OBVIOUS
  <2> QED
    BY <2>1
<1>1. ASSUME NEW m \in Nat, E(m) PROVE E(m + 1)
  <2>1. PICK f : f = [n \in 0 .. m |-> G(f, n)]
    BY <1>1
  <2> DEFINE g == IF f[m] \in Allocator!Slots THEN paLink[f[m]] ELSE f[m]
             h == [n \in 0 .. m + 1 |-> IF n = m + 1 THEN g ELSE f[n]]
  <2>0. \A n \in 0 .. m : f[n] = G(f, n)
    <3> HIDE DEF G
    <3> QED
      BY ONLY <2>1
  <2>2. \A n \in 0 .. m : h[n] = f[n] /\ f[n] = G(f, n)
    <3>1. \A n \in 0 .. m : h[n] = f[n]
      OBVIOUS
    <3> QED
      BY ONLY <3>1, <2>0
  <2>3. h[m + 1] = g
    OBVIOUS
  <2> HIDE DEF g, h
  <2>4. \A n \in 0 .. m : h[n] = G(h, n)
    BY <2>2
  <2>5. h[m + 1] = G(h, m + 1)
    BY <2>2, <2>3 DEF g
  <2>6. \A n \in 0 .. m + 1 : h[n] = G(h, n)
    BY <2>4, <2>5
  <2>7. h = [n \in 0 .. m + 1 |-> h[n]]
    BY DEF h
  <2>8. h = [n \in 0 .. m + 1 |-> G(h, n)]
    <3> HIDE DEF G
    <3> QED
      BY <2>6, <2>7
  <2> QED
    BY <2>8
<1> HIDE DEF E
<1>2. T = {}
  <2> SUFFICES ASSUME T # {} PROVE FALSE
    OBVIOUS
  <2>0. T \in SUBSET Nat
    OBVIOUS
  <2> HIDE DEF T
  <2>1. PICK m \in T : \A y \in T : m <= y
    BY <2>0, NatMin
  <2>2. m # 0
    BY <2>1, <1>0 DEF T
  <2>3. m - 1 \in Nat /\ m - 1 \notin T
    BY <2>0, <2>1, <2>2
  <2>4. E(m - 1)
    BY <2>3, <2>1 DEF T
  <2>5. E((m - 1) + 1)
    BY <2>3, <2>4, <1>1
  <2> QED
    BY <2>5, <2>1 DEF T
<1>3. E(AllocatorSize)
  <2>1. AllocatorSize \in 0 .. AllocatorSize /\ AllocatorSize \notin T
    BY <1>2
  <2> QED
    BY <2>1
<1>4. Allocator!walk = [n \in 0 .. AllocatorSize |-> G(Allocator!walk, n)]
  BY <1>3, Zenon DEF Allocator!walk, E
<1>5. \A n \in 0 .. AllocatorSize : Allocator!walk[n] = G(Allocator!walk, n)
  <2> HIDE DEF G
  <2> QED
    BY <1>4
<1> QED
  BY <1>5

(* There are capacity_ slots.                                              *)
LEMMA AllocatorSlotsCounted ==
  ASSUME Allocator!Sized
  PROVE  IsFiniteSet(Allocator!Slots) /\ Cardinality(Allocator!Slots) = AllocatorSize
<1>1. 0 \in Int /\ AllocatorSize - 1 \in Int /\ ~(0 > AllocatorSize - 1)
  BY DEF Allocator!Sized
<1>2. IsFiniteSet(Allocator!Slots) /\ Cardinality(Allocator!Slots) = (AllocatorSize - 1) - 0 + 1
  BY <1>1, FS_Interval DEF Allocator!Slots
<1> QED
  BY <1>2 DEF Allocator!Sized

(* So a list that hangs on the head is what Marked computes.               *)
LEMMA AllocatorFreeWalked ==
  ASSUME Allocator!Sized, NEW s, Shared!Chained(Allocator!Slots, (0 - 1), paHead, paLink, s)
  PROVE  Allocator!Marked = Shared!Members(s)
<1>1. Len(s) <= AllocatorSize
  BY AllocatorSlotsCounted, SharedCardinality, Shared!ChainFits DEF Shared!Chained
<1>2. Shared!Follows(Allocator!Slots, (0 - 1), paHead, paLink, AllocatorSize, Allocator!walk)
  BY AllocatorWalkSteps DEF Allocator!Sized, Shared!Follows
<1>3. AllocatorSize \in Nat /\ (0 - 1) \notin Allocator!Slots
  BY DEF Allocator!Sized
<1>4. /\ \A k \in 0 .. AllocatorSize : Allocator!walk[k] # (0 - 1) => Allocator!walk[k] \in Shared!Members(s)
      /\ \A x \in Shared!Members(s) : \E k \in 0 .. AllocatorSize : Allocator!walk[k] = x /\ x # (0 - 1)
  BY <1>1, <1>2, <1>3, Shared!ChainWalked
<1> QED
  BY <1>4 DEF Allocator!Marked

(* The slots of a new pool hang on one another.                            *)
LEMMA AllocatorNewPool ==
  ASSUME Allocator!Sized, NEW l, l = [i \in Allocator!Slots |-> IF i + 1 < AllocatorSize THEN i + 1 ELSE (0 - 1)]
  PROVE  /\ 0 \in Allocator!Slots /\ l \in [Allocator!Slots -> Allocator!Slots \cup {(0 - 1), (0 - 2)}]
         /\ \E s : Shared!Chained(Allocator!Slots, (0 - 1), 0, l, s) /\ Shared!Members(s) = Allocator!Slots
<1>1. 0 .. 0 + AllocatorSize - 1 = Allocator!Slots /\ 0 \in Int /\ AllocatorSize \in Nat /\ AllocatorSize > 0
  BY DEF Allocator!Sized, Allocator!Slots
<1>2. \A x \in Allocator!Slots : l[x] = IF x + 1 < 0 + AllocatorSize THEN x + 1 ELSE (0 - 1)
  BY <1>1
<1>3. \E s : Shared!Chained(Allocator!Slots, (0 - 1), 0, l, s) /\ Shared!Members(s) = Allocator!Slots
  BY <1>1, <1>2, Shared!ChainOfAll DEF Allocator!Sized
<1>4. 0 \in Allocator!Slots
  BY <1>1 DEF Allocator!Slots
<1>5. \A i \in Allocator!Slots : i + 1 < AllocatorSize => i + 1 \in Allocator!Slots
  BY <1>1 DEF Allocator!Slots
<1>6. l \in [Allocator!Slots -> Allocator!Slots \cup {(0 - 1), (0 - 2)}]
  BY <1>5
<1> QED
  BY <1>3, <1>4, <1>6

(* A new pool.                                                             *)
LEMMA AllocatorInitHolds ==
  ASSUME Allocator!Sized, Allocator!Init
  PROVE  FreeListed
<1>1. Allocator!Slots \ paLive = Allocator!Slots
  BY DEF Allocator!Init
<1> QED
  BY <1>1, AllocatorNewPool DEF Allocator!Init, FreeListed, Allocator!TypeOK

(* Every step keeps FreeListed, and the destructor destroys what is live.  *)
LEMMA AllocatorInductive ==
  ASSUME Allocator!Sized, FreeListed, [Allocator!Next]_Allocator!vars
  PROVE  FreeListed' /\ Allocator!DestroysLive
<1> USE DEF FreeListed
<1>0. PICK s : Shared!Chained(Allocator!Slots, (0 - 1), paHead, paLink, s) /\ Shared!Members(s) = Allocator!Slots \ paLive
  OBVIOUS
<1>n. (0 - 1) \notin Allocator!Slots
  BY DEF Allocator!Sized
<1>1. CASE Allocator!allocate
  <2>1. /\ paHead # (0 - 1) /\ paLink' = [paLink EXCEPT ![paHead] = (0 - 2)] /\ paHead' = paLink[paHead]
        /\ paLive' = paLive \cup {paHead} /\ paDestroyed' = paDestroyed
    BY <1>1 DEF Allocator!allocate
  <2>2. Shared!SameBut(Allocator!Slots, paHead, paLink, paLink')
    BY <2>1 DEF Allocator!TypeOK, Shared!SameBut
  <2>3. /\ Shared!Chained(Allocator!Slots, (0 - 1), paHead', paLink', Tail(s)) /\ paHead \in Allocator!Slots
        /\ Shared!Members(Tail(s)) = Shared!Members(s) \ {paHead}
    BY <1>0, <1>n, <2>1, <2>2, Shared!ChainPopped
  <2>4. Shared!Members(Tail(s)) = Allocator!Slots \ paLive'
    BY <1>0, <2>1, <2>3
  <2>5. paHead' \in Allocator!Slots \cup {(0 - 1)}
    BY <2>3 DEF Shared!Chained
  <2>6. Allocator!TypeOK'
    BY <2>1, <2>3, <2>5 DEF Allocator!TypeOK
  <2> QED
    BY <2>1, <2>3, <2>4, <2>6 DEF Allocator!DestroysLive
<1>2. ASSUME NEW i \in Allocator!Slots, Allocator!deallocate(i) PROVE FreeListed' /\ Allocator!DestroysLive
  <2>1. /\ i \in paLive /\ paLink' = [paLink EXCEPT ![i] = paHead] /\ paHead' = i
        /\ paLive' = paLive \ {i} /\ paDestroyed' = paDestroyed
    BY <1>2 DEF Allocator!deallocate
  <2>2. paLink'[i] = paHead /\ Shared!SameBut(Allocator!Slots, i, paLink, paLink')
    BY <2>1 DEF Allocator!TypeOK, Shared!SameBut
  <2>n. i \notin Shared!Members(s)
    BY <1>0, <2>1
  <2>3. PICK t : Shared!Chained(Allocator!Slots, (0 - 1), i, paLink', t) /\ Shared!Members(t) = Shared!Members(s) \cup {i}
    <3> HIDE DEF FreeListed
    <3>1. Shared!Chained(Allocator!Slots, (0 - 1), paHead, paLink, s) /\ i \in Allocator!Slots
      BY <1>0
    <3> QED
      BY <1>n, <2>n, <2>2, <3>1, Shared!ChainPushed
  <2>4. Shared!Members(t) = Allocator!Slots \ paLive'
    BY <1>0, <2>1, <2>3
  <2>6. Allocator!TypeOK'
    BY <2>1 DEF Allocator!TypeOK
  <2> QED
    BY <2>1, <2>3, <2>4, <2>6 DEF Allocator!DestroysLive
<1>3. CASE Allocator!Destroy
  <2>1. paDestroyed' = paLive
    BY <1>0, <1>3, AllocatorFreeWalked DEF Allocator!Destroy, Allocator!TypeOK
  <2>2. FreeListed'
    <3>1. Allocator!Slots \ paLive' = Allocator!Slots
      BY <1>3 DEF Allocator!Destroy
    <3> QED
      BY <1>3, <3>1, <2>1, AllocatorNewPool DEF Allocator!Destroy, Allocator!TypeOK
  <2> QED
    BY <2>1, <2>2 DEF Allocator!DestroysLive
<1>4. CASE UNCHANGED Allocator!vars
  BY <1>4 DEF Allocator!vars, Allocator!TypeOK, Allocator!DestroysLive
<1> QED
  BY <1>1, <1>2, <1>3, <1>4 DEF Allocator!Next

(* What the invariant promises.                                            *)
LEMMA AllocatorImplied ==
  ASSUME Allocator!Sized, FreeListed
  PROVE  Allocator!FreeListExact
BY AllocatorFreeWalked DEF FreeListed, Allocator!FreeListExact

-----------------------------------------------------------------------------
(* RiskChain *)

\* The handlers that were appended hang on one another, and tail_ is the last.
ChainLinked ==
  \E s : /\ Shared!Chained(Chain!Handlers, Null, rcHead, rcNext, s) /\ Shared!Members(s) = rcAppended
         /\ s # <<>> => rcTail = s[Len(s)]

\* What every step of the chain keeps.
ChainInv == Chain!Types /\ Chain!ChainGuards /\ ChainLinked

(* Chain's Cardinality is the one that the theorems on finite sets are     *)
(* about.                                                                  *)
LEMMA ChainCardinality == ASSUME NEW S PROVE Chain!Cardinality(S) = Cardinality(S)
BY DEF Chain!Cardinality, Cardinality

(* There are four handlers.                                                *)
LEMMA ChainHandlersFinite == IsFiniteSet(Chain!Handlers) /\ Chain!Cardinality(Chain!Handlers) \in Nat
<1>1. IsFiniteSet({"qty"})
  BY FS_Singleton
<1>2. IsFiniteSet({"qty"} \cup {"price"})
  BY <1>1, FS_AddElement
<1>3. IsFiniteSet(({"qty"} \cup {"price"}) \cup {"symbols"})
  BY <1>2, FS_AddElement
<1>4. IsFiniteSet((({"qty"} \cup {"price"}) \cup {"symbols"}) \cup {"notional"})
  BY <1>3, FS_AddElement
<1>5. Chain!Handlers = (({"qty"} \cup {"price"}) \cup {"symbols"}) \cup {"notional"}
  BY DEF Chain!Handlers
<1>6. IsFiniteSet(Chain!Handlers)
  BY <1>4, <1>5
<1> QED
  BY <1>6, ChainCardinality, FS_CardinalityType

(* handle() and size() walk along the links.                               *)
LEMMA ChainLinkSteps ==
  ASSUME NEW c, c = Chain!Cardinality(Chain!Handlers)
  PROVE  \A k \in 0 .. c : Chain!Link[k] = Shared!WalkTo(Null, rcHead, rcNext, Chain!Link, k)
<1>1. c \in Nat
  BY ChainHandlersFinite
<1>2. \E f : Shared!IsWalk(Null, rcHead, rcNext, c, f)
  BY <1>1, Shared!WalkExists
<1>3. Chain!Link = CHOOSE f : Shared!IsWalk(Null, rcHead, rcNext, c, f)
  BY DEF Chain!Link, Shared!WalkTo, Shared!IsWalk
<1>4. Shared!IsWalk(Null, rcHead, rcNext, c, Chain!Link)
  BY <1>2, <1>3
<1> QED
  BY <1>4 DEF Shared!IsWalk

(* A validation that passes has asked every handler that was appended, and *)
(* the notional handler has charged the order.                             *)
LEMMA ChainRun ==
  ASSUME Chain!Sized, Chain!Types, ChainLinked, NEW o \in Chain!Orders
  PROVE  /\ (\A k \in Chain!Depth : Chain!do_check(Chain!Link[k], o)) => \A h \in rcAppended : Chain!do_check(h, o)
         /\ (\A k \in Chain!Depth : Chain!do_check(Chain!Link[k], o)) /\ "notional" \in rcAppended =>
              Chain!Runs("notional", o) /\ Chain!do_check("notional", o)
<1>0. PICK s : Shared!Chained(Chain!Handlers, Null, rcHead, rcNext, s) /\ Shared!Members(s) = rcAppended
  BY DEF ChainLinked
<1> DEFINE c == Chain!Cardinality(Chain!Handlers)
<1>1. c \in Nat /\ Len(s) <= c
  BY <1>0, ChainCardinality, ChainHandlersFinite, SharedCardinality, Shared!ChainFits DEF Shared!Chained
<1>d. Chain!Depth = {k \in 0 .. c : Chain!Link[k] # Null}
  BY DEF Chain!Depth
<1> HIDE DEF c
<1>2. Shared!Follows(Chain!Handlers, Null, rcHead, rcNext, c, Chain!Link)
  BY <1>1, ChainLinkSteps DEF Chain!Sized, Shared!Follows, Shared!WalkTo, c
<1>3. /\ \A x \in rcAppended : \E k \in 0 .. c : Chain!Link[k] = x /\ x # Null
      /\ \A k \in 0 .. c : Chain!Link[k] # Null => \A j \in 0 .. k : Chain!Link[j] # Null
  BY <1>0, <1>1, <1>2, Shared!ChainWalked DEF Chain!Sized
<1>4. ASSUME \A k \in Chain!Depth : Chain!do_check(Chain!Link[k], o) PROVE \A h \in rcAppended : Chain!do_check(h, o)
  <2> HIDE DEF Chain!Depth
  <2> QED
  BY <1>d, <1>3, <1>4
<1>5. ASSUME \A k \in Chain!Depth : Chain!do_check(Chain!Link[k], o), "notional" \in rcAppended
      PROVE  Chain!Runs("notional", o)
  <2>1. PICK k \in 0 .. c : Chain!Link[k] = "notional" /\ Chain!Link[k] # Null
    BY <1>3, <1>5
  <2>2. k \in Chain!Depth /\ k \in Nat
    BY <1>d, <1>1, <2>1
  <2>3. \A j \in 0 .. k - 1 : j \in Chain!Depth
    BY <1>d, <1>1, <1>3, <2>1
  <2> QED
    BY <1>5, <2>1, <2>2, <2>3 DEF Chain!Runs
<1> QED
  BY <1>4, <1>5

(* Every step keeps ChainLinked and ChainInv.                            *)
LEMMA ChainInductive ==
  ASSUME Chain!Sized, ChainInv, [Chain!Next]_Chain!vars
  PROVE  ChainInv'
<1> USE DEF ChainInv
<1>1. ASSUME NEW h \in Chain!Handlers, Chain!append(h) PROVE ChainInv'
  <2>0. PICK s : /\ Shared!Chained(Chain!Handlers, Null, rcHead, rcNext, s) /\ Shared!Members(s) = rcAppended
                 /\ s # <<>> => rcTail = s[Len(s)]
    BY DEF ChainLinked
  <2>1. /\ h \notin rcSpent /\ rcTail' = h /\ rcAppended' = rcAppended \cup {h} /\ rcSpent' = rcSpent \cup {h}
        /\ UNCHANGED <<rcUsed, rcAllowed, rcBooked, rcVerdict>> /\ h \notin Shared!Members(s) /\ rcNext[h] = Null
    BY <1>1, <2>0 DEF Chain!append, Chain!Types
  <2>2. Chain!ChainGuards'
    BY <2>1 DEF Chain!ChainGuards, Chain!do_check, Chain!delta
  <2>3. CASE s = <<>>
    <3>1. rcHead = Null /\ rcHead' = h /\ rcNext' = rcNext /\ Shared!Members(s) = {}
      BY <1>1, <2>0, <2>3 DEF Chain!append, Shared!Chained, Shared!Members
    <3>2. Shared!SameBut(Chain!Handlers, h, rcNext, rcNext)
      BY DEF Shared!SameBut
    <3>3. /\ Shared!Chained(Chain!Handlers, Null, h, rcNext', <<h>>) /\ Shared!Members(<<h>>) = rcAppended'
          /\ <<h>>[Len(<<h>>)] = rcTail'
      <4>1. PICK t : t = <<h>>
        OBVIOUS
      <4>2. t \in Seq(Chain!Handlers) /\ Len(t) = 1 /\ t[1] = h /\ t # <<>>
        BY <4>1
      <4>3. Shared!Members(t) = {h} /\ Shared!Chained(Chain!Handlers, Null, h, rcNext', t)
        BY <4>2, <3>1, <2>1 DEF Shared!Members, Shared!Chained
      <4> QED
        BY <4>1, <4>2, <4>3, <3>1, <2>0, <2>1
    <3> QED
      BY <2>1, <2>2, <3>1, <3>3 DEF ChainLinked, Chain!Types
  <2>4. CASE s # <<>>
    <3>1. s \in Seq(Chain!Handlers) /\ Len(s) \in Nat /\ Len(s) > 0 /\ rcTail = s[Len(s)]
      BY <2>0, <2>4 DEF Shared!Chained
    <3>2. rcTail \in Shared!Members(s) /\ rcTail \in Chain!Handlers /\ rcHead # Null
      BY <2>0, <2>4, <3>1 DEF Shared!Members, Shared!Chained, Chain!Sized
    <3>3. rcNext' = [rcNext EXCEPT ![rcTail] = h] /\ rcHead' = rcHead /\ rcTail # h
      BY <1>1, <2>1, <3>2 DEF Chain!append
    <3>4. rcNext'[rcTail] = h /\ rcNext'[h] = Null /\ Shared!SameBut(Chain!Handlers, rcTail, rcNext, rcNext')
      BY <2>1, <3>2, <3>3 DEF Chain!Types, Shared!SameBut
    <3>5. \E t : /\ Shared!Chained(Chain!Handlers, Null, rcHead, rcNext', t) /\ Shared!Members(t) = Shared!Members(s) \cup {h}
                 /\ t # <<>> /\ t[Len(t)] = h
      BY <2>0, <2>1, <2>4, <3>1, <3>4, Shared!ChainAppended DEF Chain!Sized
    <3>6. ChainLinked'
      BY <2>0, <2>1, <3>3, <3>5 DEF ChainLinked
    <3>7. Chain!Types'
      BY <2>0, <2>1, <3>2, <3>3 DEF Chain!Types
    <3> QED
      BY <2>2, <3>6, <3>7
  <2> QED
    BY <2>3, <2>4
<1>2. ASSUME NEW o \in Chain!Orders, Chain!validate(o) PROVE ChainInv'
  <2> DEFINE ok == \A k \in Chain!Depth : Chain!do_check(Chain!Link[k], o)
             n == IF Chain!delta(o) > 0 THEN Chain!delta(o) ELSE 0
  <2>1. /\ rcVerdict' = [order |-> o, ok |-> ok, under |-> rcAppended]
        /\ rcUsed' = IF Chain!Runs("notional", o) /\ Chain!do_check("notional", o) THEN rcUsed + n ELSE rcUsed
        /\ rcBooked' = IF ok /\ "notional" \in rcAppended THEN rcBooked + n ELSE rcBooked
        /\ UNCHANGED <<Chain!chain, rcAllowed>>
    BY <1>2 DEF Chain!validate
  <2>2. /\ ok => \A h \in rcAppended : Chain!do_check(h, o)
        /\ ok /\ "notional" \in rcAppended => Chain!Runs("notional", o) /\ Chain!do_check("notional", o)
    BY ChainRun
  <2>3. Chain!delta(o) \in Int
    <3>1. o.price \in Int /\ o.qty \in Int
      BY DEF Chain!Orders, Chain!Sized
    <3> QED
      BY <3>1 DEF Chain!delta
  <2>4. n \in Nat /\ (Chain!do_check("notional", o) => rcUsed + n <= ChainNotional)
    BY <2>3 DEF Chain!do_check, Chain!ChainGuards, Chain!Types, Chain!Sized
  <2> HIDE DEF n, ok
  <2>5. rcBooked' <= rcUsed' /\ rcUsed' <= ChainNotional /\ rcUsed' \in Nat /\ rcBooked' \in Nat
    <3>1. CASE ok /\ "notional" \in rcAppended
      BY <2>1, <2>2, <2>4, <3>1 DEF Chain!ChainGuards, Chain!Types, Chain!Sized
    <3>2. CASE ~(ok /\ "notional" \in rcAppended)
      BY <2>1, <2>4, <3>2 DEF Chain!ChainGuards, Chain!Types, Chain!Sized
    <3> QED
      BY <3>1, <3>2
  <2>6. ASSUME rcVerdict'.ok, NEW h \in rcVerdict'.under \ {"notional"} PROVE Chain!do_check(h, rcVerdict.order)'
    <3>1. ok /\ h \in rcAppended /\ h # "notional" /\ rcVerdict'.order = o
      BY <2>1, <2>6
    <3>2. Chain!do_check(h, o) /\ h \in Chain!Handlers
      BY <3>1, <2>2 DEF Chain!Types
    <3> QED
      BY <3>1, <3>2, <2>1 DEF Chain!do_check, Chain!Handlers
  <2>7. ChainLinked'
    BY <2>1 DEF ChainLinked, Chain!chain
  <2>8. Chain!Types'
    BY <2>1, <2>5 DEF Chain!Types, Chain!chain
  <2> QED
    BY <2>5, <2>6, <2>7, <2>8 DEF Chain!ChainGuards
<1>3. ASSUME NEW s \in Symbols, Chain!allow_symbol(s) PROVE ChainInv'
  <2>1. ChainLinked' /\ Chain!Types'
    BY <1>3 DEF Chain!allow_symbol, ChainLinked, Chain!chain, Chain!Types
  <2>2. ASSUME rcVerdict.ok, NEW h \in rcVerdict.under \ {"notional"} PROVE Chain!do_check(h, rcVerdict.order)'
    <3>1. Chain!do_check(h, rcVerdict.order) /\ h \in Chain!Handlers /\ h # "notional"
      BY <2>2 DEF Chain!ChainGuards, Chain!Types
    <3> QED
      BY <1>3, <3>1 DEF Chain!allow_symbol, Chain!do_check, Chain!Handlers
  <2> QED
    BY <1>3, <2>1, <2>2 DEF Chain!ChainGuards, Chain!allow_symbol
<1>4. CASE Chain!reset
  <2>1. ChainLinked' /\ Chain!Types'
    BY <1>4 DEF Chain!reset, ChainLinked, Chain!chain, Chain!Types
  <2>2. ASSUME rcVerdict.ok, NEW h \in rcVerdict.under \ {"notional"} PROVE Chain!do_check(h, rcVerdict.order)'
    <3>1. Chain!do_check(h, rcVerdict.order) /\ h \in Chain!Handlers /\ h # "notional"
      BY <2>2 DEF Chain!ChainGuards, Chain!Types
    <3> QED
      BY <1>4, <3>1 DEF Chain!reset, Chain!do_check, Chain!Handlers
  <2> QED
    BY <1>4, <2>1, <2>2 DEF Chain!ChainGuards, Chain!reset, Chain!Sized
<1>5. CASE Chain!clear
  <2>1. Shared!Chained(Chain!Handlers, Null, Null, rcNext', <<>>) /\ Shared!Members(<<>>) = {}
    BY DEF Shared!Chained, Shared!Members
  <2>2. ChainLinked'
    BY <1>5, <2>1 DEF Chain!clear, ChainLinked
  <2>3. Chain!Types'
    BY <1>5 DEF Chain!clear, Chain!Types
  <2>4. Chain!ChainGuards'
    BY <1>5 DEF Chain!clear, Chain!ChainGuards, Chain!do_check, Chain!delta
  <2> QED
    BY <2>2, <2>3, <2>4
<1>6. CASE UNCHANGED Chain!vars
  BY <1>6 DEF Chain!vars, Chain!Types, ChainLinked, Chain!ChainGuards, Chain!do_check, Chain!delta
<1> QED
  BY <1>1, <1>2, <1>3, <1>4, <1>5, <1>6 DEF Chain!Next

(* An empty chain.                                                         *)
LEMMA ChainInitHolds ==
  ASSUME Chain!Sized, Chain!Init
  PROVE  ChainInv
<1>1. Shared!Chained(Chain!Handlers, Null, Null, rcNext, <<>>) /\ Shared!Members(<<>>) = {}
  BY DEF Shared!Chained, Shared!Members
<1> QED
  BY <1>1 DEF Chain!Sized, Chain!Init, ChainInv, Chain!Types, ChainLinked, Chain!ChainGuards
=============================================================================
