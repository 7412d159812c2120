------------------------------ MODULE MCLocks ------------------------------
(***************************************************************************)
(* Model checking of the locks and of the objects that threads share       *)
(* behind a lock or atomic words, and of the reorder buffer of a feed.     *)
(* They share nothing with each other; active names the one a behaviour    *)
(* exercises.  The proofs that follow the properties are for every set of  *)
(* threads and every bound; those on McsLock hold whether or not           *)
(* compare_exchange_weak fails spuriously.                                 *)
(***************************************************************************)
EXTENDS McsLock, Naturals, FiniteSetTheorems, SequenceTheorems, TLAPS

CONSTANTS
  Readers, Writers,
  FewReaders,         \* of the run with lingering stores
  Parties, MaxRounds,
  Initial, MaxReleases,
  TwoThreads, OneThread,
  MaxWrites, ManyWrites,
  Symbols, MaxSymbolIds,
  Blocks,
  MaxSeq

VARIABLES
  active,
  rwReaders, rwWriter, rwPc, rwHidden,
  bCount, bGeneration, bRound, bPc, bArrived, bPassed,
  lState, lPc,
  sN, sPc, sReleased,
  qSeq, qValue, qWpc, qPc, qS1, qCopy, qSeqKnown, qValueKnown, qAtCall, qGot,
  ySymbolToId, yIdToSymbol, yLive, ySpace, yBuffer, yViews,
  pShared, pWeak, pDisposals, pBlock, pSp, pWp, pPc, pTmp, pCur,
  nNext, nBuffer, nOut, nSent, nFlying

rwVars == <<rwReaders, rwWriter, rwPc, rwHidden>>
bVars == <<bCount, bGeneration, bRound, bPc, bArrived, bPassed>>
lVars == <<lState, lPc>>
sVars == <<sN, sPc, sReleased>>
qVars == <<qSeq, qValue, qWpc, qPc, qS1, qCopy, qSeqKnown, qValueKnown,
          qAtCall, qGot>>
yVars == <<ySymbolToId, yIdToSymbol, yLive, ySpace, yBuffer, yViews>>
pVars == <<pShared, pWeak, pDisposals, pBlock, pSp, pWp, pPc, pTmp, pCur>>
nVars == <<nNext, nBuffer, nOut, nSent, nFlying>>

\* A component that is not active rests.
Others(c) ==
  /\ c # "mcs" => UNCHANGED vars
  /\ c # "rw" => UNCHANGED rwVars
  /\ c # "barrier" => UNCHANGED bVars
  /\ c # "spin" => UNCHANGED lVars
  /\ c # "semaphore" => UNCHANGED sVars
  /\ c # "seqlock" => UNCHANGED qVars
  /\ c # "symbols" => UNCHANGED yVars
  /\ c # "shared_ptr" => UNCHANGED pVars
  /\ c # "stream" => UNCHANGED nVars

\* The MCS lock on a machine whose weak CAS never fails spuriously.
Sure == INSTANCE McsLock WITH WeakCasFails <- FALSE

\* The reader-writer lock with and without store-load barriers.
Rw == INSTANCE RwSpinLock WITH StoresLinger <- FALSE, readers_ <- rwReaders,
        writer_ <- rwWriter, pc <- rwPc, hidden <- rwHidden
WeakRw == INSTANCE RwSpinLock WITH StoresLinger <- TRUE,
        Readers <- FewReaders, readers_ <- rwReaders, writer_ <- rwWriter,
        pc <- rwPc, hidden <- rwHidden

Barrier == INSTANCE SpinBarrier WITH Threads <- Parties, count_ <- bCount,
        generation_ <- bGeneration, round <- bRound, pc <- bPc,
        arrived <- bArrived, passed <- bPassed

Spinning == INSTANCE SpinLock WITH state_ <- lState, pc <- lPc

Sem == INSTANCE Semaphore WITH Threads <- Parties, n_ <- sN, pc <- sPc,
        released <- sReleased

\* The seqlock of some readers and some writes, whose stores are seen in order
\* or, as it is written, may be seen late.
Sq(readers, writes, ordered) == INSTANCE Seqlock WITH Readers <- readers,
        MaxWrites <- writes, Ordered <- ordered, seq_ <- qSeq,
        value_ <- qValue, wpc <- qWpc, pc <- qPc, s1 <- qS1, copy <- qCopy,
        seqKnown <- qSeqKnown, valueKnown <- qValueKnown, atCall <- qAtCall,
        got <- qGot

Table == INSTANCE SymbolTable WITH MaxIds <- MaxSymbolIds,
        symbol_to_id_ <- ySymbolToId, id_to_symbol_ <- yIdToSymbol,
        live_ <- yLive, space <- ySpace, buffer <- yBuffer, views <- yViews

Pointers == INSTANCE SharedPtr WITH Threads <- TwoThreads, shared_ <- pShared,
        weak_ <- pWeak, disposals <- pDisposals, block <- pBlock, sp <- pSp,
        wp <- pWp, pc <- pPc, tmp <- pTmp, cur <- pCur

Stream == INSTANCE SequencedStream WITH next_ <- nNext, buffer_ <- nBuffer,
        out <- nOut, sent <- nSent, flying <- nFlying

MCInit ==
  /\ active \in {"mcs", "sure", "rw", "weak_rw", "barrier", "spin",
               "semaphore", "seqlock", "weak_seqlock", "symbols",
               "shared_ptr", "stream"}
  /\ Init /\ Rw!Init /\ Barrier!Init /\ Spinning!Init /\ Sem!Init
  /\ IF active = "weak_seqlock" THEN Sq(OneThread, ManyWrites, FALSE)!Init
                                ELSE Sq(TwoThreads, MaxWrites, TRUE)!Init
  /\ Table!Init /\ Pointers!Init
  /\ Stream!Init

MCNext ==
  /\ UNCHANGED active
  /\ \/ active = "mcs" /\ Next /\ Others("mcs")
     \/ active = "sure" /\ Sure!Next /\ Others("mcs")
     \/ active = "rw" /\ Rw!Next /\ Others("rw")
     \/ active = "weak_rw" /\ WeakRw!Next /\ Others("rw")
     \/ active = "barrier" /\ Barrier!Next /\ Others("barrier")
     \/ active = "spin" /\ Spinning!Next /\ Others("spin")
     \/ active = "semaphore" /\ Sem!Next /\ Others("semaphore")
     \/ active = "seqlock" /\ Sq(TwoThreads, MaxWrites, TRUE)!Next /\ Others("seqlock")
     \/ active = "weak_seqlock" /\ Sq(OneThread, ManyWrites, FALSE)!Next /\ Others("seqlock")
     \/ active = "symbols" /\ Table!Next /\ Others("symbols")
     \/ active = "shared_ptr" /\ Pointers!Next /\ Others("shared_ptr")
     \/ active = "stream" /\ Stream!Next /\ Others("stream")

\* The fairness of each component, of the active one.
MCFairness ==
  /\ \A t \in Threads : /\ WF_vars(active = "mcs" /\ Step(t))
                        /\ WF_vars(active = "sure" /\ Sure!Step(t))
                        /\ WF_lVars(active = "spin" /\ Spinning!Step(t))
  /\ \A r \in Readers : WF_rwVars(active = "rw" /\ Rw!ReadStep(r))
  /\ \A w \in Writers : WF_rwVars(active = "rw" /\ Rw!WriteStep(w))
  /\ \A r \in FewReaders : /\ WF_rwVars(active = "weak_rw" /\ WeakRw!ReadStep(r))
                           /\ WF_rwVars(active = "weak_rw" /\ WeakRw!Settle(r))
  /\ \A w \in Writers : /\ WF_rwVars(active = "weak_rw" /\ WeakRw!WriteStep(w))
                        /\ WF_rwVars(active = "weak_rw" /\ WeakRw!Settle(w))
  /\ \A t \in Parties : /\ WF_bVars(active = "barrier" /\ Barrier!Step(t))
                        /\ WF_sVars(active = "semaphore" /\ Sem!Step(t))
  /\ \A n \in 1 .. MaxSeq : /\ WF_nVars(active = "stream" /\ Stream!SendAgain(n))
                            /\ SF_nVars(active = "stream" /\ Stream!on_message(n))

mcVars ==
  <<active, vars, rwVars, bVars, lVars, sVars, qVars, yVars, pVars, nVars>>

MCSpec == MCInit /\ [][MCNext]_mcVars /\ MCFairness

-----------------------------------------------------------------------------
(* RWSpinLock and SpinLock: a writer is alone where a read-modify-write is *)
(* a full barrier, writers exclude each other also where stores linger,    *)
(* the readers do not wrap below zero, and lock() and try_lock() let one   *)
(* thread in at a time.                                                    *)
SpinLocksExclude ==
  /\ active = "rw" => Rw!WriterExclusive
  /\ Rw!TypeOK /\ Rw!WritersExclude
  /\ Spinning!MutualExclusion

(* SpinBarrier: nobody passes a round before everybody has arrived in it,  *)
(* no arrival is counted twice, and generation() counts the completed      *)
(* rounds.                                                                 *)
BarrierRendezvous ==
  Barrier!TypeOK /\ Barrier!NobodyPassesEarly /\ Barrier!GenerationCounts

(* Semaphore: no token lies unannounced beside a sleeping acquire(), and   *)
(* the tokens do not wrap below zero.                                      *)
SemaphoreTokensAnnounced == Sem!TypeOK /\ Sem!TokensAnnounced

(* McsLock: whoever calls lock() gets the lock, with either kind of CAS,   *)
(* and unlock() returns if its CAS fails for a reason only.                *)
McsProgress == LockAcquires /\ (active = "sure" => UnlockReturns)

(* The others: a writer with the flag gets in though readers keep coming   *)
(* and stores linger, somebody gets a contended SpinLock, the barrier      *)
(* completes every round, and nobody sleeps for ever beside a token.       *)
WaitersLetIn ==
  /\ Rw!WriterEnters
  /\ Spinning!SomebodyEnters
  /\ active = "barrier" => Barrier!AllRoundsComplete
  /\ Sem!SleepersServed

(* Seqlock::read returns no snapshot older than the last it returned, nor  *)
(* than the count it saw; where stores are seen in order, none older than  *)
(* its call and none that was not published.                               *)
SeqlockSnapshots ==
  [][/\ active = "seqlock" => Sq(TwoThreads, MaxWrites, TRUE)!SnapshotsCurrent
     /\ active = "weak_seqlock" => Sq(OneThread, ManyWrites, FALSE)!SnapshotsCurrent]_qVars

(* SymbolTable: whatever threads intern, erase and clear, the two tables   *)
(* agree, and an id is never reused: until the table is cleared it names   *)
(* the symbol it was given to, and once erased it stays unknown.           *)
SymbolIdsStable == []Table!TwoWay /\ [][Table!IdsKept]_yVars

(* SharedPtr: an object is destroyed once, when the last SharedPtr has     *)
(* gone, and its block deleted once, when the last WeakPtr has too, though *)
(* a WeakPtr is locked meanwhile.                                          *)
SharedOwnership == Pointers!TypeOK /\ Pointers!OwnershipShared

(* SequencedStream::on_message: the messages come out once each and in     *)
(* sequence, whatever the feed loses, repeats and reorders.                *)
StreamInSequence == Stream!InSequence

(* SequencedStream::on_message: what waits behind a gap is delivered when  *)
(* the feed repeats what was lost.                                         *)
ParkedDelivered == active = "stream" => Stream!ParkedDelivered

-----------------------------------------------------------------------------
(* McsLock *)

(* A step keeps the types: each program point stores only nodes, nullptr   *)
(* or flags.                                                               *)
LEMMA TypeStep == TypeOK /\ [Next]_vars => TypeOK'
<1> SUFFICES ASSUME TypeOK, [Next]_vars PROVE TypeOK'
  OBVIOUS
<1>1. CASE UNCHANGED vars
  BY <1>1 DEF vars, TypeOK
<1>2. ASSUME NEW t \in Threads, Arm(t) \/ Step(t) PROVE TypeOK'
  <2>1. pc' \in [Threads -> Locations]
    BY <1>2 DEF Arm, Step, Exchange, Link, Spin, CheckNext, CasEmpties,
       CasFails, AwaitNext, HandOff, Goto, TypeOK, Locations
  <2>2. ahead' \in [Threads -> SUBSET Threads]
    BY <1>2 DEF Arm, Step, Exchange, Link, Spin, CheckNext, CasEmpties,
       CasFails, AwaitNext, HandOff, Depart, Queued, TypeOK
  <2>3. locked_' \in [Threads -> BOOLEAN]
    BY <1>2 DEF Arm, Step, Exchange, Link, Spin, CheckNext, CasEmpties,
       CasFails, AwaitNext, HandOff, TypeOK
  <2>4. /\ tail_' \in Threads \cup {Null}
        /\ next_' \in [Threads -> Threads \cup {Null}]
        /\ prev' \in [Threads -> Threads \cup {Null}]
    BY <1>2 DEF Arm, Step, Exchange, Link, Spin, CheckNext, CasEmpties,
       CasFails, AwaitNext, HandOff, TypeOK
  <2> QED BY <2>1, <2>2, <2>3, <2>4 DEF TypeOK
<1> QED BY <1>1, <1>2 DEF Next

(* The exchange puts a thread last in line, behind the old tail.           *)
LEMMA ExchangeStep ==
  ASSUME IInv, NEW t \in Threads, Exchange(t), TypeOK'
  PROVE  IInv'
<1> USE DEF IInv
<1>1. Queued' = Queued \cup {t} /\ t \notin Queued
  BY DEF Exchange, Goto, TypeOK, Queued
<1>2. QueueOrder'
  BY <1>1 DEF Exchange, TypeOK, QueueOrder
<1>3. TailIsLast'
  BY <1>1, ThreadsAssumption DEF Exchange, TypeOK, TailIsLast
<1>4. tail_ # Null => next_[tail_] = Null /\ Queued = ahead[tail_] \cup {tail_}
  BY DEF TypeOK, TailIsLast, LinksNeighbours, QueueOrder, Queued
<1>5. LinksNeighbours'
  BY <1>1, <1>4 DEF Exchange, Goto, TypeOK, LinksNeighbours, NodeReady,
     TailIsLast, QueueOrder, Queued
<1>6. OwnerIsFirst'
  BY <1>1 DEF Exchange, Goto, TypeOK, OwnerIsFirst, TailIsLast, Holding
<1>7. NodeReady'
  BY DEF Exchange, Goto, TypeOK, NodeReady
<1> QED BY <1>2, <1>3, <1>5, <1>6, <1>7

(* Writing the predecessor's next_ links two neighbours.                   *)
LEMMA LinkStep ==
  ASSUME IInv, NEW t \in Threads, Link(t), TypeOK'
  PROVE  IInv'
<1> USE DEF IInv
<1>1. Queued' = Queued /\ Holding' = Holding /\ t \in Queued
  BY DEF Link, Goto, TypeOK, Queued, Holding
<1>2. QueueOrder' /\ TailIsLast'
  BY <1>1 DEF Link, QueueOrder, TailIsLast
<1>3. prev[t] \in Queued /\ prev[t] # t
  BY DEF Link, TypeOK, LinksNeighbours, QueueOrder
<1>4. \A u \in Threads : pc[u] = "link" /\ u # t => prev[u] # prev[t]
  BY DEF Link, TypeOK, LinksNeighbours, QueueOrder, Queued
<1>5. LinksNeighbours'
  BY <1>1, <1>3, <1>4 DEF Link, Goto, TypeOK, LinksNeighbours, Queued
<1>6. OwnerIsFirst'
  BY <1>1 DEF Link, Goto, TypeOK, OwnerIsFirst, NodeReady
<1>7. NodeReady'
  BY <1>3, ThreadsAssumption DEF Link, Goto, TypeOK, NodeReady, Queued
<1> QED BY <1>2, <1>5, <1>6, <1>7

(* The other steps of a queued thread only move its program counter.       *)
LEMMA LocalStep ==
  ASSUME IInv, NEW t \in Threads, TypeOK',
         Spin(t) \/ CheckNext(t) \/ CasFails(t) \/ AwaitNext(t)
  PROVE  IInv'
<1> USE DEF IInv
<1> USE DEF Spin, CheckNext, CasFails, AwaitNext
<1>1. Queued' = Queued /\ t \in Queued
  BY DEF Goto, TypeOK, Queued
<1>2. QueueOrder' /\ TailIsLast'
  BY <1>1 DEF QueueOrder, TailIsLast
<1>3. \A u \in Queued : next_[u] = t => pc[t] = "spin" /\ u \in ahead[t]
  BY ThreadsAssumption DEF LinksNeighbours, Queued, TypeOK
<1>4. LinksNeighbours'
  <2>1. pc[t] = "spin" => ahead[t] = {}
    BY DEF OwnerIsFirst
  <2> QED BY <1>1, <1>3, <2>1 DEF Goto, TypeOK, LinksNeighbours, Queued
<1>5. OwnerIsFirst'
  BY DEF Goto, TypeOK, OwnerIsFirst, Holding
<1>6. NodeReady'
  BY DEF Goto, TypeOK, NodeReady
<1> QED BY <1>2, <1>4, <1>5, <1>6

(* Arming a node touches no queued thread: the node is private.            *)
LEMMA ArmStep ==
  ASSUME IInv, NEW t \in Threads, Arm(t), TypeOK'
  PROVE  IInv'
<1> USE DEF IInv
<1>1. Queued' = Queued /\ Holding' = Holding /\ t \notin Queued
  BY DEF Arm, Goto, TypeOK, Queued, Holding
<1>2. QueueOrder' /\ TailIsLast'
  BY <1>1 DEF Arm, QueueOrder, TailIsLast
<1>3. LinksNeighbours'
  BY <1>1 DEF Arm, Goto, TypeOK, LinksNeighbours, Queued
<1>4. OwnerIsFirst'
  BY <1>1 DEF Arm, Goto, TypeOK, OwnerIsFirst
<1>5. NodeReady'
  BY DEF Arm, Goto, TypeOK, NodeReady
<1> QED BY <1>2, <1>3, <1>4, <1>5

(* A CAS that empties the queue finds its thread alone in it.              *)
LEMMA CasEmptiesStep ==
  ASSUME IInv, NEW t \in Threads, CasEmpties(t), TypeOK'
  PROVE  IInv'
<1> USE DEF IInv
<1>1. Queued = {t}
  BY ThreadsAssumption DEF CasEmpties, TypeOK, TailIsLast, OwnerIsFirst, Holding
<1>2. Queued' = {}
  BY <1>1 DEF CasEmpties, Goto, TypeOK, Queued
<1>3. \A u \in Threads : pc'[u] \in {"idle", "exchange"}
  BY <1>2, Zenon DEF Queued
<1>4. QueueOrder' /\ TailIsLast'
  BY <1>1, <1>2 DEF CasEmpties, Depart, QueueOrder, TailIsLast, TypeOK
<1>5. LinksNeighbours' /\ OwnerIsFirst'
  BY <1>2, <1>3 DEF LinksNeighbours, OwnerIsFirst, Holding
<1>6. NodeReady'
  BY DEF CasEmpties, Goto, TypeOK, NodeReady
<1> QED BY <1>4, <1>5, <1>6

(* The hand-off makes the thread behind the owner the first in line.       *)
LEMMA HandOffStep ==
  ASSUME IInv, NEW t \in Threads, HandOff(t), TypeOK'
  PROVE  IInv'
<1> USE DEF IInv
<1> DEFINE u == next_[t]
<1>1. /\ t \in Queued /\ ahead[t] = {}
      /\ u \in Threads /\ pc[u] = "spin" /\ ahead[u] = {t} /\ u # t
  BY DEF HandOff, TypeOK, NodeReady, LinksNeighbours, OwnerIsFirst, Queued,
     Holding
<1>2. Queued' = Queued \ {t}
  BY DEF HandOff, Goto, TypeOK, Queued
<1>3. ahead' = [v \in Threads |-> ahead[v] \ {t}]
  BY DEF HandOff, Depart
<1>4. QueueOrder'
  BY <1>1, <1>2, <1>3 DEF QueueOrder, Queued
<1>5. TailIsLast'
  BY <1>1, <1>2, <1>3 DEF HandOff, TailIsLast, Queued, TypeOK
<1>6. LinksNeighbours'
  <2>1. \A v \in Threads : pc[v] = "link" => prev[v] # t
    BY <1>1, ThreadsAssumption DEF LinksNeighbours
  <2>2. \A v \in Threads : v # t => pc'[v] = pc[v]
    BY DEF HandOff, Goto, TypeOK
  <2>3. pc'[t] = "idle"
    BY DEF HandOff, Goto, TypeOK
  <2> QED BY <1>1, <1>2, <1>3, <2>1, <2>2, <2>3
      DEF HandOff, TypeOK, LinksNeighbours, Queued
<1>7. OwnerIsFirst'
  BY <1>1, <1>3 DEF HandOff, Goto, TypeOK, OwnerIsFirst, Holding
<1>8. NodeReady'
  BY <1>1 DEF HandOff, Goto, TypeOK, NodeReady
<1> QED BY <1>4, <1>5, <1>6, <1>7, <1>8

(* The invariant is inductive: it holds initially and every step of lock() *)
(* and unlock() keeps it.                                                  *)
THEOREM Invariance == Spec => []IInv
<1>1. Init => IInv
  BY DEF Init, IInv, TypeOK, Locations, QueueOrder, TailIsLast,
     LinksNeighbours, OwnerIsFirst, NodeReady, Queued, Holding
<1>2. IInv /\ [Next]_vars => IInv'
  <2> SUFFICES ASSUME IInv, [Next]_vars PROVE IInv'
    OBVIOUS
  <2>1. TypeOK'
    BY TypeStep DEF IInv
  <2>2. CASE UNCHANGED vars
    BY <2>2 DEF vars, IInv, TypeOK, QueueOrder, TailIsLast, LinksNeighbours,
       OwnerIsFirst, NodeReady, Queued, Holding
  <2>3. ASSUME NEW t \in Threads, Arm(t) \/ Step(t) PROVE IInv'
    BY <2>1, <2>3, ArmStep, ExchangeStep, LinkStep, LocalStep, CasEmptiesStep,
       HandOffStep DEF Step
  <2> QED BY <2>2, <2>3 DEF Next
<1> QED BY <1>1, <1>2, PTL DEF Spec

(* Every variable keeps its type.                                          *)
THEOREM TypeCorrect == Spec => []TypeOK
<1>1. IInv => TypeOK
  BY DEF IInv
<1> QED BY <1>1, Invariance, PTL

(* At most one thread is between the return of lock() and the last store   *)
(* of unlock(): two would both be first in line.                           *)
THEOREM Exclusion == Spec => []MutualExclusion
<1>1. IInv => MutualExclusion
  BY DEF IInv, MutualExclusion, QueueOrder, OwnerIsFirst, Holding, Queued
<1> QED BY <1>1, Invariance, PTL

(* After unlock() the Waiter may be reused or destroyed: neither tail_ nor *)
(* a link of a queued thread refers to it.                                 *)
THEOREM Reusable == Spec => []NodeReusable
<1>1. IInv => NodeReusable
  BY ThreadsAssumption DEF IInv, NodeReusable, TypeOK, TailIsLast,
     LinksNeighbours, Queued
<1> QED BY <1>1, Invariance, PTL

(* The queue lock implements the abstract FIFO lock: every step is a step  *)
(* of FifoLock or leaves the phases and the line alone.                    *)
THEOREM ImplementsFifo == Spec => FifoHandOff
<1>1. Init => Fifo!FInit
  <2>1. Init => \A t \in Threads : Phase(t) = "out"
    BY DEF Init, Phase, Queued, Holding
  <2> QED BY <2>1 DEF Init, Fifo!FInit
<1>2. IInv /\ [Next]_vars => [Fifo!FNext]_Fifo!fvars
  <2> SUFFICES ASSUME IInv, [Next]_vars PROVE [Fifo!FNext]_Fifo!fvars
    OBVIOUS
  <2>1. CASE UNCHANGED vars
    BY <2>1 DEF vars, Fifo!fvars, Phase, Queued, Holding
  <2>2. ASSUME NEW t \in Threads, Exchange(t), tail_ = Null
        PROVE  Fifo!JoinAndEnter(t)
    BY <2>2 DEF Exchange, Goto, IInv, TypeOK, TailIsLast, QueueOrder,
       Fifo!JoinAndEnter, Fifo!Line, Phase, Queued, Holding
  <2>3. ASSUME NEW t \in Threads, Exchange(t), tail_ # Null
        PROVE  Fifo!Join(t)
    BY <2>3 DEF Exchange, Goto, IInv, TypeOK, Fifo!Join, Fifo!Line, Phase,
       Queued, Holding
  <2>4. ASSUME NEW t \in Threads, Spin(t) PROVE Fifo!Enter(t)
    BY <2>4 DEF Spin, Goto, IInv, TypeOK, OwnerIsFirst, Fifo!Enter, Phase,
       Queued, Holding
  <2>5. ASSUME NEW t \in Threads, CasEmpties(t) \/ HandOff(t)
        PROVE  Fifo!Leave(t)
    BY <2>5 DEF CasEmpties, HandOff, Goto, Depart, IInv, TypeOK, Fifo!Leave,
       Phase, Queued, Holding
  <2>6. ASSUME NEW t \in Threads,
               \/ Arm(t) \/ Link(t) \/ CheckNext(t) \/ CasFails(t)
               \/ AwaitNext(t)
        PROVE  UNCHANGED Fifo!fvars
    BY <2>6 DEF Arm, Link, CheckNext, CasFails, AwaitNext, Goto, IInv, TypeOK,
       Fifo!fvars, Phase, Queued, Holding
  <2> QED BY <2>1, <2>2, <2>3, <2>4, <2>5, <2>6 DEF Next, Step, Fifo!FNext
<1> QED BY <1>1, <1>2, Invariance, PTL DEF Spec, FifoHandOff, Fifo!FSpec

-----------------------------------------------------------------------------
(* SpinLock *)

(* The steps of lock(), try_lock() and unlock() keep Spinning!IInv:        *)
(* exclusion alone is not inductive, since only a set flag turns an        *)
(* exchange away.                                                          *)
LEMMA SpinInductive == Spinning!IInv /\ [Spinning!Next]_Spinning!vars => Spinning!IInv'
<1> SUFFICES ASSUME Spinning!IInv, [Spinning!Next]_Spinning!vars PROVE Spinning!IInv'
  OBVIOUS
<1> USE DEF Spinning!IInv, Spinning!MutualExclusion
<1>1. ASSUME NEW t \in Threads, Spinning!Lock(t) PROVE Spinning!IInv'
  BY <1>1 DEF Spinning!Lock, Spinning!Goto
<1>2. ASSUME NEW t \in Threads, Spinning!Exchange(t) PROVE Spinning!IInv'
  <2>1. CASE lState
    BY <1>2, <2>1 DEF Spinning!Exchange, Spinning!Goto
  <2>2. CASE ~lState
    BY <1>2, <2>2 DEF Spinning!Exchange, Spinning!Goto
  <2> QED
    BY <2>1, <2>2
<1>3. ASSUME NEW t \in Threads, Spinning!Spin(t) PROVE Spinning!IInv'
  BY <1>3 DEF Spinning!Spin, Spinning!Goto
<1>4. ASSUME NEW t \in Threads, Spinning!TryLock(t) PROVE Spinning!IInv'
  BY <1>4 DEF Spinning!TryLock, Spinning!Goto
<1>5. ASSUME NEW t \in Threads, Spinning!Unlock(t) PROVE Spinning!IInv'
  BY <1>5 DEF Spinning!Unlock, Spinning!Goto
<1>6. CASE UNCHANGED Spinning!vars
  BY <1>6 DEF Spinning!vars
<1> QED
  BY <1>1, <1>2, <1>3, <1>4, <1>5, <1>6 DEF Spinning!Next, Spinning!Step

(* A new SpinLock is free.                                                 *)
LEMMA SpinInitHolds == Spinning!Init => Spinning!IInv
  BY DEF Spinning!Init, Spinning!IInv, Spinning!MutualExclusion

(* SpinLock: lock() and try_lock() let one thread in at a time, however    *)
(* many threads race for the flag.                                         *)
THEOREM SpinExclusion == Spinning!Spec => []Spinning!MutualExclusion
<1>1. Spinning!Init => Spinning!IInv
  BY SpinInitHolds
<1>2. Spinning!IInv => Spinning!MutualExclusion
  BY DEF Spinning!IInv
<1> QED
  BY <1>1, <1>2, SpinInductive, PTL DEF Spinning!Spec

-----------------------------------------------------------------------------
(* Semaphore *)

(* Sem's Cardinality is the one that the theorems on finite sets are       *)
(* about.                                                                  *)
LEMMA SemCardinality == ASSUME NEW S PROVE Sem!Cardinality(S) = Cardinality(S)
BY DEF Sem!Cardinality, Cardinality

(* Whoever joins or leaves a set of threads changes its size by one.       *)
LEMMA SemRecount ==
  ASSUME IsFiniteSet(Parties), NEW S \in SUBSET Parties, NEW t \in Parties
  PROVE  /\ Sem!Cardinality(S) \in Nat
         /\ t \notin S => Sem!Cardinality(S \cup {t}) = Sem!Cardinality(S) + 1
         /\ t \in S => Sem!Cardinality(S \ {t}) = Sem!Cardinality(S) - 1
<1>1. IsFiniteSet(S)
  BY FS_Subset
<1> QED
  BY <1>1, SemCardinality, FS_CardinalityType, FS_AddElement, FS_RemoveElement

(* Every step of acquire(), try_acquire() and release() keeps Sem!IInv: a  *)
(* token that is added has its announcer counted in, and a thread that is  *)
(* woken is counted in when the one that woke it is counted out.           *)
LEMMA SemInductive ==
  ASSUME IsFiniteSet(Parties), Initial \in Nat, MaxReleases \in Nat, Sem!IInv, [Sem!Next]_Sem!vars
  PROVE  Sem!IInv'
<1> DEFINE k == Sem!Cardinality(Sem!Coming)
<1>0. /\ Sem!Coming \in SUBSET Parties /\ Sem!Counts
      /\ \A t \in Parties : t \in Sem!Coming <=> sPc[t] \in {"test", "notify"}
      /\ Sem!At("wait") # {} => sN <= k
      /\ sN \in Nat
  BY DEF Sem!At, Sem!Coming, Sem!IInv, Sem!Counts, Sem!TokensAnnounced
<1>k. \A t \in Parties :
        /\ k \in Nat
        /\ t \notin Sem!Coming => Sem!Cardinality(Sem!Coming \cup {t}) = k + 1
        /\ t \in Sem!Coming => Sem!Cardinality(Sem!Coming \ {t}) = k - 1
  BY <1>0, SemRecount
<1>s. Sem!Counts' /\ (Sem!At("wait")' # {} => sN' <= k') => Sem!IInv'
  BY DEF Sem!IInv, Sem!TokensAnnounced, Sem!Coming
<1>1. ASSUME NEW t \in Parties, Sem!AcquireCall(t) PROVE Sem!IInv'
  <2>1. Sem!Coming' = Sem!Coming \cup {t} /\ t \notin Sem!Coming /\ Sem!At("wait")' = Sem!At("wait")
    BY <1>0, <1>1 DEF Sem!AcquireCall, Sem!Goto, Sem!At, Sem!Coming, Sem!Counts
  <2>2. Sem!Counts' /\ sN' = sN
    BY <1>0, <1>1 DEF Sem!AcquireCall, Sem!Goto, Sem!Counts
  <2> QED
    BY <1>0, <1>k, <1>s, <2>1, <2>2
<1>2. ASSUME NEW t \in Parties, Sem!AcquireTest(t) PROVE Sem!IInv'
  <2>1. Sem!Coming' = Sem!Coming \ {t} /\ t \in Sem!Coming
    BY <1>0, <1>2 DEF Sem!AcquireTest, Sem!Goto, Sem!At, Sem!Coming, Sem!Counts
  <2>2. Sem!Counts'
    BY <1>0, <1>2 DEF Sem!AcquireTest, Sem!Goto, Sem!Counts
  <2>3. \/ sN' = sN - 1 /\ Sem!At("wait")' = Sem!At("wait")
        \/ sN' = sN /\ sN = 0
    BY <1>0, <1>2 DEF Sem!AcquireTest, Sem!Goto, Sem!Counts, Sem!At
  <2>4. k' = k - 1 /\ k \in Nat /\ k' \in Nat
    BY <1>0, <1>k, <2>1, SemRecount
  <2> QED
    BY <1>0, <1>s, <2>2, <2>3, <2>4
<1>3. ASSUME NEW t \in Parties, Sem!SpuriousWake(t) PROVE Sem!IInv'
  <2>1. Sem!Coming' = Sem!Coming \cup {t} /\ t \notin Sem!Coming /\ Sem!At("wait") # {}
    BY <1>0, <1>3 DEF Sem!SpuriousWake, Sem!Goto, Sem!At, Sem!Coming, Sem!Counts
  <2>2. Sem!Counts' /\ sN' = sN
    BY <1>0, <1>3 DEF Sem!SpuriousWake, Sem!Goto, Sem!Counts
  <2> QED
    BY <1>0, <1>k, <1>s, <2>1, <2>2
<1>4. ASSUME NEW t \in Parties, Sem!TryAcquire(t) PROVE Sem!IInv'
  <2>1. Sem!Coming' = Sem!Coming /\ Sem!At("wait")' = Sem!At("wait") /\ Sem!Counts' /\ sN' = sN - 1
    BY <1>0, <1>4 DEF Sem!TryAcquire, Sem!At, Sem!Coming, Sem!Counts
  <2>2. k' = k /\ k \in Nat
    BY <1>k, <2>1
  <2> QED
    BY <1>0, <1>s, <2>1, <2>2
<1>5. ASSUME NEW t \in Parties, Sem!Release(t) PROVE Sem!IInv'
  <2>1. Sem!Coming' = Sem!Coming \cup {t} /\ t \notin Sem!Coming /\ Sem!At("wait")' = Sem!At("wait")
    BY <1>0, <1>5 DEF Sem!Release, Sem!Goto, Sem!At, Sem!Coming, Sem!Counts
  <2>2. Sem!Counts' /\ sN' = sN + 1
    BY <1>0, <1>5 DEF Sem!Release, Sem!Goto, Sem!Counts
  <2> QED
    BY <1>0, <1>k, <1>s, <2>1, <2>2
<1>6. ASSUME NEW t \in Parties, Sem!Notify(t) PROVE Sem!IInv'
  <2>1. Sem!Counts' /\ sN' = sN
    BY <1>0, <1>6 DEF Sem!Notify, Sem!Goto, Sem!Counts, Sem!At
  <2>2. CASE Sem!At("wait") = {}
    <3>1. Sem!At("wait")' = {}
      BY <1>0, <1>6, <2>2 DEF Sem!Notify, Sem!Goto, Sem!At, Sem!Counts
    <3> QED
      BY <1>s, <2>1, <3>1
  <2>3. ASSUME NEW w \in Sem!At("wait"), sPc' = [sPc EXCEPT ![t] = "idle", ![w] = "test"]
        PROVE  Sem!IInv'
    <3>1. /\ Sem!Coming' = (Sem!Coming \ {t}) \cup {w} /\ t \in Sem!Coming
          /\ w \in Parties /\ w \notin Sem!Coming \ {t}
      BY <1>0, <1>6, <2>3 DEF Sem!Notify, Sem!At, Sem!Coming, Sem!Counts
    <3>2. Sem!Cardinality(Sem!Coming \ {t}) = k - 1 /\ k \in Nat
      BY <1>k, <3>1
    <3>3. Sem!Cardinality((Sem!Coming \ {t}) \cup {w}) = (k - 1) + 1
      BY <1>0, <3>1, <3>2, SemRecount
    <3> QED
      BY <1>0, <1>s, <2>1, <2>3, <3>1, <3>2, <3>3
  <2> QED
    BY <1>6, <2>2, <2>3 DEF Sem!Notify
<1>7. CASE UNCHANGED Sem!vars
  BY <1>7 DEF Sem!vars, Sem!TokensAnnounced, Sem!At, Sem!IInv, Sem!Counts
<1> QED
  BY <1>1, <1>2, <1>3, <1>4, <1>5, <1>6, <1>7 DEF Sem!Next, Sem!Step

(* Nobody sleeps beside the tokens of a new semaphore.                     *)
LEMMA SemInitHolds == ASSUME Initial \in Nat, MaxReleases \in Nat, Sem!Init PROVE Sem!IInv
<1>1. Sem!At("wait") = {}
  BY DEF Sem!Init, Sem!At
<1> QED
  BY <1>1 DEF Sem!Init, Sem!IInv, Sem!Counts, Sem!TokensAnnounced

(* The count of tokens is never negative and never above what was given.   *)
LEMMA SemImplied == ASSUME Initial \in Nat, MaxReleases \in Nat, Sem!IInv PROVE Sem!TypeOK /\ Sem!TokensAnnounced
BY DEF Sem!IInv, Sem!Counts, Sem!TypeOK

-----------------------------------------------------------------------------
(* SequencedStream *)

(* The numbers up to n - 1, and then those from n to e - 1.                *)
LEMMA StreamExtended ==
  ASSUME NEW n \in Nat, NEW e \in Nat, 1 <= n, n < e
  PROVE  [i \in 1 .. n - 1 |-> i] \o [i \in 1 .. e - n |-> n + i - 1] = [i \in 1 .. e - 1 |-> i]
<1> DEFINE s == [i \in 1 .. n - 1 |-> i]
           t == [i \in 1 .. e - n |-> n + i - 1]
           u == [i \in 1 .. e - 1 |-> i]
<1>1. s \in Seq(Nat) /\ Len(s) = n - 1 /\ t \in Seq(Nat) /\ Len(t) = e - n
      /\ u \in Seq(Nat) /\ Len(u) = e - 1
  BY IsASeq
<1>2. s \o t \in Seq(Nat) /\ Len(s \o t) = e - 1
      /\ \A i \in 1 .. e - 1 : (s \o t)[i] = IF i <= n - 1 THEN s[i] ELSE t[i - (n - 1)]
  BY <1>1, ConcatProperties, Z3
<1>3. \A i \in 1 .. e - 1 : (s \o t)[i] = u[i]
  BY <1>2
<1> QED
  BY <1>1, <1>2, <1>3, SeqEqual

(* on_message() of the message that was expected: it and those parked      *)
(* right behind it come out, and what stays parked is behind a gap.        *)
LEMMA StreamReleaseKeeps ==
  ASSUME MaxSeq \in Nat, Stream!IInv, Stream!Release(nNext), UNCHANGED nSent, nFlying' \subseteq nFlying
  PROVE  Stream!IInv'
<1>0. /\ nNext \in 1 .. MaxSeq + 1 /\ nBuffer \subseteq Stream!SeqNums
      /\ nSent \in 0 .. MaxSeq /\ nFlying \subseteq Stream!SeqNums
      /\ nOut = [i \in 1 .. nNext - 1 |-> i]
      /\ \A n \in nBuffer : n > nNext
  BY DEF Stream!IInv, Stream!TypeOK, Stream!InSequence
<1>1. PICK e \in nNext + 1 .. MaxSeq + 1 :
        /\ e \notin nBuffer /\ nNext' = e
        /\ nOut' = nOut \o [i \in 1 .. e - nNext |-> nNext + i - 1]
        /\ nBuffer' = nBuffer \ (nNext + 1 .. e - 1)
  BY DEF Stream!Release
<1>2. nOut' = [i \in 1 .. e - 1 |-> i]
  BY <1>0, <1>1, StreamExtended
<1>3. nOut' \in Seq(Stream!SeqNums)
  <2>1. \A i \in 1 .. e - 1 : i \in Stream!SeqNums
    BY <1>0, <1>1 DEF Stream!SeqNums
  <2> QED
    BY <1>0, <1>1, <1>2, <2>1
<1>4. \A n \in nBuffer' : n > e
  BY <1>0, <1>1 DEF Stream!SeqNums
<1> QED
  BY <1>0, <1>1, <1>2, <1>3, <1>4 DEF Stream!IInv, Stream!TypeOK, Stream!InSequence

(* Every step of the feed and of on_message() keeps Stream!IInv.           *)
LEMMA StreamInductive ==
  ASSUME MaxSeq \in Nat, Stream!IInv, [Stream!Next]_Stream!vars
  PROVE  Stream!IInv'
<1>1. CASE Stream!Send
  BY <1>1 DEF Stream!Send, Stream!IInv, Stream!TypeOK, Stream!InSequence, Stream!SeqNums
<1>2. ASSUME NEW n \in Stream!SeqNums, Stream!Lose(n) PROVE Stream!IInv'
  BY <1>2 DEF Stream!Lose, Stream!IInv, Stream!TypeOK, Stream!InSequence
<1>3. ASSUME NEW n \in Stream!SeqNums, Stream!SendAgain(n) PROVE Stream!IInv'
  BY <1>3 DEF Stream!SendAgain, Stream!IInv, Stream!TypeOK, Stream!InSequence
<1>4. ASSUME NEW n \in Stream!SeqNums, Stream!on_message(n) PROVE Stream!IInv'
  <2>0. UNCHANGED nSent /\ nFlying' \subseteq nFlying
    BY <1>4 DEF Stream!on_message
  <2>1. CASE n < nNext /\ UNCHANGED <<nNext, nBuffer, nOut>>
    BY <2>0, <2>1 DEF Stream!IInv, Stream!TypeOK, Stream!InSequence
  <2>2. CASE Stream!Park(n)
    BY <2>0, <2>2 DEF Stream!Park, Stream!IInv, Stream!TypeOK, Stream!InSequence
  <2>3. CASE n = nNext /\ Stream!Release(n)
    BY <2>0, <2>3, StreamReleaseKeeps
  <2> QED
    BY <1>4, <2>1, <2>2, <2>3 DEF Stream!on_message
<1>5. CASE UNCHANGED Stream!vars
  BY <1>5 DEF Stream!vars, Stream!IInv, Stream!TypeOK, Stream!InSequence
<1> QED
  BY <1>1, <1>2, <1>3, <1>4, <1>5 DEF Stream!Next, Stream!FeedOver

(* Before the first message.                                               *)
LEMMA StreamInitHolds == ASSUME MaxSeq \in Nat PROVE Stream!Init => Stream!IInv
<1>1. ASSUME Stream!Init PROVE Stream!InSequence
  BY <1>1 DEF Stream!Init, Stream!InSequence
<1> QED
  BY <1>1 DEF Stream!Init, Stream!IInv, Stream!TypeOK

-----------------------------------------------------------------------------
(* SpinBarrier *)

(* Barrier's finite sets are those that the theorems on finite sets are    *)
(* about.                                                                  *)
LEMMA BarrierCardinality ==
  ASSUME NEW S
  PROVE  Barrier!Cardinality(S) = Cardinality(S) /\ (Barrier!IsFiniteSet(S) <=> IsFiniteSet(S))
BY DEF Barrier!Cardinality, Cardinality, Barrier!IsFiniteSet, IsFiniteSet

(* A thread that is out, or about to arrive, is missing from the round: so *)
(* the round is open and nobody resets or releases.                        *)
LEMMA BarrierMissing ==
  ASSUME Barrier!IInv, NEW t \in Parties, bPc[t] \in {"out", "arrive"}
  PROVE  /\ t \notin Barrier!Here
         /\ bArrived[t] = bGeneration /\ bPassed[t] = bGeneration
         /\ \A u \in Parties : bPc[u] \notin {"reset", "release"}
BY DEF Barrier!IInv, Barrier!Types, Barrier!GenerationCounts, Barrier!Stands, Barrier!LastArriver, Barrier!Here

(* wait() reads the generation.                                            *)
LEMMA BarrierLoadKeeps ==
  ASSUME Barrier!IInv, NEW t \in Parties, Barrier!LoadRound(t)
  PROVE  Barrier!IInv'
<1>0. bPc[t] = "out" /\ \A u \in Parties : bPc[u] \notin {"reset", "release"}
  BY BarrierMissing DEF Barrier!LoadRound
<1>1. Barrier!Types' /\ Barrier!GenerationCounts' /\ Barrier!Stands'
  BY DEF Barrier!LoadRound, Barrier!Goto, Barrier!IInv, Barrier!Types, Barrier!GenerationCounts, Barrier!Stands
<1>2. Barrier!Here' = Barrier!Here /\ Barrier!Here # Parties
  BY <1>0, BarrierMissing DEF Barrier!LoadRound, Barrier!Here
<1>3. \A u \in Parties : bPc'[u] \notin {"reset", "release"}
  BY <1>0 DEF Barrier!LoadRound, Barrier!Goto, Barrier!IInv, Barrier!Types
<1>4. bCount' = Barrier!Cardinality(Barrier!Here')
  BY <1>0, <1>2 DEF Barrier!LoadRound, Barrier!IInv, Barrier!LastArriver
<1> QED
  BY <1>1, <1>2, <1>3, <1>4 DEF Barrier!IInv, Barrier!LastArriver

(* fetch_add: the count is that of the arrivals, so it reaches n_ with the *)
(* last one and with no other.                                             *)
LEMMA BarrierArriveKeeps ==
  ASSUME Barrier!IsFiniteSet(Parties), Barrier!IInv, NEW t \in Parties, Barrier!Arrive(t)
  PROVE  Barrier!IInv'
<1>0. /\ bPc[t] = "arrive" /\ t \notin Barrier!Here /\ bArrived[t] = bGeneration
      /\ \A u \in Parties : bPc[u] \notin {"reset", "release"}
  BY BarrierMissing DEF Barrier!Arrive
<1>1. Barrier!Types' /\ Barrier!GenerationCounts' /\ Barrier!Stands'
  BY <1>0, BarrierMissing DEF Barrier!Arrive, Barrier!Goto, Barrier!IInv, Barrier!Types, Barrier!GenerationCounts, Barrier!Stands
<1>2. Barrier!Here' = Barrier!Here \cup {t} /\ Barrier!Here \in SUBSET Parties
  BY <1>0 DEF Barrier!Arrive, Barrier!Here, Barrier!IInv, Barrier!Types
<1>3. Barrier!IsFiniteSet(Barrier!Here) /\ Barrier!IsFiniteSet(Barrier!Here')
  BY <1>2, BarrierCardinality, FS_Subset, FS_AddElement
<1>4. bCount' = Barrier!Cardinality(Barrier!Here')
  BY <1>0, <1>2, <1>3, BarrierCardinality, FS_AddElement DEF Barrier!Arrive, Barrier!IInv, Barrier!LastArriver
<1>5. bCount' = Barrier!n_ <=> Barrier!Here' = Parties
  BY <1>2, <1>3, <1>4, BarrierCardinality, FS_Subset DEF Barrier!n_
<1>6. bPc' = [bPc EXCEPT ![t] = IF bCount' = Barrier!n_ THEN "reset" ELSE "spin"]
  BY DEF Barrier!Arrive, Barrier!Goto
<1>7. CASE Barrier!Here' = Parties
  <2>1. bPc'[t] = "reset" /\ \A u \in Parties \ {t} : bPc'[u] \notin {"reset", "release"}
    BY <1>0, <1>5, <1>6, <1>7 DEF Barrier!IInv, Barrier!Types
  <2> QED
    BY <1>1, <1>4, <1>7, <2>1 DEF Barrier!IInv, Barrier!LastArriver
<1>8. CASE Barrier!Here' # Parties
  <2>1. \A u \in Parties : bPc'[u] \notin {"reset", "release"}
    BY <1>0, <1>5, <1>6, <1>8 DEF Barrier!IInv, Barrier!Types
  <2> QED
    BY <1>1, <1>4, <1>8, <2>1 DEF Barrier!IInv, Barrier!LastArriver
<1> QED
  BY <1>7, <1>8

(* The last arriver empties the count before anybody can come back.        *)
LEMMA BarrierResetKeeps ==
  ASSUME Barrier!IInv, NEW t \in Parties, Barrier!Reset(t)
  PROVE  Barrier!IInv'
<1>1. Barrier!Types' /\ Barrier!GenerationCounts' /\ Barrier!Stands'
  BY DEF Barrier!Reset, Barrier!Goto, Barrier!IInv, Barrier!Types, Barrier!GenerationCounts, Barrier!Stands
<1>2. Barrier!Here' = Barrier!Here /\ Barrier!Here = Parties
  BY DEF Barrier!Reset, Barrier!Here, Barrier!IInv, Barrier!LastArriver
<1>3. bPc'[t] = "release" /\ \A u \in Parties \ {t} : bPc'[u] \notin {"reset", "release"}
  BY DEF Barrier!Reset, Barrier!Goto, Barrier!IInv, Barrier!Types, Barrier!LastArriver
<1> QED
  BY <1>1, <1>2, <1>3 DEF Barrier!IInv, Barrier!LastArriver, Barrier!Reset

(* It opens the next round, in which nobody has arrived yet.               *)
LEMMA BarrierReleaseKeeps ==
  ASSUME Barrier!IInv, NEW t \in Parties, Barrier!Release(t)
  PROVE  Barrier!IInv'
<1>0. /\ bGeneration \in Nat /\ bCount = 0
      /\ \A u \in Parties : bArrived[u] = bGeneration + 1
      /\ bRound[t] = bGeneration /\ bPassed[t] = bGeneration
  BY DEF Barrier!Release, Barrier!Here, Barrier!IInv, Barrier!Types, Barrier!GenerationCounts, Barrier!Stands, Barrier!LastArriver
<1>1. Barrier!Types' /\ Barrier!GenerationCounts'
  BY <1>0 DEF Barrier!Release, Barrier!Goto, Barrier!IInv, Barrier!Types, Barrier!GenerationCounts
<1>2. Barrier!Stands'
  <2>1. \A u \in Parties : bPc[u] # "arrive"
    BY BarrierMissing DEF Barrier!Release
  <2> QED
    BY <1>0, <2>1 DEF Barrier!Release, Barrier!Goto, Barrier!IInv, Barrier!Types, Barrier!Stands
<1>3. Barrier!Here' = {}
  BY <1>0 DEF Barrier!Release, Barrier!Here
<1>4. \A u \in Parties : bPc'[u] \notin {"reset", "release"}
  BY DEF Barrier!Release, Barrier!Goto, Barrier!IInv, Barrier!Types, Barrier!LastArriver
<1>5. bCount' = 0
  BY <1>0 DEF Barrier!Release
<1> QED
  BY <1>1, <1>2, <1>3, <1>4, <1>5, BarrierCardinality, FS_EmptySet DEF Barrier!IInv, Barrier!LastArriver

(* A waiter leaves a round that is over.                                   *)
LEMMA BarrierSpinKeeps ==
  ASSUME Barrier!IInv, NEW t \in Parties, Barrier!Spin(t)
  PROVE  Barrier!IInv'
<1>0. bArrived[t] = bGeneration /\ bPassed[t] + 1 = bGeneration
  BY DEF Barrier!Spin, Barrier!IInv, Barrier!Types, Barrier!GenerationCounts, Barrier!Stands
<1>1. Barrier!Types' /\ Barrier!GenerationCounts' /\ Barrier!Stands'
  BY <1>0 DEF Barrier!Spin, Barrier!Goto, Barrier!IInv, Barrier!Types, Barrier!GenerationCounts, Barrier!Stands
<1>2. Barrier!Here' = Barrier!Here
  BY DEF Barrier!Spin, Barrier!Here
<1>3. \A u \in Parties : /\ bPc'[u] = "reset" <=> bPc[u] = "reset"
                         /\ bPc'[u] = "release" <=> bPc[u] = "release"
  BY DEF Barrier!Spin, Barrier!Goto, Barrier!IInv, Barrier!Types
<1> QED
  BY <1>1, <1>2, <1>3 DEF Barrier!IInv, Barrier!LastArriver, Barrier!Spin

(* Every step of wait() keeps Barrier!IInv, and so does a barrier at rest. *)
LEMMA BarrierInductive ==
  ASSUME Barrier!IsFiniteSet(Parties), Barrier!IInv, [Barrier!Next]_Barrier!vars
  PROVE  Barrier!IInv'
<1>1. CASE UNCHANGED Barrier!vars
  <2>1. Barrier!Here' = Barrier!Here
    BY <1>1 DEF Barrier!vars, Barrier!Here
  <2> QED
    BY <1>1, <2>1 DEF Barrier!vars, Barrier!IInv, Barrier!Types, Barrier!GenerationCounts, Barrier!Stands, Barrier!LastArriver
<1> QED
  BY <1>1, BarrierLoadKeeps, BarrierArriveKeeps, BarrierResetKeeps, BarrierReleaseKeeps, BarrierSpinKeeps DEF Barrier!Next, Barrier!Step, Barrier!Finished

(* The bound is kept: a thread goes into a round only below it.            *)
LEMMA BarrierBoundKept ==
  ASSUME MaxRounds \in Nat, Barrier!IInv, Barrier!Bounded, [Barrier!Next]_Barrier!vars
  PROVE  Barrier!Bounded'
<1> USE DEF Barrier!IInv, Barrier!Types, Barrier!Bounded, Barrier!Goto
<1>1. ASSUME NEW t \in Parties, Barrier!LoadRound(t) \/ Barrier!Arrive(t) \/ Barrier!Reset(t) \/ Barrier!Spin(t) PROVE Barrier!Bounded'
  BY <1>1 DEF Barrier!LoadRound, Barrier!Arrive, Barrier!Reset, Barrier!Spin
<1>2. ASSUME NEW t \in Parties, Barrier!Release(t) PROVE Barrier!Bounded'
  <2>1. bRound[t] = bGeneration
    BY <1>2 DEF Barrier!Release, Barrier!GenerationCounts, Barrier!Stands, Barrier!LastArriver, Barrier!Here
  <2> QED
    BY <1>2, <2>1 DEF Barrier!Release
<1>3. CASE UNCHANGED Barrier!vars
  BY <1>3 DEF Barrier!vars
<1> QED
  BY <1>1, <1>2, <1>3 DEF Barrier!Next, Barrier!Step, Barrier!Finished

(* A new barrier.                                                          *)
LEMMA BarrierInitHolds ==
  ASSUME MaxRounds \in Nat, Parties # {}, Barrier!Init
  PROVE  Barrier!IInv /\ Barrier!Bounded
<1>1. Barrier!Types /\ Barrier!GenerationCounts /\ Barrier!Stands /\ Barrier!Bounded
  BY DEF Barrier!Init, Barrier!Types, Barrier!GenerationCounts, Barrier!Stands, Barrier!Bounded
<1>2. Barrier!Here = {}
  BY DEF Barrier!Init, Barrier!Here
<1>3. \A t \in Parties : bPc[t] \notin {"reset", "release"}
  BY DEF Barrier!Init
<1> QED
  BY <1>1, <1>2, <1>3, BarrierCardinality, FS_EmptySet DEF Barrier!IInv, Barrier!LastArriver, Barrier!Init

(* What the invariant says of a caller: the rendezvous, and the types with *)
(* their bounds; the count is at most n_, since it counts arrivals.        *)
LEMMA BarrierImplied ==
  ASSUME MaxRounds \in Nat, Barrier!IsFiniteSet(Parties), Parties # {}, Barrier!IInv, Barrier!Bounded
  PROVE  Barrier!TypeOK /\ Barrier!NobodyPassesEarly /\ Barrier!GenerationCounts
<1>1. Barrier!NobodyPassesEarly /\ Barrier!GenerationCounts
  BY DEF Barrier!IInv, Barrier!Types, Barrier!GenerationCounts, Barrier!NobodyPassesEarly
<1>2. bCount \in 0 .. Barrier!n_
  <2>1. Barrier!IsFiniteSet(Barrier!Here) /\ Barrier!Cardinality(Barrier!Here) <= Barrier!Cardinality(Parties)
    BY BarrierCardinality, FS_Subset DEF Barrier!Here
  <2>2. Barrier!Cardinality(Barrier!Here) \in Nat /\ Barrier!Cardinality(Parties) \in Nat
    BY <2>1, BarrierCardinality, FS_CardinalityType
  <2> QED
    BY <2>1, <2>2 DEF Barrier!IInv, Barrier!LastArriver, Barrier!n_
<1>3. \A t \in Parties : bPassed[t] \in 0 .. MaxRounds /\ bArrived[t] \in 0 .. MaxRounds
  BY DEF Barrier!IInv, Barrier!Types, Barrier!Stands, Barrier!Bounded
<1>4. bGeneration \in 0 .. MaxRounds
  BY <1>3 DEF Barrier!IInv, Barrier!Types, Barrier!GenerationCounts
<1>5. \A t \in Parties : bRound[t] \in 0 .. MaxRounds
  BY <1>4 DEF Barrier!IInv, Barrier!Types, Barrier!Bounded
<1> QED
  BY <1>1, <1>2, <1>3, <1>4, <1>5 DEF Barrier!IInv, Barrier!Types, Barrier!TypeOK

-----------------------------------------------------------------------------
(* SymbolTable *)

(* One flag is cleared, the others stay.                                   *)
LEMMA TableUpdated ==
  ASSUME NEW S, NEW f \in Seq(S), NEW k \in 1 .. Len(f), NEW e \in S,
         NEW g, g = [f EXCEPT ![k] = e]
  PROVE  /\ g \in Seq(S) /\ Len(g) = Len(f)
         /\ g[k] = e /\ \A j \in 1 .. Len(f) : j # k => g[j] = f[j]
BY ExceptSeq

(* A sequence of flags of which one is cleared is still one, of the same   *)
(* length.                                                                 *)
LEMMA TableCleared ==
  ASSUME NEW f \in Seq(BOOLEAN), NEW k \in 1 .. Len(f), NEW g, g = [f EXCEPT ![k] = FALSE]
  PROVE  /\ g \in Seq(BOOLEAN) /\ Len(g) = Len(f)
         /\ \A j \in 1 .. Len(f) : g[j] <=> (f[j] /\ j # k)
<1> DEFINE e == FALSE
           B == BOOLEAN
<1>1. e \in B /\ f \in Seq(B) /\ g = [f EXCEPT ![k] = e]
  OBVIOUS
<1>2. e = FALSE /\ B = BOOLEAN
  OBVIOUS
<1> HIDE DEF e, B
<1>3. /\ g \in Seq(B) /\ Len(g) = Len(f)
      /\ g[k] = e /\ \A j \in 1 .. Len(f) : j # k => g[j] = f[j]
  BY ONLY <1>1, TableUpdated, k \in 1 .. Len(f), SMT
<1>4. ASSUME NEW j \in 1 .. Len(f) PROVE g[j] <=> (f[j] /\ j # k)
  <2>1. CASE j = k
    BY <2>1, <1>2, <1>3, Zenon
  <2>2. CASE j # k
    BY <2>2, <1>3, Zenon
  <2> QED
    BY <2>1, <2>2
<1> QED
  BY <1>2, <1>3, <1>4, Zenon

(* One flag is appended.                                                   *)
LEMMA TableAppended ==
  ASSUME NEW f \in Seq(BOOLEAN), NEW e \in BOOLEAN
  PROVE  /\ Append(f, e)[Len(f) + 1] = e
         /\ \A j \in 1 .. Len(f) : Append(f, e)[j] = f[j]
<1>1. \A S : \A seq \in Seq(S) : \A x \in S :
        /\ Append(seq, x)[Len(seq) + 1] = x
        /\ \A i \in 1 .. Len(seq) : Append(seq, x)[i] = seq[i]
  BY AppendProperties
<1> QED
  BY <1>1, Zenon

(* intern() of a new symbol: its id is one that no symbol has, dead ones   *)
(* included.                                                               *)
LEMMA TableInternKeeps ==
  ASSUME MaxSymbolIds \in Nat, Table!IInv, NEW s \in Symbols, Table!intern(s)
  PROVE  Table!IInv'
<1> DEFINE n == Len(yIdToSymbol)
<1>1. n \in Nat /\ n < MaxSymbolIds
  BY DEF Table!IInv, Table!TypeOK, Table!intern
<1>2. /\ Len(yIdToSymbol') = n + 1 /\ Len(yLive') = n + 1
      /\ yIdToSymbol' \in Seq(Symbols) /\ yLive' \in Seq(BOOLEAN)
  BY DEF Table!IInv, Table!TypeOK, Table!intern
<1>3. /\ yIdToSymbol'[n + 1] = s /\ yLive'[n + 1] = TRUE
      /\ \A j \in 1 .. n : yIdToSymbol'[j] = yIdToSymbol[j] /\ yLive'[j] = yLive[j]
  <2>1. yIdToSymbol'[n + 1] = s /\ \A j \in 1 .. n : yIdToSymbol'[j] = yIdToSymbol[j]
    BY AppendProperties DEF Table!IInv, Table!TypeOK, Table!intern
  <2>2. /\ Append(yLive, TRUE)[Len(yLive) + 1] = TRUE
        /\ \A j \in 1 .. Len(yLive) : Append(yLive, TRUE)[j] = yLive[j]
    <3>1. yLive \in Seq(BOOLEAN) /\ TRUE \in BOOLEAN
      BY DEF Table!IInv, Table!TypeOK
    <3> QED
      BY <3>1, TableAppended, Zenon
  <2>3. yLive' = Append(yLive, TRUE) /\ Len(yLive) = n
    BY DEF Table!IInv, Table!intern
  <2> QED
    BY <2>1, <2>2, <2>3, Zenon
<1>4. /\ DOMAIN ySymbolToId' = DOMAIN ySymbolToId \cup {s}
      /\ ySymbolToId'[s] = n
      /\ \A x \in DOMAIN ySymbolToId : x # s /\ ySymbolToId'[x] = ySymbolToId[x]
  BY DEF Table!intern
<1>5. Table!TypeOK'
  BY <1>2, <1>4 DEF Table!IInv, Table!TypeOK, Table!intern, Table!EmplaceBack
<1>6. ySymbolToId' \in [DOMAIN ySymbolToId' -> Nat]
  BY <1>1 DEF Table!IInv, Table!intern
<1>7. \A x \in DOMAIN ySymbolToId' : ySymbolToId'[x] < MaxSymbolIds
  BY <1>1, <1>4 DEF Table!IInv
<1>8. Table!TwoWay'
  <2> SUFFICES ASSUME NEW x \in Symbols, NEW i \in 0 .. MaxSymbolIds - 1
               PROVE  i \in Table!find(x)' <=> (Table!Known(i) /\ yIdToSymbol[Table!Id(i)] = x)'
    BY DEF Table!TwoWay
  <2>1. i \in Table!find(x) <=> Table!Known(i) /\ yIdToSymbol[Table!Id(i)] = x
    BY DEF Table!IInv, Table!TwoWay
  <2>2. CASE i = n
    <3>1. i \notin Table!find(x)
      BY <2>1, <2>2, <1>1 DEF Table!Known
    <3> QED
      BY <2>2, <3>1, <1>1, <1>2, <1>3, <1>4 DEF Table!find, Table!Known, Table!Id
  <2>3. CASE i < n
    BY <2>1, <2>3, <1>1, <1>2, <1>3, <1>4 DEF Table!find, Table!Known, Table!Id
  <2>4. CASE i > n
    BY <2>1, <2>4, <1>1, <1>2, <1>3, <1>4 DEF Table!find, Table!Known, Table!Id
  <2> QED
    BY <2>2, <2>3, <2>4, <1>1
<1> QED
  BY <1>1, <1>2, <1>5, <1>6, <1>7, <1>8 DEF Table!IInv

(* Both erases: the id dies and its symbol is forgotten, no other.         *)
LEMMA TableUnregisterKeeps ==
  ASSUME MaxSymbolIds \in Nat, Table!IInv, NEW s \in Symbols, NEW i \in 0 .. MaxSymbolIds - 1,
         i \in Table!find(s), Table!Unregister(s, i)
  PROVE  Table!IInv'
<1>1. Table!Known(i) /\ yIdToSymbol[Table!Id(i)] = s
  BY DEF Table!IInv, Table!TwoWay
<1>2. yLive \in Seq(BOOLEAN) /\ i + 1 \in 1 .. Len(yLive)
  BY <1>1 DEF Table!Known, Table!IInv, Table!TypeOK
<1>3. /\ yLive' \in Seq(BOOLEAN) /\ Len(yLive') = Len(yLive)
      /\ \A j \in 1 .. Len(yLive) : yLive'[j] <=> (yLive[j] /\ j # i + 1)
  <2>1. yLive' = [yLive EXCEPT ![i + 1] = FALSE]
    BY DEF Table!Unregister, Table!Id
  <2> QED
    BY ONLY <1>2, <2>1, TableCleared, SMT
<1>4. /\ DOMAIN ySymbolToId' = DOMAIN ySymbolToId \ {s}
      /\ \A x \in DOMAIN ySymbolToId \ {s} : ySymbolToId'[x] = ySymbolToId[x]
      /\ ySymbolToId' \in [DOMAIN ySymbolToId' -> Nat]
  BY DEF Table!Unregister, Table!Restrict, Table!IInv
<1>5. Table!TwoWay'
  <2> SUFFICES ASSUME NEW x \in Symbols, NEW j \in 0 .. MaxSymbolIds - 1
               PROVE  j \in Table!find(x)' <=> (Table!Known(j) /\ yIdToSymbol[Table!Id(j)] = x)'
    BY DEF Table!TwoWay
  <2>1. j \in Table!find(x) <=> Table!Known(j) /\ yIdToSymbol[Table!Id(j)] = x
    BY DEF Table!IInv, Table!TwoWay
  <2>2. Table!Known(j)' <=> Table!Known(j) /\ j # i
    BY <1>1, <1>2, <1>3 DEF Table!Known, Table!Id, Table!Unregister, Table!IInv, Table!TypeOK
  <2>3. j \in Table!find(x)' <=> j \in Table!find(x) /\ x # s
    BY <1>4 DEF Table!find
  <2> QED
    BY <1>1, <2>1, <2>2, <2>3 DEF Table!Unregister, Table!find, Table!IInv, Table!TwoWay
<1> QED
  BY <1>3, <1>4, <1>5 DEF Table!IInv, Table!TypeOK, Table!Unregister

(* An empty table.                                                         *)
LEMMA TableInitHolds ==
  ASSUME MaxSymbolIds \in Nat, Table!Init
  PROVE  Table!IInv
BY DEF Table!Init, Table!Nothing, Table!IInv, Table!TypeOK, Table!TwoWay, Table!find, Table!Known

(* intern() appends: the ids given out before keep their symbols.          *)
LEMMA TableInternKeepsIds ==
  ASSUME MaxSymbolIds \in Nat, Table!IInv, NEW s \in Symbols, Table!intern(s)
  PROVE  Table!IdsKept
<1> SUFFICES ASSUME NEW i \in 0 .. MaxSymbolIds - 1, i < Len(yIdToSymbol)
             PROVE  /\ i < Len(yIdToSymbol') /\ yIdToSymbol'[i + 1] = yIdToSymbol[i + 1]
                    /\ Table!Known(i)' => Table!Known(i)
  BY DEF Table!IdsKept, Table!Id
<1>1. Len(yIdToSymbol') = Len(yIdToSymbol) + 1 /\ yIdToSymbol'[i + 1] = yIdToSymbol[i + 1]
  BY AppendProperties DEF Table!IInv, Table!TypeOK, Table!intern
<1>2. yLive \in Seq(BOOLEAN) /\ TRUE \in BOOLEAN /\ i + 1 \in 1 .. Len(yLive)
  BY DEF Table!IInv, Table!TypeOK
<1>3. yLive'[i + 1] = yLive[i + 1]
  <2>1. yLive' = Append(yLive, TRUE)
    BY DEF Table!intern
  <2>2. Append(yLive, TRUE)[i + 1] = yLive[i + 1]
    BY <1>2, TableAppended, Zenon
  <2> QED
    BY <2>1, <2>2, Zenon
<1>4. Table!Known(i)' => Table!Known(i)
  BY <1>3, Zenon DEF Table!Known, Table!Id
<1> QED
  BY <1>1, <1>4 DEF Table!IInv, Table!TypeOK

(* An erase marks an id, and no other call but clear() changes one.        *)
LEMMA TableUnregisterKeepsIds ==
  ASSUME MaxSymbolIds \in Nat, Table!IInv, NEW s \in Symbols, NEW i \in 0 .. MaxSymbolIds - 1,
         i \in Table!find(s), Table!Unregister(s, i)
  PROVE  Table!IdsKept
<1>1. Table!Known(i)
  BY DEF Table!IInv, Table!TwoWay
<1>2. yLive \in Seq(BOOLEAN) /\ i + 1 \in 1 .. Len(yLive) /\ Len(yLive) = Len(yIdToSymbol)
  BY <1>1 DEF Table!Known, Table!IInv, Table!TypeOK
<1>3. \A j \in 1 .. Len(yLive) : yLive'[j] <=> (yLive[j] /\ j # i + 1)
  <2>1. yLive' = [yLive EXCEPT ![i + 1] = FALSE]
    BY DEF Table!Unregister, Table!Id
  <2> QED
    BY ONLY <1>2, <2>1, TableCleared, SMT
<1>4. UNCHANGED yIdToSymbol
  BY DEF Table!Unregister
<1>5. ASSUME NEW j \in 0 .. MaxSymbolIds - 1, j < Len(yIdToSymbol) PROVE Table!Known(j)' => Table!Known(j)
  <2>1. j + 1 \in 1 .. Len(yLive)
    BY <1>2, <1>5
  <2> QED
    BY <2>1, <1>3, <1>4, <1>5, Zenon DEF Table!Known, Table!Id
<1> QED
  BY <1>4, <1>5 DEF Table!IdsKept

(* Whichever call comes next, the tables stay inverse to each other, and   *)
(* no id is given to another symbol.                                       *)
LEMMA TableInductive ==
  ASSUME MaxSymbolIds \in Nat, Table!IInv, [Table!Next]_Table!vars
  PROVE  Table!IInv' /\ Table!IdsKept
<1>1. ASSUME NEW s \in Symbols, Table!erase_symbol(s) PROVE Table!IInv' /\ Table!IdsKept
  <2>1. PICK i \in Table!find(s) : Table!Unregister(s, i)
    BY <1>1 DEF Table!erase_symbol
  <2>2. i \in 0 .. MaxSymbolIds - 1
    BY <2>1 DEF Table!find, Table!IInv
  <2> QED
    BY <2>1, <2>2, TableUnregisterKeeps, TableUnregisterKeepsIds
<1>2. ASSUME NEW i \in 0 .. MaxSymbolIds - 1, Table!erase_id(i) PROVE Table!IInv' /\ Table!IdsKept
  <2>1. yIdToSymbol[Table!Id(i)] \in Symbols
    BY <1>2 DEF Table!erase_id, Table!Known, Table!Id, Table!IInv, Table!TypeOK
  <2>2. i \in Table!find(yIdToSymbol[Table!Id(i)])
    BY <1>2, <2>1 DEF Table!erase_id, Table!IInv, Table!TwoWay
  <2> QED
    BY <1>2, <2>1, <2>2, TableUnregisterKeeps, TableUnregisterKeepsIds DEF Table!erase_id
<1>3. ASSUME NEW i \in 0 .. MaxSymbolIds - 1, Table!lookup(i) PROVE Table!IInv' /\ Table!IdsKept
  BY <1>3 DEF Table!lookup, Table!IInv, Table!TypeOK, Table!TwoWay, Table!find, Table!Known, Table!IdsKept
<1>4. CASE Table!clear
  BY <1>4 DEF Table!clear, Table!Nothing, Table!IInv, Table!TypeOK, Table!TwoWay, Table!find, Table!Known,
              Table!IdsKept
<1>5. CASE UNCHANGED Table!vars
  BY <1>5 DEF Table!vars, Table!IInv, Table!TypeOK, Table!TwoWay, Table!find, Table!Known, Table!IdsKept
<1> QED
  BY <1>1, <1>2, <1>3, <1>4, <1>5, TableInternKeeps, TableInternKeepsIds DEF Table!Next

-----------------------------------------------------------------------------
(* SharedPtr *)

(* The finite sets of Pointers are those that the theorems on finite sets  *)
(* are about.                                                              *)
LEMMA PointersCardinality ==
  ASSUME NEW S
  PROVE  Pointers!Cardinality(S) = Cardinality(S) /\ (Pointers!IsFiniteSet(S) <=> IsFiniteSet(S))
BY DEF Pointers!Cardinality, Cardinality, Pointers!IsFiniteSet, IsFiniteSet

(* Whoever joins or leaves a set of threads changes its size by one, or is *)
(* in it, or out of it, already.                                           *)
LEMMA PointersRecount ==
  ASSUME Pointers!IsFiniteSet(TwoThreads), NEW S \in SUBSET TwoThreads, NEW t \in TwoThreads
  PROVE  /\ Pointers!Cardinality(S) \in Nat
         /\ Pointers!Cardinality(S \cup {t}) = IF t \in S THEN Pointers!Cardinality(S) ELSE Pointers!Cardinality(S) + 1
         /\ Pointers!Cardinality(S \ {t}) = IF t \in S THEN Pointers!Cardinality(S) - 1 ELSE Pointers!Cardinality(S)
<1>1. Pointers!IsFiniteSet(S)
  BY PointersCardinality, FS_Subset
<1> QED
  BY <1>1, PointersCardinality, FS_CardinalityType, FS_AddElement, FS_RemoveElement

(* The handles on a block can be counted.                                  *)
LEMMA PointersSizes ==
  ASSUME Pointers!IsFiniteSet(TwoThreads)
  PROVE  \A b \in Blocks : /\ Pointers!nOwners(b) \in Nat /\ Pointers!nWatchers(b) \in Nat
                          /\ Pointers!nReleasing(b) \in Nat /\ Pointers!nDisposing(b) \in Nat
                          /\ Pointers!nForgetting(b) \in Nat
<1>1. ASSUME NEW S \in SUBSET TwoThreads PROVE Pointers!Cardinality(S) \in Nat
  BY <1>1, PointersCardinality, FS_Subset, FS_CardinalityType
<1> QED
  BY <1>1 DEF Pointers!Holders, Pointers!Dropping, Pointers!nOwners, Pointers!nWatchers, Pointers!nReleasing, Pointers!nDisposing, Pointers!nForgetting

(* How the SharedPtrs on each block are counted when one thread changes    *)
(* its own.                                                                *)
LEMMA PointersOwnersChange ==
  ASSUME Pointers!IsFiniteSet(TwoThreads), Pointers!Types, NEW t \in TwoThreads,
         \A s \in TwoThreads \ {t} : pSp'[s] = pSp[s]
  PROVE  \A b \in Blocks : Pointers!nOwners(b)' = Pointers!nOwners(b) - Pointers!One(pSp[t] = b) + Pointers!One(pSp'[t] = b)
<1> SUFFICES ASSUME NEW b \in Blocks
             PROVE  Pointers!nOwners(b)' = Pointers!nOwners(b) - Pointers!One(pSp[t] = b) + Pointers!One(pSp'[t] = b)
  OBVIOUS
<1> DEFINE S == Pointers!Holders(pSp, b)
<1>1. S \in SUBSET TwoThreads /\ (t \in S <=> pSp[t] = b)
  BY DEF Pointers!Holders
<1>2. S' = IF pSp'[t] = b THEN S \cup {t} ELSE S \ {t}
  BY DEF Pointers!Holders, Pointers!Types, Pointers!TypeOK
<1>3. /\ Pointers!Cardinality(S) \in Nat
      /\ Pointers!Cardinality(S \cup {t}) = IF t \in S THEN Pointers!Cardinality(S) ELSE Pointers!Cardinality(S) + 1
      /\ Pointers!Cardinality(S \ {t}) = IF t \in S THEN Pointers!Cardinality(S) - 1 ELSE Pointers!Cardinality(S)
  BY <1>1, PointersRecount
<1>4. Pointers!Cardinality(S') = Pointers!Cardinality(S) - Pointers!One(pSp[t] = b) + Pointers!One(pSp'[t] = b)
  <2> HIDE DEF S
  <2>1. CASE pSp[t] = b
    BY <1>1, <1>2, <1>3, <2>1 DEF Pointers!One
  <2>2. CASE pSp[t] # b
    BY <1>1, <1>2, <1>3, <2>2 DEF Pointers!One
  <2> QED
    BY <2>1, <2>2
<1> QED
  BY <1>4 DEF Pointers!nOwners

(* The same of the WeakPtrs.                                               *)
LEMMA PointersWatchersChange ==
  ASSUME Pointers!IsFiniteSet(TwoThreads), Pointers!Types, NEW t \in TwoThreads,
         \A s \in TwoThreads \ {t} : pWp'[s] = pWp[s]
  PROVE  \A b \in Blocks : Pointers!nWatchers(b)' = Pointers!nWatchers(b) - Pointers!One(pWp[t] = b) + Pointers!One(pWp'[t] = b)
<1> SUFFICES ASSUME NEW b \in Blocks
             PROVE  Pointers!nWatchers(b)' = Pointers!nWatchers(b) - Pointers!One(pWp[t] = b) + Pointers!One(pWp'[t] = b)
  OBVIOUS
<1> DEFINE S == Pointers!Holders(pWp, b)
<1>1. S \in SUBSET TwoThreads /\ (t \in S <=> pWp[t] = b)
  BY DEF Pointers!Holders
<1>2. S' = IF pWp'[t] = b THEN S \cup {t} ELSE S \ {t}
  BY DEF Pointers!Holders, Pointers!Types, Pointers!TypeOK
<1>3. /\ Pointers!Cardinality(S) \in Nat
      /\ Pointers!Cardinality(S \cup {t}) = IF t \in S THEN Pointers!Cardinality(S) ELSE Pointers!Cardinality(S) + 1
      /\ Pointers!Cardinality(S \ {t}) = IF t \in S THEN Pointers!Cardinality(S) - 1 ELSE Pointers!Cardinality(S)
  BY <1>1, PointersRecount
<1>4. Pointers!Cardinality(S') = Pointers!Cardinality(S) - Pointers!One(pWp[t] = b) + Pointers!One(pWp'[t] = b)
  <2> HIDE DEF S
  <2>1. CASE pWp[t] = b
    BY <1>1, <1>2, <1>3, <2>1 DEF Pointers!One
  <2>2. CASE pWp[t] # b
    BY <1>1, <1>2, <1>3, <2>2 DEF Pointers!One
  <2> QED
    BY <2>1, <2>2
<1> QED
  BY <1>4 DEF Pointers!nWatchers

(* How they are counted when a move or a swap changes the SharedPtrs of    *)
(* two threads.                                                            *)
LEMMA PointersOwnersExchange ==
  ASSUME Pointers!IsFiniteSet(TwoThreads), Pointers!Types, NEW t \in TwoThreads, NEW u \in TwoThreads, t # u,
         \A s \in TwoThreads \ {t, u} : pSp'[s] = pSp[s]
  PROVE  \A b \in Blocks :
           Pointers!nOwners(b)' = Pointers!nOwners(b) - Pointers!One(pSp[t] = b) - Pointers!One(pSp[u] = b) + Pointers!One(pSp'[t] = b) + Pointers!One(pSp'[u] = b)
<1> SUFFICES ASSUME NEW b \in Blocks
             PROVE  Pointers!nOwners(b)' = Pointers!nOwners(b) - Pointers!One(pSp[t] = b) - Pointers!One(pSp[u] = b)
                                 + Pointers!One(pSp'[t] = b) + Pointers!One(pSp'[u] = b)
  OBVIOUS
<1> DEFINE S == Pointers!Holders(pSp, b)
           R == IF pSp'[t] = b THEN S \cup {t} ELSE S \ {t}
<1>1. /\ S \in SUBSET TwoThreads /\ (t \in S <=> pSp[t] = b) /\ (u \in S <=> pSp[u] = b)
      /\ R \in SUBSET TwoThreads /\ (u \in R <=> u \in S)
  BY DEF Pointers!Holders
<1>2. S' = IF pSp'[u] = b THEN R \cup {u} ELSE R \ {u}
  BY DEF Pointers!Holders, Pointers!Types, Pointers!TypeOK
<1>3. /\ Pointers!Cardinality(S) \in Nat
      /\ Pointers!Cardinality(S \cup {t}) = IF t \in S THEN Pointers!Cardinality(S) ELSE Pointers!Cardinality(S) + 1
      /\ Pointers!Cardinality(S \ {t}) = IF t \in S THEN Pointers!Cardinality(S) - 1 ELSE Pointers!Cardinality(S)
  BY <1>1, PointersRecount
<1>4. /\ Pointers!Cardinality(R) \in Nat
      /\ Pointers!Cardinality(R \cup {u}) = IF u \in R THEN Pointers!Cardinality(R) ELSE Pointers!Cardinality(R) + 1
      /\ Pointers!Cardinality(R \ {u}) = IF u \in R THEN Pointers!Cardinality(R) - 1 ELSE Pointers!Cardinality(R)
  <2> HIDE DEF R
  <2> QED
    BY <1>1, PointersRecount
<1>5. Pointers!Cardinality(R) = Pointers!Cardinality(S) - Pointers!One(pSp[t] = b) + Pointers!One(pSp'[t] = b)
  <2> HIDE DEF S
  <2>1. CASE pSp[t] = b
    BY <1>1, <1>3, <2>1 DEF Pointers!One
  <2>2. CASE pSp[t] # b
    BY <1>1, <1>3, <2>2 DEF Pointers!One
  <2> QED
    BY <2>1, <2>2
<1>6. Pointers!Cardinality(S') = Pointers!Cardinality(R) - Pointers!One(pSp[u] = b) + Pointers!One(pSp'[u] = b)
  <2> HIDE DEF S, R
  <2>1. CASE pSp[u] = b
    BY <1>1, <1>2, <1>4, <2>1 DEF Pointers!One
  <2>2. CASE pSp[u] # b
    BY <1>1, <1>2, <1>4, <2>2 DEF Pointers!One
  <2> QED
    BY <2>1, <2>2
<1> HIDE DEF S, R
<1> QED
  BY <1>3, <1>4, <1>5, <1>6 DEF Pointers!nOwners, Pointers!One, S

(* The same of the WeakPtrs.                                               *)
LEMMA PointersWatchersExchange ==
  ASSUME Pointers!IsFiniteSet(TwoThreads), Pointers!Types, NEW t \in TwoThreads, NEW u \in TwoThreads, t # u,
         \A s \in TwoThreads \ {t, u} : pWp'[s] = pWp[s]
  PROVE  \A b \in Blocks :
           Pointers!nWatchers(b)' = Pointers!nWatchers(b) - Pointers!One(pWp[t] = b) - Pointers!One(pWp[u] = b) + Pointers!One(pWp'[t] = b) + Pointers!One(pWp'[u] = b)
<1> SUFFICES ASSUME NEW b \in Blocks
             PROVE  Pointers!nWatchers(b)' = Pointers!nWatchers(b) - Pointers!One(pWp[t] = b) - Pointers!One(pWp[u] = b)
                                 + Pointers!One(pWp'[t] = b) + Pointers!One(pWp'[u] = b)
  OBVIOUS
<1> DEFINE S == Pointers!Holders(pWp, b)
           R == IF pWp'[t] = b THEN S \cup {t} ELSE S \ {t}
<1>1. /\ S \in SUBSET TwoThreads /\ (t \in S <=> pWp[t] = b) /\ (u \in S <=> pWp[u] = b)
      /\ R \in SUBSET TwoThreads /\ (u \in R <=> u \in S)
  BY DEF Pointers!Holders
<1>2. S' = IF pWp'[u] = b THEN R \cup {u} ELSE R \ {u}
  BY DEF Pointers!Holders, Pointers!Types, Pointers!TypeOK
<1>3. /\ Pointers!Cardinality(S) \in Nat
      /\ Pointers!Cardinality(S \cup {t}) = IF t \in S THEN Pointers!Cardinality(S) ELSE Pointers!Cardinality(S) + 1
      /\ Pointers!Cardinality(S \ {t}) = IF t \in S THEN Pointers!Cardinality(S) - 1 ELSE Pointers!Cardinality(S)
  BY <1>1, PointersRecount
<1>4. /\ Pointers!Cardinality(R) \in Nat
      /\ Pointers!Cardinality(R \cup {u}) = IF u \in R THEN Pointers!Cardinality(R) ELSE Pointers!Cardinality(R) + 1
      /\ Pointers!Cardinality(R \ {u}) = IF u \in R THEN Pointers!Cardinality(R) - 1 ELSE Pointers!Cardinality(R)
  <2> HIDE DEF R
  <2> QED
    BY <1>1, PointersRecount
<1>5. Pointers!Cardinality(R) = Pointers!Cardinality(S) - Pointers!One(pWp[t] = b) + Pointers!One(pWp'[t] = b)
  <2> HIDE DEF S
  <2>1. CASE pWp[t] = b
    BY <1>1, <1>3, <2>1 DEF Pointers!One
  <2>2. CASE pWp[t] # b
    BY <1>1, <1>3, <2>2 DEF Pointers!One
  <2> QED
    BY <2>1, <2>2
<1>6. Pointers!Cardinality(S') = Pointers!Cardinality(R) - Pointers!One(pWp[u] = b) + Pointers!One(pWp'[u] = b)
  <2> HIDE DEF S, R
  <2>1. CASE pWp[u] = b
    BY <1>1, <1>2, <1>4, <2>1 DEF Pointers!One
  <2>2. CASE pWp[u] # b
    BY <1>1, <1>2, <1>4, <2>2 DEF Pointers!One
  <2> QED
    BY <2>1, <2>2
<1> HIDE DEF S, R
<1> QED
  BY <1>3, <1>4, <1>5, <1>6 DEF Pointers!nWatchers, Pointers!One, S

(* A temporary with handle h begins to die: one more handle on its block   *)
(* is being destroyed, unless it is empty.                                 *)
LEMMA PointersDropped ==
  ASSUME Pointers!IsFiniteSet(TwoThreads), Pointers!Types, NEW t \in TwoThreads, NEW h \in Blocks \cup {Null},
         NEW at \in {"release", "releaseWeak"}, Null \notin Blocks,
         pPc[t] \notin Pointers!Destroying, Pointers!Drop(t, h, at)
  PROVE  /\ pPc' \in [TwoThreads -> {"idle", "upgrade", "release", "dispose", "releaseWeak"}]
         /\ pTmp' \in [TwoThreads -> Blocks \cup {Null}]
         /\ \A s \in TwoThreads : /\ pPc'[s] \in Pointers!Destroying => pTmp'[s] \in Blocks
                                  /\ pPc'[s] = "upgrade" => pPc[s] = "upgrade" /\ s # t
         /\ \A b \in Blocks :
              /\ Pointers!nReleasing(b)' = Pointers!nReleasing(b) + Pointers!One(at = "release" /\ h = b)
              /\ Pointers!nForgetting(b)' = Pointers!nForgetting(b) + Pointers!One(at = "releaseWeak" /\ h = b)
              /\ Pointers!nDisposing(b)' = Pointers!nDisposing(b)
<1>1. /\ pPc' \in [TwoThreads -> {"idle", "upgrade", "release", "dispose", "releaseWeak"}]
      /\ pTmp' \in [TwoThreads -> Blocks \cup {Null}]
      /\ \A s \in TwoThreads : /\ pPc'[s] \in Pointers!Destroying => pTmp'[s] \in Blocks
                               /\ pPc'[s] = "upgrade" => pPc[s] = "upgrade" /\ s # t
  BY DEF Pointers!Types, Pointers!TypeOK, Pointers!Drop, Pointers!Destroying
<1>2. ASSUME NEW b \in Blocks, NEW l \in Pointers!Destroying
      PROVE  Pointers!Cardinality(Pointers!Dropping(l, b)') = Pointers!Cardinality(Pointers!Dropping(l, b)) + Pointers!One(l = at /\ h = b)
  <2>1. Pointers!Dropping(l, b) \in SUBSET TwoThreads /\ t \notin Pointers!Dropping(l, b)
    BY <1>2 DEF Pointers!Dropping, Pointers!Types
  <2>2. CASE l = at /\ h = b
    <3>1. Pointers!Dropping(l, b)' = Pointers!Dropping(l, b) \cup {t}
      BY <1>2, <2>2 DEF Pointers!Dropping, Pointers!Drop, Pointers!Types, Pointers!TypeOK, Pointers!Destroying
    <3> QED
      BY <2>1, <2>2, <3>1, PointersRecount DEF Pointers!One
  <2>3. CASE ~(l = at /\ h = b)
    <3>1. Pointers!Dropping(l, b)' = Pointers!Dropping(l, b)
      BY <1>2, <2>1, <2>3 DEF Pointers!Dropping, Pointers!Drop, Pointers!Types, Pointers!TypeOK, Pointers!Destroying
    <3>2. Pointers!Cardinality(Pointers!Dropping(l, b)) \in Nat
      BY <2>1, PointersRecount
    <3> QED
      BY <2>3, <3>1, <3>2 DEF Pointers!One
  <2> QED
    BY <2>2, <2>3
<1>3. ASSUME NEW b \in Blocks
      PROVE  /\ Pointers!nReleasing(b)' = Pointers!nReleasing(b) + Pointers!One(at = "release" /\ h = b)
             /\ Pointers!nForgetting(b)' = Pointers!nForgetting(b) + Pointers!One(at = "releaseWeak" /\ h = b)
  BY <1>2 DEF Pointers!nReleasing, Pointers!nForgetting, Pointers!Destroying, Pointers!One
<1>4. ASSUME NEW b \in Blocks PROVE Pointers!nDisposing(b)' = Pointers!nDisposing(b)
  <2>1. Pointers!Cardinality(Pointers!Dropping("dispose", b)) \in Nat
    BY PointersSizes DEF Pointers!nDisposing
  <2> QED
    BY <1>2, <2>1 DEF Pointers!nDisposing, Pointers!Destroying, Pointers!One
<1> QED
  BY <1>1, <1>3, <1>4

(* The destruction of a handle goes on to its next step or ends.           *)
LEMMA PointersAdvanced ==
  ASSUME Pointers!IsFiniteSet(TwoThreads), Pointers!Types, NEW t \in TwoThreads, pPc[t] \in Pointers!Destroying,
         pPc'[t] # pPc[t], pPc'[t] \in Pointers!Destroying => pTmp'[t] = pTmp[t],
         \A s \in TwoThreads \ {t} : pPc'[s] = pPc[s] /\ pTmp'[s] = pTmp[s]
  PROVE  \A b \in Blocks, k \in Pointers!Destroying :
           Pointers!Cardinality(Pointers!Dropping(k, b)') = Pointers!Cardinality(Pointers!Dropping(k, b))
             - Pointers!One(k = pPc[t] /\ pTmp[t] = b) + Pointers!One(k = pPc'[t] /\ pTmp[t] = b)
<1> SUFFICES ASSUME NEW b \in Blocks, NEW k \in Pointers!Destroying
             PROVE  Pointers!Cardinality(Pointers!Dropping(k, b)') = Pointers!Cardinality(Pointers!Dropping(k, b))
                      - Pointers!One(k = pPc[t] /\ pTmp[t] = b) + Pointers!One(k = pPc'[t] /\ pTmp[t] = b)
  OBVIOUS
<1> DEFINE S == Pointers!Dropping(k, b)
<1>1. S \in SUBSET TwoThreads /\ (t \in S <=> k = pPc[t] /\ pTmp[t] = b)
  BY DEF Pointers!Dropping
<1>2. S' = IF k = pPc'[t] /\ pTmp[t] = b THEN S \cup {t} ELSE S \ {t}
  BY DEF Pointers!Dropping
<1>3. /\ Pointers!Cardinality(S) \in Nat
      /\ Pointers!Cardinality(S \cup {t}) = IF t \in S THEN Pointers!Cardinality(S) ELSE Pointers!Cardinality(S) + 1
      /\ Pointers!Cardinality(S \ {t}) = IF t \in S THEN Pointers!Cardinality(S) - 1 ELSE Pointers!Cardinality(S)
  BY <1>1, PointersRecount
<1> HIDE DEF S
<1>4. CASE k = pPc[t] /\ pTmp[t] = b
  BY <1>1, <1>2, <1>3, <1>4 DEF Pointers!One, S
<1>5. CASE ~(k = pPc[t] /\ pTmp[t] = b)
  BY <1>1, <1>2, <1>3, <1>5 DEF Pointers!One, S
<1> QED
  BY <1>4, <1>5

(* Whoever is there is counted.                                            *)
LEMMA PointersPositive ==
  ASSUME Pointers!IsFiniteSet(TwoThreads), NEW t \in TwoThreads, NEW b \in Blocks
  PROVE  /\ pSp[t] = b => Pointers!nOwners(b) > 0
         /\ pWp[t] = b => Pointers!nWatchers(b) > 0
         /\ pPc[t] = "release" /\ pTmp[t] = b => Pointers!nReleasing(b) > 0
         /\ pPc[t] = "dispose" /\ pTmp[t] = b => Pointers!nDisposing(b) > 0
         /\ pPc[t] = "releaseWeak" /\ pTmp[t] = b => Pointers!nForgetting(b) > 0
<1>1. ASSUME NEW S \in SUBSET TwoThreads, t \in S PROVE Pointers!Cardinality(S) > 0
  BY <1>1, PointersCardinality, FS_Subset, FS_CardinalityType, FS_EmptySet
<1> QED
  BY <1>1 DEF Pointers!Holders, Pointers!Dropping, Pointers!nOwners, Pointers!nWatchers, Pointers!nReleasing, Pointers!nDisposing, Pointers!nForgetting

(* reset() and a lock() that fails: a handle becomes one being destroyed.  *)
LEMMA PointersResetKeeps ==
  ASSUME Pointers!IsFiniteSet(TwoThreads), Null \notin Blocks, Pointers!IInv, NEW t \in TwoThreads,
         Pointers!Reset(t) \/ Pointers!LockFails(t)
  PROVE  Pointers!IInv'
<1> USE DEF Pointers!IInv
<1>0. /\ Pointers!Types /\ pSp[t] \in Blocks \cup {Null} /\ pPc[t] \notin Pointers!Destroying
      /\ pSp' = [pSp EXCEPT ![t] = Null] /\ Pointers!Drop(t, pSp[t], "release")
      /\ UNCHANGED <<pShared, pWeak, pDisposals, pBlock, pWp, pCur>>
  BY DEF Pointers!Reset, Pointers!LockFails, Pointers!Types, Pointers!TypeOK, Pointers!Destroying
<1>1. Pointers!Types'
  BY <1>0, PointersDropped DEF Pointers!Types, Pointers!TypeOK, Pointers!Destroying
<1>a. pSp'[t] = Null /\ \A s \in TwoThreads \ {t} : pSp'[s] = pSp[s]
  BY <1>0 DEF Pointers!Types, Pointers!TypeOK
<1>2. ASSUME NEW b \in Blocks PROVE Pointers!Counted(b)'
  <2>1. Pointers!nOwners(b)' = Pointers!nOwners(b) - Pointers!One(pSp[t] = b) + Pointers!One(pSp'[t] = b)
    BY <1>0, <1>a, PointersOwnersChange
  <2>2. /\ Pointers!nReleasing(b)' = Pointers!nReleasing(b) + Pointers!One(pSp[t] = b)
        /\ Pointers!nForgetting(b)' = Pointers!nForgetting(b) + 0 /\ Pointers!nDisposing(b)' = Pointers!nDisposing(b)
    BY <1>0, PointersDropped DEF Pointers!One
  <2>3. /\ UNCHANGED <<pShared[b], pWeak[b], pDisposals[b], pBlock[b]>>
        /\ Pointers!nWatchers(b)' = Pointers!nWatchers(b)
    BY <1>0 DEF Pointers!nWatchers, Pointers!Holders
  <2>4. Pointers!Counted(b)
    OBVIOUS
  <2>5. pSp'[t] # b
    BY <1>a
  <2> QED
    BY <2>1, <2>2, <2>3, <2>4, <2>5, PointersSizes DEF Pointers!Counted, Pointers!Common, Pointers!One
<1> QED
  BY <1>1, <1>2

(* A new block has the counts 1 and 1, for one SharedPtr and for the weak  *)
(* reference of all SharedPtrs; it was unused, so nobody has a handle on   *)
(* it.                                                                     *)
LEMMA PointersMakeKeeps ==
  ASSUME Pointers!IsFiniteSet(TwoThreads), Null \notin Blocks, Pointers!IInv, NEW t \in TwoThreads, Pointers!Make(t)
  PROVE  Pointers!IInv'
<1> USE DEF Pointers!IInv
<1> PICK b0 \in Blocks :
      /\ pPc[t] = "idle" /\ pBlock[b0] = "unused"
      /\ pBlock' = [pBlock EXCEPT ![b0] = "live"]
      /\ pShared' = [pShared EXCEPT ![b0] = 1]
      /\ pWeak' = [pWeak EXCEPT ![b0] = 1]
      /\ pSp' = [pSp EXCEPT ![t] = b0]
      /\ Pointers!Drop(t, pSp[t], "release")
      /\ UNCHANGED <<pDisposals, pWp, pCur>>
  BY DEF Pointers!Make
<1>0. Pointers!Types /\ pSp[t] \in Blocks \cup {Null} /\ pPc[t] \notin Pointers!Destroying
  BY DEF Pointers!Types, Pointers!TypeOK, Pointers!Destroying
<1>1. Pointers!Types'
  BY <1>0, PointersDropped DEF Pointers!Types, Pointers!TypeOK, Pointers!Destroying
<1>a. pSp'[t] = b0 /\ \A s \in TwoThreads \ {t} : pSp'[s] = pSp[s]
  BY <1>0 DEF Pointers!Types, Pointers!TypeOK
<1>2. ASSUME NEW b \in Blocks PROVE Pointers!Counted(b)'
  <2>0. Pointers!nOwners(b)' = Pointers!nOwners(b) - Pointers!One(pSp[t] = b) + Pointers!One(pSp'[t] = b)
    BY <1>0, <1>a, PointersOwnersChange
  <2>1. Pointers!nOwners(b)' = Pointers!nOwners(b) - Pointers!One(pSp[t] = b) + Pointers!One(b0 = b)
    BY <2>0, <1>a
  <2>2. /\ Pointers!nReleasing(b)' = Pointers!nReleasing(b) + Pointers!One(pSp[t] = b)
        /\ Pointers!nForgetting(b)' = Pointers!nForgetting(b) + 0 /\ Pointers!nDisposing(b)' = Pointers!nDisposing(b)
    BY <1>0, PointersDropped DEF Pointers!One
  <2>3. pDisposals[b]' = pDisposals[b] /\ Pointers!nWatchers(b)' = Pointers!nWatchers(b)
    BY DEF Pointers!nWatchers, Pointers!Holders
  <2>4. Pointers!Counted(b)
    OBVIOUS
  <2>5. CASE b = b0
    <3>1. pBlock[b]' = "live" /\ pShared[b]' = 1 /\ pWeak[b]' = 1
      BY <1>0, <2>5 DEF Pointers!Types, Pointers!TypeOK
    <3>2. pWeak[b] \in Nat /\ pShared[b] \in Nat /\ ~(pWeak[b] > 0)
      BY <2>4, <2>5 DEF Pointers!Types, Pointers!TypeOK, Pointers!Counted
    <3>a. Pointers!nWatchers(b) + Pointers!nForgetting(b) + Pointers!One(pShared[b] > 0) + Pointers!nDisposing(b) = 0
      BY <2>4, <3>2, PointersSizes DEF Pointers!Counted, Pointers!Common, Pointers!One
    <3>b. Pointers!nWatchers(b) = 0 /\ Pointers!nForgetting(b) = 0 /\ Pointers!nDisposing(b) = 0 /\ pShared[b] = 0
      <4>1. \A w, f, o, d \in Nat : w + f + o + d = 0 => w = 0 /\ f = 0 /\ o = 0 /\ d = 0
        OBVIOUS
      <4>2. Pointers!One(pShared[b] > 0) \in Nat /\ (Pointers!One(pShared[b] > 0) = 0 => ~(pShared[b] > 0))
        BY DEF Pointers!One
      <4>3. Pointers!nWatchers(b) \in Nat /\ Pointers!nForgetting(b) \in Nat /\ Pointers!nDisposing(b) \in Nat
        BY PointersSizes
      <4>4. Pointers!nWatchers(b) = 0 /\ Pointers!nForgetting(b) = 0 /\ Pointers!nDisposing(b) = 0 /\ Pointers!One(pShared[b] > 0) = 0
        BY <3>a, <4>1, <4>2, <4>3
      <4> QED
        BY <3>2, <4>2, <4>4
    <3>3. /\ Pointers!nOwners(b) = 0 /\ Pointers!nReleasing(b) = 0 /\ Pointers!nWatchers(b) = 0 /\ Pointers!nForgetting(b) = 0
          /\ Pointers!nDisposing(b) = 0
      BY <2>4, <3>b, PointersSizes DEF Pointers!Counted
    <3>4. pSp[t] # b
      BY <3>3, PointersPositive
    <3>5. pDisposals[b] = 0
      BY <2>4, <2>5 DEF Pointers!Counted, Pointers!One
    <3>6. Pointers!nOwners(b)' = 1 /\ Pointers!nReleasing(b)' = 0 /\ Pointers!nWatchers(b)' = 0 /\ Pointers!nForgetting(b)' = 0
          /\ Pointers!nDisposing(b)' = 0
      BY <2>1, <2>2, <2>3, <2>5, <3>3, <3>4 DEF Pointers!One
    <3> QED
      BY <2>3, <3>1, <3>5, <3>6 DEF Pointers!Counted, Pointers!Common, Pointers!One
  <2>6. CASE b # b0
    <3>1. UNCHANGED <<pShared[b], pWeak[b], pBlock[b]>>
      BY <1>0, <2>6 DEF Pointers!Types, Pointers!TypeOK
    <3> QED
      BY <2>1, <2>2, <2>3, <2>4, <2>6, <3>1, PointersSizes DEF Pointers!Counted, Pointers!Common, Pointers!One
  <2> QED
    BY <2>5, <2>6
<1> QED
  BY <1>1, <1>2

(* A copy adds its reference before the temporary drops the old one; the   *)
(* block it joins has an owner and so is alive.                            *)
LEMMA PointersCopyKeeps ==
  ASSUME Pointers!IsFiniteSet(TwoThreads), Null \notin Blocks, Pointers!IInv, NEW t \in TwoThreads, NEW u \in TwoThreads,
         Pointers!CopyAssign(t, u)
  PROVE  Pointers!IInv'
<1> USE DEF Pointers!IInv
<1>0. /\ Pointers!Types /\ pSp[t] \in Blocks \cup {Null} /\ pPc[t] \notin Pointers!Destroying
      /\ pSp' = [pSp EXCEPT ![t] = pSp[u]] /\ Pointers!Drop(t, pSp[t], "release")
      /\ UNCHANGED <<pWeak, pDisposals, pBlock, pWp, pCur>>
  BY DEF Pointers!CopyAssign, Pointers!Types, Pointers!TypeOK, Pointers!Destroying
<1>1. Pointers!Types'
  BY <1>0, PointersDropped DEF Pointers!CopyAssign, Pointers!Plus, Pointers!Types, Pointers!TypeOK, Pointers!Destroying
<1>a. pSp'[t] = pSp[u] /\ \A s \in TwoThreads \ {t} : pSp'[s] = pSp[s]
  BY <1>0 DEF Pointers!Types, Pointers!TypeOK
<1>2. ASSUME NEW b \in Blocks PROVE Pointers!Counted(b)'
  <2>0. Pointers!nOwners(b)' = Pointers!nOwners(b) - Pointers!One(pSp[t] = b) + Pointers!One(pSp'[t] = b)
    BY <1>0, <1>a, PointersOwnersChange
  <2>1. Pointers!nOwners(b)' = Pointers!nOwners(b) - Pointers!One(pSp[t] = b) + Pointers!One(pSp[u] = b)
    BY <2>0, <1>a
  <2>2. /\ Pointers!nReleasing(b)' = Pointers!nReleasing(b) + Pointers!One(pSp[t] = b)
        /\ Pointers!nForgetting(b)' = Pointers!nForgetting(b) + 0 /\ Pointers!nDisposing(b)' = Pointers!nDisposing(b)
    BY <1>0, PointersDropped DEF Pointers!One
  <2>3. /\ UNCHANGED <<pWeak[b], pDisposals[b], pBlock[b]>>
        /\ Pointers!nWatchers(b)' = Pointers!nWatchers(b)
    BY <1>0 DEF Pointers!nWatchers, Pointers!Holders
  <2>4. Pointers!Counted(b)
    OBVIOUS
  <2>5. pShared[b] \in Nat /\ pShared[b]' = pShared[b] + Pointers!One(pSp[u] = b)
    BY <1>0 DEF Pointers!Types, Pointers!TypeOK, Pointers!CopyAssign, Pointers!Plus, Pointers!One
  <2>6. pSp[u] = b => Pointers!nOwners(b) > 0
    BY PointersPositive
  <2> QED
    BY <2>1, <2>2, <2>3, <2>4, <2>5, <2>6, PointersSizes DEF Pointers!Counted, Pointers!Common, Pointers!One
<1> QED
  BY <1>1, <1>2

(* A move takes the handle over without counting.                          *)
LEMMA PointersMoveKeeps ==
  ASSUME Pointers!IsFiniteSet(TwoThreads), Null \notin Blocks, Pointers!IInv, NEW t \in TwoThreads, NEW u \in TwoThreads,
         Pointers!MoveAssign(t, u)
  PROVE  Pointers!IInv'
<1> USE DEF Pointers!IInv
<1>0. /\ Pointers!Types /\ pSp[t] \in Blocks \cup {Null} /\ pPc[t] \notin Pointers!Destroying
      /\ UNCHANGED <<pShared, pWeak, pDisposals, pBlock, pWp, pCur>>
  BY DEF Pointers!MoveAssign, Pointers!Types, Pointers!TypeOK, Pointers!Destroying
<1> DEFINE left == IF t = u THEN Null ELSE pSp[t]
<1>1. Pointers!Drop(t, left, "release") /\ left \in Blocks \cup {Null}
  BY <1>0 DEF Pointers!MoveAssign, Pointers!Types, Pointers!TypeOK
<1>2. pSp' \in [TwoThreads -> Blocks \cup {Null}]
  BY <1>0 DEF Pointers!MoveAssign, Pointers!Types, Pointers!TypeOK
<1>3. Pointers!Types'
  BY <1>0, <1>1, <1>2, PointersDropped DEF Pointers!Types, Pointers!TypeOK, Pointers!Destroying
<1>4. ASSUME NEW b \in Blocks PROVE Pointers!Counted(b)'
  <2>1. Pointers!nOwners(b)' = Pointers!nOwners(b) - Pointers!One(left = b)
    <3>1. CASE t = u
      <4>1. pSp' = pSp
        BY <1>0, <3>1 DEF Pointers!MoveAssign, Pointers!Types, Pointers!TypeOK
      <4> QED
        BY <3>1, <4>1, PointersSizes DEF Pointers!nOwners, Pointers!Holders, Pointers!One
    <3>2. CASE t # u
      <4>1. pSp' = [pSp EXCEPT ![t] = pSp[u], ![u] = Null]
        BY <1>0, <3>2 DEF Pointers!MoveAssign, Pointers!Types, Pointers!TypeOK
      <4>2. /\ pSp'[t] = pSp[u] /\ pSp'[u] = Null
            /\ \A s \in TwoThreads \ {t, u} : pSp'[s] = pSp[s]
        BY <1>0, <3>2, <4>1 DEF Pointers!Types, Pointers!TypeOK
      <4>3. Pointers!nOwners(b)' = Pointers!nOwners(b) - Pointers!One(pSp[t] = b) - Pointers!One(pSp[u] = b)
                                   + Pointers!One(pSp'[t] = b) + Pointers!One(pSp'[u] = b)
        BY <1>0, <3>2, <4>2, PointersOwnersExchange
      <4> QED
        BY <3>2, <4>2, <4>3, PointersSizes DEF Pointers!One
    <3> QED
      BY <3>1, <3>2
  <2>2. /\ Pointers!nReleasing(b)' = Pointers!nReleasing(b) + Pointers!One(left = b)
        /\ Pointers!nForgetting(b)' = Pointers!nForgetting(b) + 0 /\ Pointers!nDisposing(b)' = Pointers!nDisposing(b)
    <3> HIDE DEF left
    <3> QED
      BY <1>0, <1>1, PointersDropped DEF Pointers!One
  <2>3. /\ UNCHANGED <<pShared[b], pWeak[b], pDisposals[b], pBlock[b]>>
        /\ Pointers!nWatchers(b)' = Pointers!nWatchers(b)
    BY <1>0 DEF Pointers!nWatchers, Pointers!Holders
  <2>4. Pointers!Counted(b)
    OBVIOUS
  <2> HIDE DEF left
  <2> QED
    BY <2>1, <2>2, <2>3, <2>4, PointersSizes DEF Pointers!Counted, Pointers!Common, Pointers!One
<1> QED
  BY <1>3, <1>4

(* So does a swap.                                                         *)
LEMMA PointersSwapKeeps ==
  ASSUME Pointers!IsFiniteSet(TwoThreads), Null \notin Blocks, Pointers!IInv, NEW t \in TwoThreads, NEW u \in TwoThreads,
         Pointers!Swap(t, u)
  PROVE  Pointers!IInv'
<1> USE DEF Pointers!IInv
<1>0. Pointers!Types /\ UNCHANGED <<pShared, pWeak, pDisposals, pBlock, pWp, pPc, pTmp, pCur>>
  BY DEF Pointers!Swap
<1>1. Pointers!Types'
  BY <1>0 DEF Pointers!Swap, Pointers!Types, Pointers!TypeOK, Pointers!Destroying
<1>2. ASSUME NEW b \in Blocks PROVE Pointers!Counted(b)'
  <2>1. Pointers!nOwners(b)' = Pointers!nOwners(b)
    <3>1. CASE t = u
      <4>1. pSp' = pSp
        BY <1>0, <3>1 DEF Pointers!Swap, Pointers!Types, Pointers!TypeOK
      <4> QED
        BY <4>1 DEF Pointers!nOwners, Pointers!Holders
    <3>2. CASE t # u
      <4>1. pSp' = [pSp EXCEPT ![t] = pSp[u], ![u] = pSp[t]]
        BY DEF Pointers!Swap
      <4>2. /\ pSp'[t] = pSp[u] /\ pSp'[u] = pSp[t]
            /\ \A s \in TwoThreads \ {t, u} : pSp'[s] = pSp[s]
        BY <1>0, <3>2, <4>1 DEF Pointers!Types, Pointers!TypeOK
      <4>3. Pointers!nOwners(b)' = Pointers!nOwners(b) - Pointers!One(pSp[t] = b) - Pointers!One(pSp[u] = b)
                                   + Pointers!One(pSp'[t] = b) + Pointers!One(pSp'[u] = b)
        BY <1>0, <3>2, <4>2, PointersOwnersExchange
      <4> QED
        BY <4>2, <4>3, PointersSizes DEF Pointers!One
    <3> QED
      BY <3>1, <3>2
  <2>2. /\ UNCHANGED <<pShared[b], pWeak[b], pDisposals[b], pBlock[b]>>
        /\ Pointers!nWatchers(b)' = Pointers!nWatchers(b) /\ Pointers!nReleasing(b)' = Pointers!nReleasing(b)
        /\ Pointers!nForgetting(b)' = Pointers!nForgetting(b) /\ Pointers!nDisposing(b)' = Pointers!nDisposing(b)
    BY <1>0 DEF Pointers!nWatchers, Pointers!nReleasing, Pointers!nForgetting, Pointers!nDisposing, Pointers!Holders, Pointers!Dropping
  <2>3. Pointers!Counted(b)
    OBVIOUS
  <2> QED
    BY <2>1, <2>2, <2>3 DEF Pointers!Counted, Pointers!Common, Pointers!One
<1> QED
  BY <1>1, <1>2

(* A WeakPtr of what another thread has, or none: it adds to weak_ before  *)
(* the temporary drops the old one.                                        *)
LEMMA PointersObserveKeeps ==
  ASSUME Pointers!IsFiniteSet(TwoThreads), Null \notin Blocks, Pointers!IInv, NEW t \in TwoThreads, NEW u \in TwoThreads,
         NEW h \in {Null, pSp[u], pWp[u]}, Pointers!Observe(t, h)
  PROVE  Pointers!IInv'
<1> USE DEF Pointers!IInv
<1>0. /\ Pointers!Types /\ pWp[t] \in Blocks \cup {Null} /\ pPc[t] \notin Pointers!Destroying
      /\ h \in Blocks \cup {Null}
      /\ pWp' = [pWp EXCEPT ![t] = h] /\ Pointers!Drop(t, pWp[t], "releaseWeak")
      /\ UNCHANGED <<pShared, pDisposals, pBlock, pSp, pCur>>
  BY DEF Pointers!Observe, Pointers!Types, Pointers!TypeOK, Pointers!Destroying
<1>1. Pointers!Types'
  BY <1>0, PointersDropped DEF Pointers!Observe, Pointers!Plus, Pointers!Types, Pointers!TypeOK, Pointers!Destroying
<1>2. pWp'[t] = h /\ \A s \in TwoThreads \ {t} : pWp'[s] = pWp[s]
  BY <1>0 DEF Pointers!Types, Pointers!TypeOK
<1>3. ASSUME NEW b \in Blocks PROVE Pointers!Counted(b)'
  <2>1. Pointers!nWatchers(b)' = Pointers!nWatchers(b) - Pointers!One(pWp[t] = b) + Pointers!One(pWp'[t] = b)
    BY <1>0, <1>2, PointersWatchersChange
  <2>2. /\ Pointers!nForgetting(b)' = Pointers!nForgetting(b) + Pointers!One(pWp[t] = b)
        /\ Pointers!nReleasing(b)' = Pointers!nReleasing(b) + 0 /\ Pointers!nDisposing(b)' = Pointers!nDisposing(b)
    BY <1>0, PointersDropped DEF Pointers!One
  <2>3. /\ UNCHANGED <<pShared[b], pDisposals[b], pBlock[b]>>
        /\ Pointers!nOwners(b)' = Pointers!nOwners(b)
    BY <1>0 DEF Pointers!nOwners, Pointers!Holders
  <2>4. Pointers!Counted(b)
    OBVIOUS
  <2>5. /\ pShared[b] \in Nat /\ pWeak[b] \in Nat
        /\ pWeak[b]' = pWeak[b] + Pointers!One(h = b)
    BY <1>0 DEF Pointers!Types, Pointers!TypeOK, Pointers!Observe, Pointers!Plus, Pointers!One
  <2>6. h = b => Pointers!nOwners(b) > 0 \/ Pointers!nWatchers(b) > 0
    BY PointersPositive
  <2>7. h = b => pWeak[b] > 0
    BY <2>4, <2>5, <2>6, PointersSizes DEF Pointers!Counted, Pointers!Common, Pointers!One
  <2>8. Pointers!Common(b)' = Pointers!Common(b)
    BY <2>2, <2>3 DEF Pointers!Common
  <2>9. pWeak[b]' = Pointers!nWatchers(b)' + Pointers!nForgetting(b)' + Pointers!Common(b)'
    <3>1. Pointers!Common(b) \in Nat
      BY PointersSizes DEF Pointers!Common, Pointers!One
    <3> QED
      BY <1>2, <2>1, <2>2, <2>4, <2>5, <2>8, <3>1, PointersSizes DEF Pointers!Counted, Pointers!One
  <2> QED
    BY <2>2, <2>3, <2>4, <2>5, <2>7, <2>8, <2>9, PointersSizes DEF Pointers!Counted, Pointers!One
<1> QED
  BY <1>1, <1>3

(* A WeakPtr that is moved is not counted anew.                            *)
LEMMA PointersWeakMoveKeeps ==
  ASSUME Pointers!IsFiniteSet(TwoThreads), Null \notin Blocks, Pointers!IInv, NEW t \in TwoThreads, NEW u \in TwoThreads,
         Pointers!WeakMove(t, u)
  PROVE  Pointers!IInv'
<1> USE DEF Pointers!IInv
<1>0. /\ Pointers!Types /\ pWp[t] \in Blocks \cup {Null} /\ pPc[t] \notin Pointers!Destroying
      /\ UNCHANGED <<pShared, pWeak, pDisposals, pBlock, pSp, pCur>>
  BY DEF Pointers!WeakMove, Pointers!Types, Pointers!TypeOK, Pointers!Destroying
<1> DEFINE left == IF t = u THEN Null ELSE pWp[t]
<1>1. Pointers!Drop(t, left, "releaseWeak") /\ left \in Blocks \cup {Null}
  BY <1>0 DEF Pointers!WeakMove, Pointers!Types, Pointers!TypeOK
<1>2. /\ pWp' \in [TwoThreads -> Blocks \cup {Null}]
      /\ \A s \in TwoThreads \ {t, u} : pWp'[s] = pWp[s]
      /\ pPc[u] # "upgrade"
  BY <1>0 DEF Pointers!WeakMove, Pointers!Types, Pointers!TypeOK
<1>3. Pointers!Types'
  <2>1. /\ pPc' \in [TwoThreads -> {"idle", "upgrade", "release", "dispose", "releaseWeak"}]
        /\ pTmp' \in [TwoThreads -> Blocks \cup {Null}]
        /\ \A s \in TwoThreads : /\ pPc'[s] \in Pointers!Destroying => pTmp'[s] \in Blocks
                                 /\ pPc'[s] = "upgrade" => pPc[s] = "upgrade" /\ s # t
    <3> HIDE DEF left
    <3> QED
      BY <1>0, <1>1, PointersDropped
  <2> QED
    BY <1>0, <1>2, <2>1 DEF Pointers!Types, Pointers!TypeOK, Pointers!Destroying
<1>4. ASSUME NEW b \in Blocks PROVE Pointers!Counted(b)'
  <2>1. Pointers!nWatchers(b)' = Pointers!nWatchers(b) - Pointers!One(left = b)
    <3>1. CASE t = u
      <4>1. pWp' = pWp
        BY <1>0, <3>1 DEF Pointers!WeakMove, Pointers!Types, Pointers!TypeOK
      <4> QED
        BY <3>1, <4>1, PointersSizes DEF Pointers!nWatchers, Pointers!Holders, Pointers!One
    <3>2. CASE t # u
      <4>1. pWp'[t] = pWp[u] /\ pWp'[u] = Null
        BY <1>0, <3>2 DEF Pointers!WeakMove, Pointers!Types, Pointers!TypeOK
      <4>2. Pointers!nWatchers(b)' = Pointers!nWatchers(b) - Pointers!One(pWp[t] = b) - Pointers!One(pWp[u] = b)
                                   + Pointers!One(pWp'[t] = b) + Pointers!One(pWp'[u] = b)
        BY <1>0, <1>2, <3>2, PointersWatchersExchange
      <4> QED
        BY <3>2, <4>1, <4>2, PointersSizes DEF Pointers!One
    <3> QED
      BY <3>1, <3>2
  <2>2. /\ Pointers!nForgetting(b)' = Pointers!nForgetting(b) + Pointers!One(left = b)
        /\ Pointers!nReleasing(b)' = Pointers!nReleasing(b) + 0 /\ Pointers!nDisposing(b)' = Pointers!nDisposing(b)
    <3> HIDE DEF left
    <3> QED
      BY <1>0, <1>1, PointersDropped DEF Pointers!One
  <2>3. /\ UNCHANGED <<pShared[b], pWeak[b], pDisposals[b], pBlock[b]>>
        /\ Pointers!nOwners(b)' = Pointers!nOwners(b)
    BY <1>0 DEF Pointers!nOwners, Pointers!Holders
  <2>4. Pointers!Counted(b)
    OBVIOUS
  <2> HIDE DEF left
  <2>5. Pointers!Common(b)' = Pointers!Common(b) /\ Pointers!Common(b) \in Nat
    BY <2>2, <2>3, PointersSizes DEF Pointers!Common, Pointers!One
  <2> QED
    BY <2>1, <2>2, <2>3, <2>4, <2>5, PointersSizes DEF Pointers!Counted, Pointers!One
<1> QED
  BY <1>3, <1>4

(* The CAS of try_add_shared() that succeeds saw a count above zero, so    *)
(* the object has an owner and is alive: one more joins.                   *)
LEMMA PointersUpgradeKeeps ==
  ASSUME Pointers!IsFiniteSet(TwoThreads), Null \notin Blocks, Pointers!IInv, NEW t \in TwoThreads, Pointers!CasUpgrades(t)
  PROVE  Pointers!IInv'
<1> USE DEF Pointers!IInv
<1>0. /\ Pointers!Types /\ pSp[t] \in Blocks \cup {Null} /\ pWp[t] \in Blocks /\ pPc[t] \notin Pointers!Destroying
      /\ pShared[pWp[t]] > 0
      /\ pShared' = [pShared EXCEPT ![pWp[t]] = pShared[pWp[t]] + 1]
      /\ pSp' = [pSp EXCEPT ![t] = pWp[t]] /\ Pointers!Drop(t, pSp[t], "release")
      /\ UNCHANGED <<pWeak, pDisposals, pBlock, pWp>>
  BY DEF Pointers!CasUpgrades, Pointers!Types, Pointers!TypeOK, Pointers!Destroying
<1>1. Pointers!Types'
  BY <1>0, PointersDropped DEF Pointers!CasUpgrades, Pointers!Types, Pointers!TypeOK, Pointers!Destroying
<1>2. pSp'[t] = pWp[t] /\ \A s \in TwoThreads \ {t} : pSp'[s] = pSp[s]
  BY <1>0 DEF Pointers!Types, Pointers!TypeOK
<1>3. ASSUME NEW b \in Blocks PROVE Pointers!Counted(b)'
  <2>0. Pointers!nOwners(b)' = Pointers!nOwners(b) - Pointers!One(pSp[t] = b) + Pointers!One(pSp'[t] = b)
    BY <1>0, <1>2, PointersOwnersChange
  <2>1. Pointers!nOwners(b)' = Pointers!nOwners(b) - Pointers!One(pSp[t] = b) + Pointers!One(pWp[t] = b)
    BY <2>0, <1>2
  <2>2. /\ Pointers!nReleasing(b)' = Pointers!nReleasing(b) + Pointers!One(pSp[t] = b)
        /\ Pointers!nForgetting(b)' = Pointers!nForgetting(b) + 0 /\ Pointers!nDisposing(b)' = Pointers!nDisposing(b)
    BY <1>0, PointersDropped DEF Pointers!One
  <2>3. /\ UNCHANGED <<pWeak[b], pDisposals[b], pBlock[b]>>
        /\ Pointers!nWatchers(b)' = Pointers!nWatchers(b)
    BY <1>0 DEF Pointers!nWatchers, Pointers!Holders
  <2>4. Pointers!Counted(b)
    OBVIOUS
  <2>5. pShared[b] \in Nat /\ pShared[b]' = pShared[b] + Pointers!One(pWp[t] = b)
    BY <1>0 DEF Pointers!Types, Pointers!TypeOK, Pointers!One
  <2>6. pWp[t] = b => pShared[b] > 0
    BY <1>0
  <2> QED
    BY <2>1, <2>2, <2>3, <2>4, <2>5, <2>6, PointersSizes DEF Pointers!Counted, Pointers!Common, Pointers!One
<1> QED
  BY <1>1, <1>3

(* The steps of lock() that read the count change no handle.               *)
LEMMA PointersLockKeeps ==
  ASSUME Pointers!IsFiniteSet(TwoThreads), Null \notin Blocks, Pointers!IInv, NEW t \in TwoThreads,
         Pointers!Lock(t) \/ Pointers!CasFails(t)
  PROVE  Pointers!IInv'
<1> USE DEF Pointers!IInv
<1>0. Pointers!Types /\ UNCHANGED <<pShared, pWeak, pDisposals, pBlock, pSp, pWp, pTmp>>
  BY DEF Pointers!Lock, Pointers!CasFails
<1>1. Pointers!Types'
  BY <1>0 DEF Pointers!Lock, Pointers!CasFails, Pointers!Types, Pointers!TypeOK, Pointers!Destroying
<1>2. ASSUME NEW b \in Blocks, NEW l \in Pointers!Destroying PROVE Pointers!Dropping(l, b)' = Pointers!Dropping(l, b)
  BY <1>0 DEF Pointers!Lock, Pointers!CasFails, Pointers!Types, Pointers!TypeOK, Pointers!Destroying, Pointers!Dropping
<1>3. ASSUME NEW b \in Blocks PROVE Pointers!Counted(b)'
  <2>1. /\ Pointers!nReleasing(b)' = Pointers!nReleasing(b)
        /\ Pointers!nForgetting(b)' = Pointers!nForgetting(b) /\ Pointers!nDisposing(b)' = Pointers!nDisposing(b)
    BY <1>2 DEF Pointers!nReleasing, Pointers!nForgetting, Pointers!nDisposing, Pointers!Destroying
  <2>2. Pointers!nOwners(b)' = Pointers!nOwners(b) /\ Pointers!nWatchers(b)' = Pointers!nWatchers(b)
    BY <1>0 DEF Pointers!nOwners, Pointers!nWatchers, Pointers!Holders
  <2>3. Pointers!Counted(b)
    OBVIOUS
  <2> QED
    BY <1>0, <2>1, <2>2, <2>3 DEF Pointers!Counted, Pointers!Common, Pointers!One
<1> QED
  BY <1>1, <1>3

(* fetch_sub of shared_: whoever takes it to zero disposes, and nobody     *)
(* else does.                                                              *)
LEMMA PointersReleaseSharedKeeps ==
  ASSUME Pointers!IsFiniteSet(TwoThreads), Null \notin Blocks, Pointers!IInv, NEW t \in TwoThreads, Pointers!ReleaseShared(t)
  PROVE  Pointers!IInv'
<1> USE DEF Pointers!IInv
<1> DEFINE b0 == pTmp[t]
           next == IF pShared[b0] = 1 THEN "dispose" ELSE "idle"
<1>0. /\ Pointers!Types /\ b0 \in Blocks /\ pPc[t] = "release"
      /\ pShared' = [pShared EXCEPT ![b0] = @ - 1]
      /\ pPc' = [pPc EXCEPT ![t] = next]
      /\ \/ next \in Pointers!Destroying /\ pTmp' = pTmp
         \/ next = "idle" /\ pTmp' = [pTmp EXCEPT ![t] = Null]
      /\ UNCHANGED <<pWeak, pDisposals, pBlock, pSp, pWp, pCur>>
  BY DEF Pointers!ReleaseShared, Pointers!Drop, Pointers!Types, Pointers!TypeOK, Pointers!Destroying
<1>1. ASSUME NEW b \in Blocks, NEW k \in Pointers!Destroying
      PROVE  Pointers!Cardinality(Pointers!Dropping(k, b)') = Pointers!Cardinality(Pointers!Dropping(k, b))
               - Pointers!One(k = "release" /\ pTmp[t] = b) + Pointers!One(k = next /\ pTmp[t] = b)
  <2>1. /\ pPc[t] \in Pointers!Destroying /\ pPc'[t] = next /\ pPc'[t] # pPc[t]
        /\ pPc'[t] \in Pointers!Destroying => pTmp'[t] = pTmp[t]
        /\ \A s \in TwoThreads \ {t} : pPc'[s] = pPc[s] /\ pTmp'[s] = pTmp[s]
    BY <1>0 DEF Pointers!Types, Pointers!TypeOK, Pointers!Destroying
  <2>2. Pointers!Cardinality(Pointers!Dropping(k, b)') = Pointers!Cardinality(Pointers!Dropping(k, b))
          - Pointers!One(k = pPc[t] /\ pTmp[t] = b) + Pointers!One(k = pPc'[t] /\ pTmp[t] = b)
    BY <1>0, <1>1, <2>1, PointersAdvanced
  <2> QED
    BY <1>0, <2>1, <2>2
<1>2. pShared[b0] > 0
  <2>1. Pointers!nReleasing(b0) > 0 /\ Pointers!Counted(b0)
    BY <1>0, PointersPositive
  <2> QED
    BY <1>0, <2>1, PointersSizes DEF Pointers!Counted
<1>3. Pointers!Types'
  <2>1. pShared' \in [Blocks -> Nat]
    BY <1>0, <1>2 DEF Pointers!Types, Pointers!TypeOK
  <2> QED
    BY <1>0, <2>1 DEF Pointers!Types, Pointers!TypeOK, Pointers!Destroying
<1>4. ASSUME NEW b \in Blocks PROVE Pointers!Counted(b)'
  <2>1. /\ Pointers!nReleasing(b)' = Pointers!nReleasing(b) - Pointers!One(b0 = b)
        /\ Pointers!nDisposing(b)' = Pointers!nDisposing(b) + Pointers!One(pShared[b0] = 1 /\ b0 = b)
        /\ Pointers!nForgetting(b)' = Pointers!nForgetting(b)
    BY <1>1, PointersSizes DEF Pointers!nReleasing, Pointers!nDisposing, Pointers!nForgetting, Pointers!Destroying, Pointers!One
  <2>2. Pointers!nOwners(b)' = Pointers!nOwners(b) /\ Pointers!nWatchers(b)' = Pointers!nWatchers(b)
    BY <1>0 DEF Pointers!nOwners, Pointers!nWatchers, Pointers!Holders
  <2>3. Pointers!Counted(b)
    OBVIOUS
  <2>4. pShared[b] \in Nat /\ pShared[b]' = pShared[b] - Pointers!One(b0 = b)
    BY <1>0 DEF Pointers!Types, Pointers!TypeOK, Pointers!One
  <2> HIDE DEF b0
  <2>5. b0 = b => pShared[b] > 0
    BY <1>2
  <2>6. Pointers!Common(b)' = Pointers!Common(b) /\ Pointers!Common(b) \in Nat
    BY <2>1, <2>4, <2>5, PointersSizes DEF Pointers!Common, Pointers!One
  <2> QED
    BY <1>0, <2>1, <2>2, <2>3, <2>4, <2>6, PointersSizes DEF Pointers!Counted, Pointers!One
<1> QED
  BY <1>3, <1>4

(* The object is destroyed, and the weak reference that the SharedPtrs had *)
(* in common is given up next.                                             *)
LEMMA PointersDisposeKeeps ==
  ASSUME Pointers!IsFiniteSet(TwoThreads), Null \notin Blocks, Pointers!IInv, NEW t \in TwoThreads, Pointers!Dispose(t)
  PROVE  Pointers!IInv'
<1> USE DEF Pointers!IInv
<1> DEFINE b0 == pTmp[t]
<1>0. /\ Pointers!Types /\ b0 \in Blocks /\ pPc[t] = "dispose"
      /\ pDisposals' = [pDisposals EXCEPT ![b0] = @ + 1]
      /\ pPc' = [pPc EXCEPT ![t] = "releaseWeak"]
      /\ UNCHANGED <<pShared, pWeak, pBlock, pSp, pWp, pTmp, pCur>>
  BY DEF Pointers!Dispose, Pointers!Types, Pointers!TypeOK, Pointers!Destroying
<1>1. ASSUME NEW b \in Blocks, NEW k \in Pointers!Destroying
      PROVE  Pointers!Cardinality(Pointers!Dropping(k, b)') = Pointers!Cardinality(Pointers!Dropping(k, b))
               - Pointers!One(k = "dispose" /\ pTmp[t] = b) + Pointers!One(k = "releaseWeak" /\ pTmp[t] = b)
  <2>1. /\ pPc[t] \in Pointers!Destroying /\ pPc'[t] = "releaseWeak" /\ pPc'[t] # pPc[t]
        /\ pPc'[t] \in Pointers!Destroying => pTmp'[t] = pTmp[t]
        /\ \A s \in TwoThreads \ {t} : pPc'[s] = pPc[s] /\ pTmp'[s] = pTmp[s]
    BY <1>0 DEF Pointers!Types, Pointers!TypeOK, Pointers!Destroying
  <2>2. Pointers!Cardinality(Pointers!Dropping(k, b)') = Pointers!Cardinality(Pointers!Dropping(k, b))
          - Pointers!One(k = pPc[t] /\ pTmp[t] = b) + Pointers!One(k = pPc'[t] /\ pTmp[t] = b)
    BY <1>0, <1>1, <2>1, PointersAdvanced
  <2> QED
    BY <1>0, <2>1, <2>2
<1>2. Pointers!Types'
  BY <1>0 DEF Pointers!Types, Pointers!TypeOK, Pointers!Destroying
<1>3. ASSUME NEW b \in Blocks PROVE Pointers!Counted(b)'
  <2>1. /\ Pointers!nReleasing(b)' = Pointers!nReleasing(b)
        /\ Pointers!nDisposing(b)' = Pointers!nDisposing(b) - Pointers!One(b0 = b)
        /\ Pointers!nForgetting(b)' = Pointers!nForgetting(b) + Pointers!One(b0 = b)
    BY <1>1, PointersSizes DEF Pointers!nReleasing, Pointers!nDisposing, Pointers!nForgetting, Pointers!Destroying, Pointers!One
  <2>2. Pointers!nOwners(b)' = Pointers!nOwners(b) /\ Pointers!nWatchers(b)' = Pointers!nWatchers(b)
    BY <1>0 DEF Pointers!nOwners, Pointers!nWatchers, Pointers!Holders
  <2>3. Pointers!Counted(b)
    OBVIOUS
  <2>4. /\ pShared[b] \in Nat /\ pWeak[b] \in Nat /\ pDisposals[b] \in Nat
        /\ pDisposals[b]' = pDisposals[b] + Pointers!One(b0 = b)
        /\ pBlock[b] \in {"unused", "live", "deleted"}
    BY <1>0 DEF Pointers!Types, Pointers!TypeOK, Pointers!One
  <2>5. b0 = b => Pointers!nDisposing(b) > 0
    BY <1>0, PointersPositive
  <2> HIDE DEF b0
  <2>6. Pointers!Common(b)' = Pointers!Common(b) - Pointers!One(b0 = b) /\ Pointers!Common(b) \in Nat
    BY <1>0, <2>1, PointersSizes DEF Pointers!Common, Pointers!One
  <2>7. b0 = b => Pointers!Common(b) = 1
    BY <2>3, <2>5, <2>6, PointersSizes DEF Pointers!Counted, Pointers!Common, Pointers!One
  <2>8. b0 = b => pBlock[b] = "live"
    BY <2>3, <2>4, <2>7, PointersSizes DEF Pointers!Counted
  <2>9. pDisposals[b]' = Pointers!One(pBlock[b] # "unused" /\ Pointers!Common(b)' = 0)
    BY <2>3, <2>4, <2>6, <2>7, <2>8 DEF Pointers!Counted, Pointers!One
  <2> QED
    BY <1>0, <2>1, <2>2, <2>3, <2>4, <2>6, <2>7, <2>9, PointersSizes DEF Pointers!Counted, Pointers!One
<1> QED
  BY <1>2, <1>3

(* fetch_sub of weak_: whoever takes it to zero deletes the block, and     *)
(* nobody else has a handle on it.                                         *)
LEMMA PointersReleaseWeakKeeps ==
  ASSUME Pointers!IsFiniteSet(TwoThreads), Null \notin Blocks, Pointers!IInv, NEW t \in TwoThreads, Pointers!ReleaseWeak(t)
  PROVE  Pointers!IInv'
<1> USE DEF Pointers!IInv
<1> DEFINE b0 == pTmp[t]
<1>0. /\ Pointers!Types /\ b0 \in Blocks /\ pPc[t] = "releaseWeak"
      /\ pWeak' = [pWeak EXCEPT ![b0] = @ - 1]
      /\ pBlock' = IF pWeak[b0] = 1 THEN [pBlock EXCEPT ![b0] = "deleted"] ELSE pBlock
      /\ pPc' = [pPc EXCEPT ![t] = "idle"] /\ pTmp' = [pTmp EXCEPT ![t] = Null]
      /\ UNCHANGED <<pShared, pDisposals, pSp, pWp, pCur>>
  BY DEF Pointers!ReleaseWeak, Pointers!Drop, Pointers!Types, Pointers!TypeOK, Pointers!Destroying
<1>1. ASSUME NEW b \in Blocks, NEW k \in Pointers!Destroying
      PROVE  Pointers!Cardinality(Pointers!Dropping(k, b)') = Pointers!Cardinality(Pointers!Dropping(k, b))
               - Pointers!One(k = "releaseWeak" /\ pTmp[t] = b) + Pointers!One(k = "idle" /\ pTmp[t] = b)
  <2>1. /\ pPc[t] \in Pointers!Destroying /\ pPc'[t] = "idle" /\ pPc'[t] # pPc[t]
        /\ pPc'[t] \in Pointers!Destroying => pTmp'[t] = pTmp[t]
        /\ \A s \in TwoThreads \ {t} : pPc'[s] = pPc[s] /\ pTmp'[s] = pTmp[s]
    BY <1>0 DEF Pointers!Types, Pointers!TypeOK, Pointers!Destroying
  <2>2. Pointers!Cardinality(Pointers!Dropping(k, b)') = Pointers!Cardinality(Pointers!Dropping(k, b))
          - Pointers!One(k = pPc[t] /\ pTmp[t] = b) + Pointers!One(k = pPc'[t] /\ pTmp[t] = b)
    BY <1>0, <1>1, <2>1, PointersAdvanced
  <2> QED
    BY <1>0, <2>1, <2>2
<1>2. pWeak[b0] > 0
  <2>1. Pointers!nForgetting(b0) > 0 /\ Pointers!Counted(b0)
    BY <1>0, PointersPositive
  <2>2. Pointers!Common(b0) \in Nat
    BY <1>0, PointersSizes DEF Pointers!Common, Pointers!One
  <2> QED
    BY <1>0, <2>1, <2>2, PointersSizes DEF Pointers!Counted
<1>3. Pointers!Types'
  <2>1. pWeak' \in [Blocks -> Nat]
    BY <1>0, <1>2 DEF Pointers!Types, Pointers!TypeOK
  <2> QED
    BY <1>0, <2>1 DEF Pointers!Types, Pointers!TypeOK, Pointers!Destroying
<1>4. ASSUME NEW b \in Blocks PROVE Pointers!Counted(b)'
  <2>1. /\ Pointers!nReleasing(b)' = Pointers!nReleasing(b)
        /\ Pointers!nDisposing(b)' = Pointers!nDisposing(b)
        /\ Pointers!nForgetting(b)' = Pointers!nForgetting(b) - Pointers!One(b0 = b)
    BY <1>1, PointersSizes DEF Pointers!nReleasing, Pointers!nDisposing, Pointers!nForgetting, Pointers!Destroying, Pointers!One
  <2>2. Pointers!nOwners(b)' = Pointers!nOwners(b) /\ Pointers!nWatchers(b)' = Pointers!nWatchers(b)
    BY <1>0 DEF Pointers!nOwners, Pointers!nWatchers, Pointers!Holders
  <2>3. Pointers!Counted(b)
    OBVIOUS
  <2>4. /\ pShared[b] \in Nat /\ pWeak[b] \in Nat
        /\ pWeak[b]' = pWeak[b] - Pointers!One(b0 = b)
        /\ pBlock[b] \in {"unused", "live", "deleted"}
        /\ pBlock[b]' = IF b0 = b /\ pWeak[b] = 1 THEN "deleted" ELSE pBlock[b]
    BY <1>0 DEF Pointers!Types, Pointers!TypeOK, Pointers!One
  <2> HIDE DEF b0
  <2>5. Pointers!Common(b)' = Pointers!Common(b) /\ Pointers!Common(b) \in Nat
    BY <1>0, <2>1, PointersSizes DEF Pointers!Common, Pointers!One
  <2>6. b0 = b => pWeak[b] > 0
    BY <1>2
  <2>7. pWeak[b]' = Pointers!nWatchers(b)' + Pointers!nForgetting(b)' + Pointers!Common(b)'
    BY <2>1, <2>2, <2>3, <2>4, <2>5, PointersSizes DEF Pointers!Counted, Pointers!One
  <2>8. pBlock[b]' = "live" <=> pWeak[b]' > 0
    BY <2>3, <2>4, <2>6 DEF Pointers!Counted, Pointers!One
  <2>9. pBlock[b]' # "unused" <=> pBlock[b] # "unused"
    BY <2>3, <2>4, <2>6 DEF Pointers!Counted
  <2> QED
    BY <1>0, <2>1, <2>2, <2>3, <2>5, <2>7, <2>8, <2>9 DEF Pointers!Counted, Pointers!One
<1> QED
  BY <1>3, <1>4

(* Every step keeps Pointers!IInv.                                         *)
LEMMA PointersInductive ==
  ASSUME Pointers!IsFiniteSet(TwoThreads), Null \notin Blocks, Pointers!IInv, [Pointers!Next]_Pointers!vars
  PROVE  Pointers!IInv'
<1>1. CASE UNCHANGED Pointers!vars
  <2>1. Pointers!Types'
    BY <1>1 DEF Pointers!vars, Pointers!IInv, Pointers!Types, Pointers!TypeOK
  <2>2. ASSUME NEW b \in Blocks PROVE Pointers!Counted(b)'
    <3>1. /\ Pointers!nOwners(b)' = Pointers!nOwners(b) /\ Pointers!nWatchers(b)' = Pointers!nWatchers(b)
          /\ Pointers!nReleasing(b)' = Pointers!nReleasing(b) /\ Pointers!nDisposing(b)' = Pointers!nDisposing(b)
          /\ Pointers!nForgetting(b)' = Pointers!nForgetting(b)
      BY <1>1 DEF Pointers!vars, Pointers!nOwners, Pointers!nWatchers, Pointers!nReleasing, Pointers!nDisposing, Pointers!nForgetting, Pointers!Holders, Pointers!Dropping
    <3>2. Pointers!Counted(b)
      BY DEF Pointers!IInv
    <3> QED
      BY <1>1, <3>1, <3>2 DEF Pointers!vars, Pointers!Counted, Pointers!Common
  <2> QED
    BY <2>1, <2>2 DEF Pointers!IInv
<1>2. ASSUME NEW t \in TwoThreads, Pointers!SharedOps(t) PROVE Pointers!IInv'
  BY <1>2, PointersResetKeeps, PointersMakeKeeps, PointersCopyKeeps, PointersMoveKeeps, PointersSwapKeeps DEF Pointers!SharedOps
<1>3. ASSUME NEW t \in TwoThreads, Pointers!WeakOps(t) PROVE Pointers!IInv'
  <2>1. ASSUME NEW u \in TwoThreads, Pointers!Observe(t, Null) \/ Pointers!Observe(t, pSp[u]) \/ Pointers!Observe(t, pWp[u])
        PROVE  Pointers!IInv'
    BY <1>3, <2>1, PointersObserveKeeps
  <2>2. ASSUME NEW u \in TwoThreads, Pointers!WeakMove(t, u) PROVE Pointers!IInv'
    BY <1>3, <2>2, PointersWeakMoveKeeps
  <2> QED
    BY <1>3, <2>1, <2>2, PointersLockKeeps, PointersResetKeeps DEF Pointers!WeakOps
<1>4. ASSUME NEW t \in TwoThreads, Pointers!ControlOps(t) PROVE Pointers!IInv'
  BY <1>4, PointersUpgradeKeeps, PointersLockKeeps, PointersReleaseSharedKeeps, PointersDisposeKeeps, PointersReleaseWeakKeeps
     DEF Pointers!ControlOps
<1> QED
  BY <1>1, <1>2, <1>3, <1>4 DEF Pointers!Next

(* Before the first block.                                                 *)
LEMMA PointersInitHolds ==
  ASSUME Pointers!IsFiniteSet(TwoThreads), Null \notin Blocks, Pointers!Init
  PROVE  Pointers!IInv
<1>1. Pointers!Types
  BY DEF Pointers!Init, Pointers!Types, Pointers!TypeOK, Pointers!Destroying
<1>2. ASSUME NEW b \in Blocks PROVE Pointers!Counted(b)
  <2>1. /\ Pointers!Holders(pSp, b) = {} /\ Pointers!Holders(pWp, b) = {}
        /\ \A l \in Pointers!Destroying : Pointers!Dropping(l, b) = {}
    BY DEF Pointers!Init, Pointers!Holders, Pointers!Dropping, Pointers!Destroying
  <2>2. /\ Pointers!nOwners(b) = 0 /\ Pointers!nWatchers(b) = 0
        /\ Pointers!nReleasing(b) = 0 /\ Pointers!nDisposing(b) = 0 /\ Pointers!nForgetting(b) = 0
    BY <2>1, PointersCardinality, FS_EmptySet
       DEF Pointers!nOwners, Pointers!nWatchers, Pointers!nReleasing, Pointers!nDisposing, Pointers!nForgetting, Pointers!Destroying
  <2> QED
    BY <2>2 DEF Pointers!Init, Pointers!Counted, Pointers!Common, Pointers!One
<1> QED
  BY <1>1, <1>2 DEF Pointers!IInv

(* What Pointers!IInv says of the counts is what the owners are promised.  *)
LEMMA PointersImplies ==
  ASSUME Pointers!IsFiniteSet(TwoThreads), Pointers!IInv
  PROVE  Pointers!TypeOK /\ Pointers!OwnershipShared
<1>0. Pointers!TypeOK
  BY DEF Pointers!IInv, Pointers!Types
<1> SUFFICES ASSUME NEW b \in Blocks
             PROVE  /\ Pointers!Owners(b) # {} => pDisposals[b] = 0
                    /\ pDisposals[b] <= 1
                    /\ Pointers!Touching(b) # {} => pBlock[b] = "live"
                    /\ pShared[b] = Pointers!Cardinality(Pointers!Owners(b)) + Pointers!Cardinality(Pointers!Releasing(b))
                    /\ pBlock[b] = "live" => Pointers!Touching(b) # {}
                    /\ pBlock[b] = "deleted" => pDisposals[b] = 1
  BY <1>0 DEF Pointers!OwnershipShared
<1>1. Pointers!Counted(b) /\ pShared[b] \in Nat /\ pWeak[b] \in Nat
  BY <1>0 DEF Pointers!IInv, Pointers!TypeOK
<1>2. Pointers!Common(b) \in Nat
  BY PointersSizes DEF Pointers!Common, Pointers!One
<1>3. Pointers!nOwners(b) = Pointers!Cardinality(Pointers!Owners(b)) /\ Pointers!nReleasing(b) = Pointers!Cardinality(Pointers!Releasing(b))
  BY DEF Pointers!nOwners, Pointers!nReleasing, Pointers!Owners, Pointers!Releasing, Pointers!Holders, Pointers!Dropping
<1>4. pShared[b] > 0 => Pointers!Common(b) = 1 /\ pWeak[b] > 0
  BY <1>1, <1>2, PointersSizes DEF Pointers!Counted, Pointers!Common, Pointers!One
<1>5. Pointers!Owners(b) # {} => pDisposals[b] = 0
  <2>1. Pointers!Owners(b) # {} => pShared[b] > 0
    BY <1>1, PointersPositive, PointersSizes DEF Pointers!Owners, Pointers!Counted
  <2> QED
    BY <1>1, <1>4, <2>1 DEF Pointers!Counted, Pointers!One
<1>6. pDisposals[b] <= 1
  BY <1>1 DEF Pointers!Counted, Pointers!One
<1>7. Pointers!Touching(b) # {} => pBlock[b] = "live"
  <2> SUFFICES ASSUME NEW t \in TwoThreads,
                      \/ pSp[t] = b \/ pWp[t] = b
                      \/ pPc[t] = "release" /\ pTmp[t] = b
                      \/ pPc[t] = "dispose" /\ pTmp[t] = b
                      \/ pPc[t] = "releaseWeak" /\ pTmp[t] = b
               PROVE  pBlock[b] = "live"
    BY DEF Pointers!Touching
  <2>1. Pointers!nOwners(b) + Pointers!nReleasing(b) > 0 \/ Pointers!nWatchers(b) > 0 \/ Pointers!nDisposing(b) > 0
        \/ Pointers!nForgetting(b) > 0
    BY PointersPositive, PointersSizes
  <2>2. Pointers!nDisposing(b) > 0 => Pointers!Common(b) > 0
    BY PointersSizes DEF Pointers!Common, Pointers!One
  <2>3. pWeak[b] > 0
    BY <1>1, <1>2, <1>4, <2>1, <2>2, PointersSizes DEF Pointers!Counted
  <2> QED
    BY <1>1, <2>3 DEF Pointers!Counted
<1>8. pBlock[b] = "live" => Pointers!Touching(b) # {}
  <2> SUFFICES ASSUME pBlock[b] = "live", Pointers!Touching(b) = {} PROVE FALSE
    OBVIOUS
  <2>1. /\ Pointers!Holders(pSp, b) = {} /\ Pointers!Holders(pWp, b) = {}
        /\ \A l \in Pointers!Destroying : Pointers!Dropping(l, b) = {}
    BY DEF Pointers!Touching, Pointers!Holders, Pointers!Dropping, Pointers!Destroying
  <2>2. /\ Pointers!nOwners(b) = 0 /\ Pointers!nWatchers(b) = 0
        /\ Pointers!nReleasing(b) = 0 /\ Pointers!nDisposing(b) = 0 /\ Pointers!nForgetting(b) = 0
    BY <2>1, PointersCardinality, FS_EmptySet
       DEF Pointers!nOwners, Pointers!nWatchers, Pointers!nReleasing, Pointers!nDisposing, Pointers!nForgetting, Pointers!Destroying
  <2> QED
    BY <1>1, <2>2 DEF Pointers!Counted, Pointers!Common, Pointers!One
<1>9. pBlock[b] = "deleted" => pDisposals[b] = 1
  <2>1. pBlock[b] = "deleted" => pWeak[b] = 0
    BY <1>1 DEF Pointers!Counted
  <2>2. pBlock[b] = "deleted" => Pointers!Common(b) = 0
    BY <1>1, <1>2, <2>1, PointersSizes DEF Pointers!Counted
  <2> QED
    BY <1>1, <2>2 DEF Pointers!Counted, Pointers!One
<1> QED
  BY <1>1, <1>3, <1>5, <1>6, <1>7, <1>8, <1>9 DEF Pointers!Counted

-----------------------------------------------------------------------------
(* RWSpinLock *)

(* RWSpinLock with all its readers and with stores that may linger: both   *)
(* of those of MCLocks behave like it.                                     *)
Linger == INSTANCE RwSpinLock WITH StoresLinger <- TRUE, readers_ <- rwReaders,
        writer_ <- rwWriter, pc <- rwPc, hidden <- rwHidden

(* Linger's finite sets are those that the theorems on finite sets are     *)
(* about.                                                                  *)
LEMMA LingerCardinality ==
  ASSUME NEW S
  PROVE  Linger!Cardinality(S) = Cardinality(S) /\ (Linger!IsFiniteSet(S) <=> IsFiniteSet(S))
BY DEF Linger!Cardinality, Cardinality, Linger!IsFiniteSet, IsFiniteSet

(* Rw's finite sets are those that the theorems on finite sets are about.  *)
LEMMA RwCardinality ==
  ASSUME NEW S
  PROVE  Rw!Cardinality(S) = Cardinality(S) /\ (Rw!IsFiniteSet(S) <=> IsFiniteSet(S))
BY DEF Rw!Cardinality, Cardinality, Rw!IsFiniteSet, IsFiniteSet

(* Every step keeps the flag with its writer.                              *)
LEMMA RwFlagKept ==
  ASSUME Readers \cap Writers = {}, Linger!FlagInv, [Linger!Next]_Linger!vars
  PROVE  Linger!FlagInv'
<1> USE DEF Linger!FlagInv, Linger!WritersExclude, Linger!Lockers, Linger!ReaderAt, Linger!WriterAt
<1>1. ASSUME NEW r \in Readers, Linger!AwaitNoWriter(r) \/ Linger!CountIn(r) \/ Linger!Recheck(r) \/ Linger!CountOut(r)
      PROVE  Linger!FlagInv'
  BY <1>1 DEF Linger!AwaitNoWriter, Linger!CountIn, Linger!Recheck, Linger!CountOut, Linger!Goto
<1>2. ASSUME NEW w \in Writers, Linger!TakeFlag(w) PROVE Linger!FlagInv'
  BY <1>2 DEF Linger!TakeFlag, Linger!Goto
<1>3. ASSUME NEW w \in Writers, Linger!Drain(w) PROVE Linger!FlagInv'
  BY <1>3 DEF Linger!Drain, Linger!Goto
<1>4. ASSUME NEW w \in Writers, Linger!ClearFlag(w) PROVE Linger!FlagInv'
  BY <1>4 DEF Linger!ClearFlag, Linger!Goto
<1>5. ASSUME NEW t \in Linger!Lockers, Linger!Settle(t) PROVE Linger!FlagInv'
  BY <1>5 DEF Linger!Settle
<1>6. CASE UNCHANGED Linger!vars
  BY <1>6 DEF Linger!vars
<1> QED
  BY <1>1, <1>2, <1>3, <1>4, <1>5, <1>6 DEF Linger!Next, Linger!ReadStep, Linger!WriteStep

(* How the count follows a reader that counts itself in or out.            *)
LEMMA RwRecount ==
  ASSUME Linger!IsFiniteSet(Readers), NEW r \in Readers
  PROVE  /\ r \notin Linger!Counted => Linger!Cardinality(Linger!Counted \cup {r}) = Linger!Cardinality(Linger!Counted) + 1
         /\ r \in Linger!Counted => Linger!Cardinality(Linger!Counted \ {r}) = Linger!Cardinality(Linger!Counted) - 1
<1>1. Linger!IsFiniteSet(Linger!Counted)
  BY LingerCardinality, FS_Subset DEF Linger!Counted
<1> QED
  BY <1>1, LingerCardinality, FS_AddElement, FS_RemoveElement, FS_CardinalityType

(* Every step keeps the count: a fetch_add or fetch_sub misses no store.   *)
LEMMA RwCountKept ==
  ASSUME Linger!IsFiniteSet(Readers), Readers \cap Writers = {}, Linger!FlagInv, Linger!Counting, [Linger!Next]_Linger!vars
  PROVE  Linger!Counting'
<1>0. /\ rwPc \in [Linger!Lockers -> Linger!ReaderAt \cup Linger!WriterAt] /\ rwHidden \subseteq Linger!Lockers
      /\ \A r \in Readers : r \in Linger!Lockers
      /\ \A w \in Writers : w \in Linger!Lockers
      /\ rwReaders = Linger!Cardinality(Linger!Counted)
  BY DEF Linger!FlagInv, Linger!Counting, Linger!Lockers
<1>1. ASSUME NEW r \in Readers, Linger!AwaitNoWriter(r) \/ Linger!Recheck(r) PROVE Linger!Counting'
  <2>1. Linger!Counted' = Linger!Counted
    BY <1>0, <1>1 DEF Linger!AwaitNoWriter, Linger!Recheck, Linger!Goto, Linger!Counted
  <2> QED
    BY <1>0, <1>1, <2>1 DEF Linger!AwaitNoWriter, Linger!Recheck, Linger!Counting, Linger!Lockers
<1>2. ASSUME NEW r \in Readers, Linger!CountIn(r) PROVE Linger!Counting'
  <2>1. Linger!Counted' = Linger!Counted \cup {r} /\ r \notin Linger!Counted
    BY <1>0, <1>2 DEF Linger!CountIn, Linger!Goto, Linger!Counted
  <2>2. rwReaders' = Linger!Cardinality(Linger!Counted')
    BY <1>0, <1>2, <2>1, RwRecount DEF Linger!CountIn
  <2>3. rwHidden' \subseteq Linger!Lockers
    BY <1>0, <1>2 DEF Linger!CountIn, Linger!Hide
  <2> QED
    BY <2>2, <2>3 DEF Linger!Counting, Linger!Lockers
<1>3. ASSUME NEW r \in Readers, Linger!CountOut(r) PROVE Linger!Counting'
  <2>1. Linger!Counted' = Linger!Counted \ {r} /\ r \in Linger!Counted
    BY <1>0, <1>3 DEF Linger!CountOut, Linger!Goto, Linger!Counted
  <2>2. rwReaders' = Linger!Cardinality(Linger!Counted')
    BY <1>0, <1>3, <2>1, RwRecount DEF Linger!CountOut
  <2> QED
    BY <1>0, <1>3, <2>2 DEF Linger!CountOut, Linger!Counting, Linger!Lockers
<1>4. ASSUME NEW w \in Writers, Linger!TakeFlag(w) \/ Linger!Drain(w) \/ Linger!ClearFlag(w) PROVE Linger!Counting'
  <2>1. Linger!Counted' = Linger!Counted
    BY <1>0, <1>4 DEF Linger!TakeFlag, Linger!Drain, Linger!ClearFlag, Linger!Goto, Linger!Counted
  <2>2. rwHidden' \subseteq Linger!Lockers /\ rwReaders' = rwReaders
    BY <1>0, <1>4 DEF Linger!TakeFlag, Linger!Drain, Linger!ClearFlag, Linger!Hide
  <2> QED
    BY <1>0, <2>1, <2>2 DEF Linger!Counting, Linger!Lockers
<1>5. CASE UNCHANGED Linger!vars \/ \E t \in Linger!Lockers : Linger!Settle(t)
  <2>1. Linger!Counted' = Linger!Counted /\ rwReaders' = rwReaders /\ rwHidden' \subseteq rwHidden
    BY <1>5 DEF Linger!vars, Linger!Settle, Linger!Counted
  <2> QED
    BY <1>0, <2>1 DEF Linger!Counting, Linger!Lockers
<1> QED
  BY <1>1, <1>2, <1>3, <1>4, <1>5 DEF Linger!Next, Linger!ReadStep, Linger!WriteStep

(* Every step keeps the readers out, if stores do not linger: the second   *)
(* look at the flag, after the count, is what keeps a reader out.          *)
LEMMA RwDrainKept ==
  ASSUME Rw!IsFiniteSet(Readers), Readers \cap Writers = {},
         Rw!FlagInv, Rw!Counting, Rw!Drained, [Rw!Next]_Rw!vars
  PROVE  Rw!Drained'
<1>0. /\ rwPc \in [Rw!Lockers -> Rw!ReaderAt \cup Rw!WriterAt] /\ rwHidden = {}
      /\ \A r \in Readers : r \in Rw!Lockers
      /\ \A w \in Writers : w \in Rw!Lockers
  BY DEF Rw!FlagInv, Rw!Drained, Rw!Lockers
<1>1. ASSUME NEW r \in Readers, Rw!AwaitNoWriter(r) \/ Rw!CountIn(r) \/ Rw!CountOut(r) PROVE Rw!Drained'
  BY <1>0, <1>1 DEF Rw!AwaitNoWriter, Rw!CountIn, Rw!CountOut, Rw!Hide, Rw!Goto, Rw!Drained
<1>2. ASSUME NEW r \in Readers, Rw!Recheck(r) PROVE Rw!Drained'
  <2>1. CASE rwWriter
    BY <1>0, <1>2, <2>1 DEF Rw!Recheck, Rw!Goto, Rw!Drained, Rw!SeenWriter
  <2>2. CASE ~rwWriter
    <3>1. \A w \in Writers : rwPc'[w] # "writing"
      BY <1>0, <1>2, <2>2 DEF Rw!Recheck, Rw!Goto, Rw!FlagInv
    <3> QED
      BY <1>2, <3>1 DEF Rw!Recheck, Rw!Drained
  <2> QED
    BY <2>1, <2>2
<1>3. ASSUME NEW w \in Writers, Rw!Drain(w) PROVE Rw!Drained'
  <2>1. Rw!IsFiniteSet(Rw!Counted) /\ rwReaders = Rw!Cardinality(Rw!Counted)
    BY RwCardinality, FS_Subset DEF Rw!Counted, Rw!Counting
  <2>2. Rw!SeenReaders = rwReaders
    <3>1. Readers \cap rwHidden = {} /\ Rw!Cardinality({}) = 0
      BY <1>0, RwCardinality, FS_EmptySet
    <3>2. rwReaders \in Nat
      BY <2>1, RwCardinality, FS_CardinalityType
    <3> QED
      BY <3>1, <3>2 DEF Rw!SeenReaders
  <2>3. Rw!Counted = {}
    BY <1>3, <2>1, <2>2, RwCardinality, FS_EmptySet DEF Rw!Drain
  <2>4. \A r \in Readers : rwPc'[r] # "reading"
    BY <1>0, <1>3, <2>3 DEF Rw!Drain, Rw!Goto, Rw!Counted
  <2> QED
    BY <1>0, <1>3, <2>4 DEF Rw!Drain, Rw!Drained
<1>4. ASSUME NEW w \in Writers, Rw!TakeFlag(w) \/ Rw!ClearFlag(w) PROVE Rw!Drained'
  BY <1>0, <1>4 DEF Rw!TakeFlag, Rw!ClearFlag, Rw!Hide, Rw!Goto, Rw!Drained
<1>5. CASE UNCHANGED Rw!vars \/ \E t \in Rw!Lockers : Rw!Settle(t)
  BY <1>0, <1>5 DEF Rw!vars, Rw!Settle, Rw!Drained
<1> QED
  BY <1>1, <1>2, <1>3, <1>4, <1>5 DEF Rw!Next, Rw!ReadStep, Rw!WriteStep

(* A new lock.                                                             *)
LEMMA RwInitHolds == ASSUME Rw!Init PROVE Rw!FlagInv /\ Rw!Counting /\ Rw!Drained
<1>1. Rw!FlagInv
  BY DEF Rw!Init, Rw!FlagInv, Rw!WritersExclude, Rw!ReaderAt, Rw!WriterAt, Rw!Lockers
<1>2. Rw!Counted = {}
  BY DEF Rw!Init, Rw!Counted, Rw!Lockers
<1> QED
  BY <1>1, <1>2, RwCardinality, FS_EmptySet DEF Rw!Init, Rw!Counting, Rw!Drained, Rw!Lockers

(* readers_ counts readers, so it is not negative and no more than these.  *)
LEMMA RwTypesImplied ==
  ASSUME Rw!IsFiniteSet(Readers), Rw!FlagInv, Rw!Counting
  PROVE  Rw!TypeOK
<1>1. Rw!IsFiniteSet(Rw!Counted) /\ Rw!Cardinality(Rw!Counted) <= Rw!Cardinality(Readers)
  BY RwCardinality, FS_Subset DEF Rw!Counted
<1>2. Rw!Cardinality(Rw!Counted) \in Nat /\ Rw!Cardinality(Readers) \in Nat
  BY <1>1, RwCardinality, FS_CardinalityType
<1>3. rwReaders \in 0 .. Rw!Cardinality(Readers)
  BY <1>1, <1>2 DEF Rw!Counting
<1> QED
  BY <1>3 DEF Rw!FlagInv, Rw!Counting, Rw!TypeOK, Rw!ReaderAt, Rw!WriterAt

(* A writer that is in has seen the readers out, and has the flag alone.   *)
LEMMA RwExclusionImplied ==
  ASSUME Rw!FlagInv, Rw!Drained
  PROVE  Rw!WriterExclusive
<1> SUFFICES ASSUME NEW w \in Writers, rwPc[w] = "writing",
                    NEW t \in Rw!Lockers, rwPc[t] \in {"reading", "writing"}
             PROVE  t = w
  BY DEF Rw!WriterExclusive
<1>1. t \in Writers /\ rwPc[t] = "writing"
  BY DEF Rw!FlagInv, Rw!Drained, Rw!Lockers, Rw!ReaderAt, Rw!WriterAt
<1> QED
  BY <1>1 DEF Rw!FlagInv, Rw!WritersExclude

-----------------------------------------------------------------------------
(* MCLocks: what is proved of each component holds while the others rest.  *)

(* The component that is active takes the step, and the others none.       *)
LEMMA OneActs ==
  ASSUME [MCNext]_mcVars
  PROVE  /\ [Barrier!Next]_(Barrier!vars) /\ [Spinning!Next]_(Spinning!vars)
         /\ [Sem!Next]_(Sem!vars) /\ [Table!Next]_(Table!vars)
         /\ [Pointers!Next]_(Pointers!vars) /\ [Stream!Next]_(Stream!vars)
<1> USE DEF MCNext, Others, mcVars
<1>1. [Barrier!Next]_(Barrier!vars) /\ [Spinning!Next]_(Spinning!vars)
  BY DEF bVars, lVars, Barrier!vars, Spinning!vars
<1>2. [Sem!Next]_(Sem!vars) /\ [Stream!Next]_(Stream!vars)
  BY DEF sVars, nVars, Sem!vars, Stream!vars
<1>3. [Table!Next]_(Table!vars) /\ [Pointers!Next]_(Pointers!vars)
  BY DEF yVars, pVars, Table!vars, Pointers!vars
<1> QED
  BY <1>1, <1>2, <1>3

(* SpinBarrier, for any finite number of parties and any number of rounds: *)
(* nobody passes a round before everybody has arrived in it.               *)
THEOREM BarrierHolds ==
  ASSUME MaxRounds \in Nat, IsFiniteSet(Parties), Parties # {}
  PROVE  MCSpec => []BarrierRendezvous
<1> DEFINE I == Barrier!IInv /\ Barrier!Bounded
<1>0. Barrier!IsFiniteSet(Parties)
  BY DEF Barrier!IsFiniteSet, IsFiniteSet
<1>1. MCInit => I
  BY BarrierInitHolds DEF MCInit
<1>2. I /\ [MCNext]_mcVars => I'
  BY <1>0, OneActs, BarrierInductive, BarrierBoundKept
<1>3. I => BarrierRendezvous
  BY <1>0, BarrierImplied DEF BarrierRendezvous
<1> QED
  BY <1>1, <1>2, <1>3, PTL DEF MCSpec

(* Semaphore, for any finite set of threads and any number of tokens: no   *)
(* token lies unannounced beside a sleeping acquire().                     *)
THEOREM TokensHold ==
  ASSUME Initial \in Nat, MaxReleases \in Nat, IsFiniteSet(Parties)
  PROVE  MCSpec => []SemaphoreTokensAnnounced
<1>1. MCInit => Sem!IInv
  BY SemInitHolds DEF MCInit
<1>2. Sem!IInv /\ [MCNext]_mcVars => Sem!IInv'
  BY OneActs, SemInductive
<1>3. Sem!IInv => SemaphoreTokensAnnounced
  BY SemImplied DEF SemaphoreTokensAnnounced
<1> QED
  BY <1>1, <1>2, <1>3, PTL DEF MCSpec

(* SymbolTable, for any symbols and any number of ids: find() and lookup() *)
(* are inverse to each other, and no id is reused before clear().          *)
THEOREM SymbolsHold ==
  ASSUME MaxSymbolIds \in Nat
  PROVE  MCSpec => SymbolIdsStable
<1>1. MCInit => Table!IInv
  BY TableInitHolds DEF MCInit
<1>2. Table!IInv /\ [MCNext]_mcVars => Table!IInv' /\ [Table!IdsKept]_yVars
  BY OneActs, TableInductive
<1>3. Table!IInv => Table!TwoWay
  BY DEF Table!IInv
<1> QED
  BY <1>1, <1>2, <1>3, PTL DEF MCSpec, SymbolIdsStable

(* SharedPtr, for any finite set of threads and any blocks: an object is   *)
(* destroyed once, when its last owner has gone, and its block deleted     *)
(* once, when nobody observes it any more.                                 *)
THEOREM OwnershipHolds ==
  ASSUME IsFiniteSet(TwoThreads), Null \notin Blocks
  PROVE  MCSpec => []SharedOwnership
<1>0. Pointers!IsFiniteSet(TwoThreads)
  BY DEF Pointers!IsFiniteSet, IsFiniteSet
<1>1. MCInit => Pointers!IInv
  BY <1>0, PointersInitHolds DEF MCInit
<1>2. Pointers!IInv /\ [MCNext]_mcVars => Pointers!IInv'
  BY <1>0, OneActs, PointersInductive
<1>3. Pointers!IInv => SharedOwnership
  BY <1>0, PointersImplies DEF SharedOwnership
<1> QED
  BY <1>1, <1>2, <1>3, PTL DEF MCSpec

(* SequencedStream, for a feed of any length: the messages come out once   *)
(* each and in sequence, whatever the feed loses, repeats and reorders.    *)
THEOREM SequenceHolds ==
  ASSUME MaxSeq \in Nat
  PROVE  MCSpec => []StreamInSequence
<1>1. MCInit => Stream!IInv
  BY StreamInitHolds DEF MCInit
<1>2. Stream!IInv /\ [MCNext]_mcVars => Stream!IInv'
  BY OneActs, StreamInductive
<1>3. Stream!IInv => StreamInSequence
  BY DEF Stream!IInv, StreamInSequence
<1> QED
  BY <1>1, <1>2, <1>3, PTL DEF MCSpec

(* write() keeps the invariant: seq_ is twice the number of the payload,   *)
(* and odd while the payload is replaced.                                  *)
LEMMA SeqWriterKeeps ==
  ASSUME NEW R, NEW N, NEW O, Sq(R, N, O)!IInv,
         Sq(R, N, O)!WriteOdd \/ Sq(R, N, O)!WriteValue \/ Sq(R, N, O)!WriteEven
  PROVE  Sq(R, N, O)!IInv'
<1>1. Sq(R, N, O)!Types' /\ Sq(R, N, O)!Counting' /\ qValue <= qValue' /\ qSeq <= qSeq' /\ UNCHANGED Sq(R, N, O)!rVars
  BY DEF Sq!IInv, Sq!Types, Sq!Counting, Sq!WriteOdd, Sq!WriteValue, Sq!WriteEven, Sq!rVars
<1>2. ASSUME NEW r \in R PROVE Sq(R, N, O)!Known(r)'
  BY <1>1, <1>2 DEF Sq!IInv, Sq!Known, Sq!Types, Sq!rVars
<1>3. ASSUME NEW r \in R PROVE Sq(R, N, O)!Reading(r)'
  BY <1>1, <1>3 DEF Sq!IInv, Sq!Reading, Sq!Types, Sq!Counting, Sq!WriteOdd, Sq!WriteValue,
     Sq!WriteEven, Sq!rVars
<1> QED
  BY <1>1, <1>2, <1>3 DEF Sq!IInv

(* read() keeps it: what a reader loads is not older than what it knows.   *)
LEMMA SeqReaderKeeps ==
  ASSUME NEW R, NEW N, NEW O, Sq(R, N, O)!IInv, NEW r \in R, Sq(R, N, O)!ReadStep(r)
  PROVE  Sq(R, N, O)!IInv'
<1>0. /\ Sq(R, N, O)!Types /\ Sq(R, N, O)!Counting /\ Sq(R, N, O)!Known(r) /\ Sq(R, N, O)!Reading(r)
      /\ {qS1[r], qCopy[r], qSeqKnown[r], qValueKnown[r], qAtCall[r], qGot[r]} \subseteq Nat
  BY DEF Sq!IInv, Sq!Types
<1>1. UNCHANGED Sq(R, N, O)!wVars /\ Sq(R, N, O)!Counting'
  BY DEF Sq!IInv, Sq!ReadStep, Sq!Call, Sq!LoadFirst, Sq!LoadValue, Sq!LoadSecond, Sq!Counting, Sq!wVars
<1>2. \A u \in R \ {r} : Sq(R, N, O)!Known(u)' /\ Sq(R, N, O)!Reading(u)'
  BY <1>1 DEF Sq!IInv, Sq!Types, Sq!Known, Sq!Reading, Sq!ReadStep, Sq!Call, Sq!LoadFirst,
     Sq!LoadValue, Sq!LoadSecond, Sq!Goto, Sq!wVars
<1>3. CASE Sq(R, N, O)!Call(r)
  <2>1. Sq(R, N, O)!Types' /\ qAtCall'[r] = Sq(R, N, O)!Published
    BY <1>0, <1>3 DEF Sq!Types, Sq!Call, Sq!Goto, Sq!Published, Sq!wVars
  <2>2. 2 * Sq(R, N, O)!Published <= qSeq
    BY <1>0 DEF Sq!Published, Sq!Types
  <2>3. Sq(R, N, O)!Known(r)' /\ Sq(R, N, O)!Reading(r)'
    BY <1>0, <1>1, <1>3, <2>1, <2>2 DEF Sq!Call, Sq!Goto, Sq!Known, Sq!Reading, Sq!Types, Sq!wVars
  <2> QED
    BY <1>1, <1>2, <2>1, <2>3 DEF Sq!IInv
<1>4. CASE Sq(R, N, O)!LoadFirst(r)
  <2>1. PICK s \in Sq(R, N, O)!Visible(qSeqKnown[r], qSeq) :
       /\ qS1' = [qS1 EXCEPT ![r] = s]
       /\ qSeqKnown' = [qSeqKnown EXCEPT ![r] = s]
       /\ qValueKnown' = [qValueKnown EXCEPT ![r] = IF s % 2 = 0 THEN Sq(R, N, O)!Later(@, s \div 2) ELSE @]
       /\ Sq(R, N, O)!Goto(r, IF s % 2 = 1 THEN "first" ELSE "copy")
    BY <1>4 DEF Sq!LoadFirst
  <2>2. s \in Nat /\ s <= qSeq
    BY <1>0 DEF Sq!Visible, Sq!Types, Sq!Known
  <2>3. /\ qValueKnown'[r] \in Nat /\ qValueKnown[r] <= qValueKnown'[r] /\ qValueKnown'[r] <= qValue
        /\ s % 2 = 0 => s <= 2 * qValueKnown'[r]
    BY <1>0, <2>1, <2>2 DEF Sq!Later, Sq!Known, Sq!Counting, Sq!Types
  <2>4. Sq(R, N, O)!Types'
    BY <1>0, <1>1, <1>4, <2>1, <2>2, <2>3 DEF Sq!Types, Sq!LoadFirst, Sq!Goto, Sq!wVars
  <2>5. Sq(R, N, O)!Known(r)' /\ Sq(R, N, O)!Reading(r)'
    BY <1>0, <1>1, <1>4, <2>1, <2>2, <2>3 DEF Sq!LoadFirst, Sq!Goto, Sq!Known, Sq!Reading,
       Sq!Types, Sq!wVars
  <2> QED
    BY <1>1, <1>2, <2>4, <2>5 DEF Sq!IInv
<1>5. CASE Sq(R, N, O)!LoadValue(r)
  <2>1. PICK v \in Sq(R, N, O)!Visible(qValueKnown[r], qValue) :
       /\ qCopy' = [qCopy EXCEPT ![r] = v]
       /\ qValueKnown' = [qValueKnown EXCEPT ![r] = v]
    BY <1>5 DEF Sq!LoadValue
  <2>2. v \in Nat /\ qValueKnown[r] <= v /\ v <= qValue /\ (O => v = qValue)
    BY <1>0 DEF Sq!Visible, Sq!Types, Sq!Known
  <2>3. Sq(R, N, O)!Types'
    BY <1>0, <1>1, <1>5, <2>1, <2>2 DEF Sq!Types, Sq!LoadValue, Sq!Goto, Sq!wVars
  <2>4. Sq(R, N, O)!Known(r)' /\ Sq(R, N, O)!Reading(r)'
    BY <1>0, <1>1, <1>5, <2>1, <2>2 DEF Sq!LoadValue, Sq!Goto, Sq!Known, Sq!Reading, Sq!Types, Sq!wVars
  <2> QED
    BY <1>1, <1>2, <2>3, <2>4 DEF Sq!IInv
<1>6. CASE Sq(R, N, O)!LoadSecond(r)
  <2>1. PICK s \in Sq(R, N, O)!Visible(qSeqKnown[r], qSeq) :
       /\ qSeqKnown' = [qSeqKnown EXCEPT ![r] = s]
       /\ \/ s = qS1[r] /\ qGot' = [qGot EXCEPT ![r] = qCopy[r]] /\ Sq(R, N, O)!Goto(r, "idle")
          \/ s # qS1[r] /\ UNCHANGED qGot /\ Sq(R, N, O)!Goto(r, "first")
    BY <1>6 DEF Sq!LoadSecond
  <2>2. s \in Nat /\ s <= qSeq
    BY <1>0 DEF Sq!Visible, Sq!Types, Sq!Known
  <2>3. Sq(R, N, O)!Types'
    BY <1>0, <1>1, <1>6, <2>1, <2>2 DEF Sq!Types, Sq!LoadSecond, Sq!Goto, Sq!wVars
  <2>4. Sq(R, N, O)!Known(r)' /\ Sq(R, N, O)!Reading(r)'
    BY <1>0, <1>1, <1>6, <2>1, <2>2 DEF Sq!LoadSecond, Sq!Goto, Sq!Known, Sq!Reading, Sq!Types, Sq!wVars
  <2> QED
    BY <1>1, <1>2, <2>3, <2>4 DEF Sq!IInv
<1> QED
  BY <1>3, <1>4, <1>5, <1>6 DEF Sq!ReadStep

(* Every step keeps IInv.                                                  *)
LEMMA SeqInductive ==
  ASSUME NEW R, NEW N, NEW O
  PROVE  Sq(R, N, O)!IInv /\ [Sq(R, N, O)!Next]_(Sq(R, N, O)!vars) => Sq(R, N, O)!IInv'
<1>1. Sq(R, N, O)!IInv /\ UNCHANGED Sq(R, N, O)!vars => Sq(R, N, O)!IInv'
  BY DEF Sq!IInv, Sq!Types, Sq!Counting, Sq!Known, Sq!Reading, Sq!vars, Sq!wVars, Sq!rVars
<1> QED
  BY <1>1, SeqWriterKeeps, SeqReaderKeeps DEF Sq!Next

(* A read() that returns has seen the same even count before and after its *)
(* copy. Where stores are seen in order no write() came between, so the    *)
(* copy is the payload of that count; elsewhere it may be a later one.     *)
LEMMA SeqReturned ==
  ASSUME NEW R, NEW N, NEW O
  PROVE  Sq(R, N, O)!IInv /\ [Sq(R, N, O)!Next]_(Sq(R, N, O)!vars) => Sq(R, N, O)!SnapshotsCurrent
<1> SUFFICES ASSUME Sq(R, N, O)!IInv, [Sq(R, N, O)!Next]_(Sq(R, N, O)!vars), NEW r \in R, Sq(R, N, O)!Returns(r)
             PROVE  /\ qGot'[r] >= qGot[r] /\ qGot'[r] >= qS1[r] \div 2
                    /\ O => qGot'[r] \in qAtCall[r] .. Sq(R, N, O)!Published
  BY DEF Sq!SnapshotsCurrent
<1>0. /\ Sq(R, N, O)!Types /\ Sq(R, N, O)!Counting /\ Sq(R, N, O)!Known(r) /\ Sq(R, N, O)!Reading(r)
      /\ {qS1[r], qCopy[r], qSeqKnown[r], qValueKnown[r], qAtCall[r], qGot[r]} \subseteq Nat
  BY DEF Sq!IInv, Sq!Types
<1>1. Sq(R, N, O)!LoadSecond(r)
  BY <1>0 DEF Sq!Returns, Sq!Next, Sq!ReadStep, Sq!Call, Sq!LoadFirst, Sq!LoadValue, Sq!LoadSecond,
     Sq!Goto,
     Sq!WriteOdd, Sq!WriteValue, Sq!WriteEven, Sq!vars, Sq!rVars, Sq!Types
<1>2. PICK s \in Sq(R, N, O)!Visible(qSeqKnown[r], qSeq) :
         s = qS1[r] /\ qGot' = [qGot EXCEPT ![r] = qCopy[r]]
  BY <1>0, <1>1 DEF Sq!LoadSecond, Sq!Returns, Sq!Goto, Sq!Types
<1>3. qGot'[r] = qCopy[r] /\ qCopy[r] = qValueKnown[r]
  BY <1>0, <1>1, <1>2 DEF Sq!Types, Sq!Reading, Sq!LoadSecond
<1>4. qGot'[r] >= qGot[r] /\ qGot'[r] >= qS1[r] \div 2
  BY <1>0, <1>1, <1>3 DEF Sq!Known, Sq!Reading, Sq!LoadSecond
<1>5. ASSUME O PROVE qGot'[r] \in qAtCall[r] .. Sq(R, N, O)!Published
  <2>1. qSeq = qS1[r] /\ qS1[r] % 2 = 0 /\ qCopy[r] = qValue
    BY <1>0, <1>1, <1>2, <1>5 DEF Sq!Visible, Sq!Reading, Sq!LoadSecond
  <2>2. qSeq = 2 * qValue
    BY <1>0, <2>1 DEF Sq!Counting, Sq!Types
  <2> QED
    BY <1>0, <1>3, <2>1, <2>2 DEF Sq!Types, Sq!Known, Sq!Published
<1> QED
  BY <1>4, <1>5

(* Before the first write().                                               *)
LEMMA SeqInitHolds ==
  ASSUME NEW R, NEW N, NEW O
  PROVE  Sq(R, N, O)!Init => Sq(R, N, O)!IInv
  BY DEF Sq!Init, Sq!IInv, Sq!Types, Sq!Counting, Sq!Known, Sq!Reading

(* The seqlock that is active takes the step, and a seqlock at rest        *)
(* returns nothing.                                                        *)
LEMMA SeqlocksKeep ==
  ASSUME [MCNext]_mcVars
  PROVE  /\ active = "seqlock" => [Sq(TwoThreads, MaxWrites, TRUE)!Next]_(Sq(TwoThreads, MaxWrites, TRUE)!vars)
         /\ active = "weak_seqlock" => [Sq(OneThread, ManyWrites, FALSE)!Next]_(Sq(OneThread, ManyWrites, FALSE)!vars)
         /\ active' = active
<1> USE DEF MCNext, Others, mcVars, qVars
<1>1. active = "seqlock" => [Sq(TwoThreads, MaxWrites, TRUE)!Next]_(Sq(TwoThreads, MaxWrites, TRUE)!vars)
  BY DEF Sq!vars, Sq!wVars, Sq!rVars
<1>2. active = "weak_seqlock" => [Sq(OneThread, ManyWrites, FALSE)!Next]_(Sq(OneThread, ManyWrites, FALSE)!vars)
  BY DEF Sq!vars, Sq!wVars, Sq!rVars
<1> QED
  BY <1>1, <1>2

(* Seqlock::read, for any readers and any number of writes: no snapshot    *)
(* older than the last, nor than the count it saw; where stores are seen   *)
(* in order, none older than the call and none that was not published.     *)
THEOREM SnapshotsHold == MCSpec => SeqlockSnapshots
<1> DEFINE I == /\ active = "seqlock" => Sq(TwoThreads, MaxWrites, TRUE)!IInv
                /\ active = "weak_seqlock" => Sq(OneThread, ManyWrites, FALSE)!IInv
<1>1. MCInit => I
  BY SeqInitHolds DEF MCInit
<1>2. I /\ [MCNext]_mcVars => I'
  BY SeqlocksKeep, SeqInductive
<1>3. I /\ [MCNext]_mcVars =>
        [/\ active = "seqlock" => Sq(TwoThreads, MaxWrites, TRUE)!SnapshotsCurrent
         /\ active = "weak_seqlock" => Sq(OneThread, ManyWrites, FALSE)!SnapshotsCurrent]_qVars
  BY SeqlocksKeep, SeqReturned
<1> QED
  BY <1>1, <1>2, <1>3, PTL DEF MCSpec, SeqlockSnapshots

\* What both keep, and what is kept where a read-modify-write is a barrier.
RwInv ==
  /\ Linger!FlagInv /\ Linger!Counting
  /\ rwHidden \subseteq FewReaders \cup Writers
  /\ active # "weak_rw" => Rw!Drained

(* A store that may linger need not, and where only FewReaders come the    *)
(* others hide nothing from a writer that counts the readers.              *)
LEMMA RwLingers ==
  ASSUME Readers \cap Writers = {}, FewReaders \subseteq Readers, RwInv, [MCNext]_mcVars
  PROVE  /\ [Linger!Next]_(Linger!vars)
         /\ active # "weak_rw" => [Rw!Next]_(Rw!vars)
         /\ rwHidden' \subseteq FewReaders \cup Writers
         /\ active' = active
<1>1. active' = active /\ (active # "weak_rw" => [Rw!Next]_(Rw!vars))
  BY DEF MCNext, Others, mcVars, rwVars, Rw!vars
<1>2. ASSUME Rw!Next, rwHidden = {} PROVE Linger!Next /\ rwHidden' = {}
  <2>1. Linger!Next
    BY <1>2 DEF Rw!Next, Linger!Next, Rw!AwaitNoWriter, Linger!AwaitNoWriter,
       Rw!ReadStep, Linger!ReadStep, Rw!CountIn, Linger!CountIn, Rw!Recheck,
       Linger!Recheck, Rw!CountOut, Linger!CountOut, Rw!TakeFlag,
       Linger!TakeFlag, Rw!WriteStep, Linger!WriteStep, Rw!Drain,
       Linger!Drain, Rw!ClearFlag, Linger!ClearFlag, Rw!Settle,
       Linger!Settle, Rw!Lockers, Linger!Lockers, Rw!SeenWriter,
       Linger!SeenWriter, Rw!SeenReaders, Linger!SeenReaders,
       Rw!Cardinality, Linger!Cardinality, Rw!Goto, Linger!Goto, Rw!Hide,
       Linger!Hide
  <2> QED
    BY <1>2, <2>1 DEF Rw!Next, Rw!AwaitNoWriter, Rw!ReadStep, Rw!CountIn,
       Rw!Recheck, Rw!CountOut, Rw!TakeFlag, Rw!WriteStep, Rw!Drain,
       Rw!ClearFlag, Rw!Settle, Rw!Hide
<1>3. ASSUME WeakRw!Next PROVE Linger!Next /\ rwHidden' \subseteq FewReaders \cup Writers
  <2>1. FewReaders \cap rwHidden = Readers \cap rwHidden
    BY DEF RwInv
  <2>2. WeakRw!SeenReaders = Linger!SeenReaders
    BY <2>1 DEF WeakRw!SeenReaders, Linger!SeenReaders, WeakRw!Cardinality,
       Linger!Cardinality
  <2>3. Linger!Next
    BY <1>3, <2>2 DEF WeakRw!Next, Linger!Next, WeakRw!AwaitNoWriter,
       Linger!AwaitNoWriter, WeakRw!ReadStep, Linger!ReadStep,
       WeakRw!CountIn, Linger!CountIn, WeakRw!Recheck, Linger!Recheck,
       WeakRw!CountOut, Linger!CountOut, WeakRw!TakeFlag, Linger!TakeFlag,
       WeakRw!WriteStep, Linger!WriteStep, WeakRw!Drain, Linger!Drain,
       WeakRw!ClearFlag, Linger!ClearFlag, WeakRw!Settle, Linger!Settle,
       WeakRw!Lockers, Linger!Lockers, WeakRw!SeenWriter,
       Linger!SeenWriter, WeakRw!Goto, Linger!Goto, WeakRw!Hide,
       Linger!Hide
  <2> QED
    BY <1>3, <2>3 DEF RwInv, WeakRw!Next, WeakRw!AwaitNoWriter,
       WeakRw!ReadStep, WeakRw!CountIn, WeakRw!Recheck, WeakRw!CountOut,
       WeakRw!TakeFlag, WeakRw!WriteStep, WeakRw!Drain, WeakRw!ClearFlag,
       WeakRw!Settle, WeakRw!Hide, WeakRw!Lockers
<1>4. CASE UNCHANGED rwVars
  BY <1>1, <1>4 DEF RwInv, rwVars, Linger!vars
<1>5. CASE active = "rw" /\ Rw!Next
  <2>1. rwHidden = {}
    BY <1>5 DEF RwInv, Rw!Drained
  <2> QED
    BY <1>1, <1>2, <1>5, <2>1
<1>6. CASE active = "weak_rw" /\ WeakRw!Next
  BY <1>1, <1>3, <1>6
<1> QED
  BY <1>4, <1>5, <1>6 DEF MCNext, Others, mcVars

(* The two views of the lock agree on what is kept.                        *)
LEMMA RwAgrees ==
  /\ Linger!FlagInv <=> Rw!FlagInv
  /\ Linger!Counting <=> Rw!Counting
<1>1. Linger!FlagInv <=> Rw!FlagInv
  BY DEF Linger!FlagInv, Rw!FlagInv, Linger!WritersExclude,
     Rw!WritersExclude, Linger!ReaderAt, Rw!ReaderAt, Linger!WriterAt,
     Rw!WriterAt, Linger!Lockers, Rw!Lockers
<1>2. Linger!Counting <=> Rw!Counting
  BY DEF Linger!Counting, Rw!Counting, Linger!Cardinality, Rw!Cardinality,
     Linger!Counted, Rw!Counted, Linger!Lockers, Rw!Lockers
<1> QED
  BY <1>1, <1>2

(* RWSpinLock and SpinLock, for any writers and finitely many readers: a   *)
(* writer is alone where a read-modify-write is a full barrier, writers    *)
(* exclude each other and readers_ does not wrap also where stores linger. *)
THEOREM LocksExclude ==
  ASSUME IsFiniteSet(Readers), Readers \cap Writers = {}, FewReaders \subseteq Readers
  PROVE  MCSpec => []SpinLocksExclude
<1> DEFINE I == RwInv /\ Spinning!IInv
<1>0. Rw!IsFiniteSet(Readers) /\ Linger!IsFiniteSet(Readers)
  BY DEF Rw!IsFiniteSet, Linger!IsFiniteSet, IsFiniteSet
<1>1. MCInit => I
  <2> SUFFICES ASSUME MCInit PROVE I
    OBVIOUS
  <2>1. Rw!Init /\ Spinning!Init
    BY DEF MCInit
  <2>2. Rw!FlagInv /\ Rw!Counting /\ Rw!Drained /\ rwHidden = {}
    BY <2>1, RwInitHolds DEF Rw!Init
  <2> QED
    BY <2>1, <2>2, RwAgrees, SpinInitHolds DEF RwInv
<1>2. I /\ [MCNext]_mcVars => I'
  <2> SUFFICES ASSUME I, [MCNext]_mcVars PROVE I'
    OBVIOUS
  <2>1. Spinning!IInv'
    BY OneActs, SpinInductive
  <2>2. /\ [Linger!Next]_(Linger!vars)
        /\ active # "weak_rw" => [Rw!Next]_(Rw!vars)
        /\ rwHidden' \subseteq FewReaders \cup Writers
        /\ active' = active
    BY RwLingers
  <2>3. Linger!FlagInv' /\ Linger!Counting'
    BY <1>0, <2>2, RwFlagKept, RwCountKept DEF RwInv
  <2>4. active # "weak_rw" => Rw!Drained'
    BY <1>0, <2>2, RwAgrees, RwDrainKept DEF RwInv
  <2> QED
    BY <2>1, <2>2, <2>3, <2>4 DEF RwInv
<1>3. I => SpinLocksExclude
  <2> SUFFICES ASSUME I PROVE SpinLocksExclude
    OBVIOUS
  <2>1. Rw!FlagInv /\ Rw!Counting /\ (active # "weak_rw" => Rw!Drained)
    BY RwAgrees DEF RwInv
  <2>2. Rw!TypeOK /\ Rw!WritersExclude
    BY <1>0, <2>1, RwTypesImplied DEF Rw!FlagInv
  <2>3. active = "rw" => Rw!WriterExclusive
    BY <2>1, RwExclusionImplied
  <2> QED
    BY <2>2, <2>3 DEF SpinLocksExclude, Spinning!IInv
<1> QED
  BY <1>1, <1>2, <1>3, PTL DEF MCSpec
=============================================================================
