--------------------------- MODULE ContainerProofs --------------------------
(***************************************************************************)
(* The proofs of what MCLibrary checks of the bounded queue, the stack,    *)
(* the hash map and the LRU cache, and of the timers and the feed with     *)
(* their callbacks.                                                        *)
(***************************************************************************)
EXTENDS Integers, Sequences, FiniteSets, FiniteSetTheorems,
        SequenceTheorems, WellFoundedInduction, NaturalsInduction, TLAPS

CONSTANTS
  Producers, Consumers, RingSize, PerProducer,
  StackThreads, MaxNodes,
  MapKeys, MapValues, kEmpty, kTombstone, InitialCapacity, MaxCapacity,
    TombstoneWrap,
  MaxTimers, MaxTicks,
  Publishers, FeedSymbols, kAnySymbol, MaxObservers, MaxEvents,
  CacheSize, CacheKeys, CacheValues, NoNode

VARIABLES
  mHead, mTail, mValue, mSeq, mPc, mPos, mSent, mLog, mGot,
  kHead, kNext, kRetired, kMade, kPc, kNode, kCur, kNxt,
  hNodes, hSize, hTombstones,
  tNow, tNextId, tPq, tPending, tDone, tDeadline, tPc, tDue, tFired,
    tCancelled, tFresh,
  fSlots, fNextId, fPc, fEvent, fSnapshot, fStarted, fGone, fNotified,
  lruOrder, lruItem, lruMap, lruRecent, lruNewest

-----------------------------------------------------------------------------
(* Numbers and sequences.                                                  *)

(* A set of numbers that is not empty has a least one.                     *)
LEMMA LeastNat ==
  ASSUME NEW T \in SUBSET Nat, T # {} 
  PROVE  \E x \in T : \A y \in T : x <= y
<1> DEFINE R == OpToRel(<, Nat)
<1>1. IsWellFoundedOn(R, Nat)
  BY NatLessThanWellFounded
<1>2. \A x, y \in Nat : y < x => <<y, x>> \in R
  BY DEF OpToRel
<1> HIDE DEF R
<1>3. PICK x \in T : \A y \in T : ~ (<<y, x>> \in R)
  BY <1>1, WFMin
<1>4. ASSUME NEW y \in T PROVE x <= y
  <2>1. x \in Nat /\ y \in Nat
    OBVIOUS
  <2>2. ~(y < x)
    BY <2>1, <1>2, <1>3, Zenon
  <2> QED
    BY <2>1, <2>2
<1> QED
  BY <1>4

(* The one chosen as the least of a set of numbers is one of them.         *)
LEMMA LeastIn ==
  ASSUME NEW T, T \subseteq Nat, T # {}
  PROVE  (CHOOSE x \in T : \A y \in T : x <= y) \in T
BY LeastNat

(* A sequence without its i-th element.                                    *)
LEMMA Spliced ==
  ASSUME NEW S, NEW s \in Seq(S), NEW i \in 1 .. Len(s)
  PROVE  /\ (SubSeq(s, 1, i - 1) \o SubSeq(s, i + 1, Len(s))) \in Seq(S)
         /\ Len((SubSeq(s, 1, i - 1) \o SubSeq(s, i + 1, Len(s)))) = Len(s) - 1
         /\ \A k \in 1 .. Len(s) - 1 : (SubSeq(s, 1, i - 1) \o SubSeq(s, i + 1, Len(s)))[k] = IF k < i THEN s[k] ELSE s[k + 1]
<1>. DEFINE a == SubSeq(s, 1, i - 1)
            b == SubSeq(s, i + 1, Len(s))
<1>1. a \in Seq(S) /\ Len(a) = i - 1 /\ \A k \in 1 .. i - 1 : a[k] = s[k]
  OBVIOUS
<1>2. b \in Seq(S) /\ Len(b) = Len(s) - i /\ \A k \in 1 .. Len(s) - i : b[k] = s[k + i]
  OBVIOUS
<1>. HIDE DEF a, b
<1>3. /\ a \o b \in Seq(S) /\ Len(a \o b) = Len(s) - 1
      /\ \A k \in 1 .. Len(s) - 1 : (a \o b)[k] = IF k < i THEN s[k] ELSE s[k + 1]
  <2>1. a \o b \in Seq(S)
    BY <1>1, <1>2
  <2>2. Len(a \o b) = Len(s) - 1
    BY <1>1, <1>2
  <2>3. ASSUME NEW k \in 1 .. Len(s) - 1
        PROVE  (a \o b)[k] = IF k < i THEN s[k] ELSE s[k + 1]
    <3>1. CASE k < i
      BY <1>1, <1>2, <3>1
    <3>2. CASE ~(k < i)
      <4>1. k - (i - 1) \in 1 .. Len(s) - i /\ k - (i - 1) + i = k + 1
        BY <3>2
      <4>2. (a \o b)[k] = b[k - (i - 1)]
        BY <1>1, <1>2, <3>2
      <4>. QED BY <4>1, <4>2, <3>2, <1>2
    <3>. QED BY <3>1, <3>2
  <2>. QED BY <2>1, <2>2, <2>3
<1>. QED BY <1>3 DEF a, b

-----------------------------------------------------------------------------
(* MpmcQueue.                                                              *)

Mpmc == INSTANCE MpmcQueue WITH Capacity <- RingSize,
        MaxPush <- PerProducer, head_ <- mHead, tail_ <- mTail,
        value <- mValue, seq <- mSeq, pc <- mPc, pos <- mPos, sent <- mSent,
        log <- mLog, got <- mGot

(* Positions with one slot are Capacity apart.                             *)
LEMMA MpmcCellsApart ==
  ASSUME Mpmc!Sized, NEW q \in Nat, NEW r \in Nat, q < r, Mpmc!Cell(q) = Mpmc!Cell(r)
  PROVE  r - q >= RingSize
<1>0. RingSize \in Nat /\ RingSize > 0
  BY DEF Mpmc!Sized
<1>1. q = RingSize * (q \div RingSize) + (q % RingSize) /\ r = RingSize * (r \div RingSize) + (r % RingSize)
  BY <1>0
<1> DEFINE a == q \div RingSize  b == r \div RingSize
<1>2. a \in Int /\ b \in Int
  BY <1>0
<1> HIDE DEF a, b
<1>3. r - q = RingSize * (b - a)
  BY <1>0, <1>1, <1>2 DEF a, b, Mpmc!Cell
<1>4. b - a >= 1 \/ b - a <= 0
  BY <1>2
<1> QED
  BY <1>0, <1>2, <1>3, <1>4

(* A slot serves the position Capacity later next.                         *)
LEMMA MpmcCellAgain ==
  ASSUME Mpmc!Sized, NEW q \in Nat
  PROVE  Mpmc!Cell(q + RingSize) = Mpmc!Cell(q) /\ Mpmc!Cell(q) \in Mpmc!Indices
<1>0. RingSize \in Nat /\ RingSize > 0
  BY DEF Mpmc!Sized
<1>1. Mpmc!Cell(q) \in Mpmc!Indices /\ Mpmc!Cell(q + RingSize) \in Mpmc!Indices
  BY <1>0 DEF Mpmc!Cell, Mpmc!Indices
<1> DEFINE r == q + RingSize
<1>2. q = RingSize * (q \div RingSize) + (q % RingSize) /\ r = RingSize * (r \div RingSize) + (r % RingSize)
  BY <1>0
<1> DEFINE a == q \div RingSize  b == r \div RingSize  x == q % RingSize  y == r % RingSize
<1>3. a \in Int /\ b \in Int /\ x \in 0 .. RingSize - 1 /\ y \in 0 .. RingSize - 1
  BY <1>0
<1> HIDE DEF a, b, x, y
<1>4. y - x = RingSize * ((a + 1) - b)
  BY <1>0, <1>2, <1>3 DEF a, b, x, y
<1>5. (a + 1) - b >= 1 \/ (a + 1) - b <= -1 \/ (a + 1) - b = 0
  BY <1>3
<1>6. y = x
  BY <1>0, <1>3, <1>4, <1>5
<1> QED
  BY <1>1, <1>6 DEF Mpmc!Cell, x, y

(* The types, and how far apart the counters are.                          *)
LEMMA MpmcBasics ==
  ASSUME Mpmc!Sized, Mpmc!IInv
  PROVE  /\ RingSize \in Nat /\ RingSize >= 2
         /\ mHead \in Nat /\ mTail \in Nat /\ mHead <= mTail /\ mTail <= mHead + RingSize
         /\ \A t \in Mpmc!Threads : mPos[t] \in Nat /\ Mpmc!Cell(mPos[t]) \in Mpmc!Indices
         /\ \A i \in Mpmc!Indices : mSeq[i] \in Nat
         /\ Len(mLog) = mTail
         /\ Producers \subseteq Mpmc!Threads /\ Consumers \subseteq Mpmc!Threads
<1>1. /\ RingSize \in Nat /\ RingSize >= 2
      /\ mHead \in Nat /\ mTail \in Nat /\ mHead <= mTail /\ mTail <= mHead + RingSize
  BY DEF Mpmc!Sized, Mpmc!IInv, Mpmc!TypeOK, Mpmc!CapacityRespected
<1>2. \A t \in Mpmc!Threads : mPos[t] \in Nat
  BY DEF Mpmc!IInv, Mpmc!TypeOK
<1>3. \A i \in Mpmc!Indices : mSeq[i] \in Nat
  BY DEF Mpmc!IInv, Mpmc!TypeOK
<1> QED
  BY <1>1, <1>2, <1>3, MpmcCellAgain DEF Mpmc!IInv, Mpmc!Threads

(* The claims are of different positions less than Capacity apart, so of   *)
(* different slots.                                                        *)
LEMMA MpmcExclusive == ASSUME Mpmc!Sized, Mpmc!IInv PROVE Mpmc!SlotExclusive
<1> SUFFICES ASSUME NEW t \in Mpmc!Inside, NEW u \in Mpmc!Inside, Mpmc!Cell(mPos[t]) = Mpmc!Cell(mPos[u])
             PROVE  t = u
  BY DEF Mpmc!SlotExclusive
<1> DEFINE Push == {"write", "publish"}
           Pop == {"read", "recycle"}
<1>0. /\ t \in Mpmc!Threads /\ u \in Mpmc!Threads
      /\ (t \in Producers /\ mPc[t] \in Push) \/ (t \in Consumers /\ mPc[t] \in Pop)
      /\ (u \in Producers /\ mPc[u] \in Push) \/ (u \in Consumers /\ mPc[u] \in Pop)
  BY DEF Mpmc!IInv, Mpmc!Roles, Mpmc!Inside, Mpmc!Threads
<1>1. CASE t \in Producers /\ mPc[t] \in Push /\ u \in Producers /\ mPc[u] \in Push
  <2>1. mPos[t] = mPos[u]
    BY <1>1 DEF Mpmc!IInv, Mpmc!Pushing
  <2> QED
    BY <1>1, <2>1 DEF Mpmc!IInv, Mpmc!Claims
<1>2. CASE t \in Consumers /\ mPc[t] \in Pop /\ u \in Consumers /\ mPc[u] \in Pop
  <2>1. mPos[t] + 1 = mPos[u] + 1
    BY <1>2 DEF Mpmc!IInv, Mpmc!Popping
  <2>2. mPos[t] = mPos[u]
    BY <1>0, <2>1, MpmcBasics
  <2> QED
    BY <1>2, <2>2 DEF Mpmc!IInv, Mpmc!Claims
<1>3. ASSUME NEW p \in Producers, NEW c \in Consumers, mPc[p] \in Push, mPc[c] \in Pop,
             Mpmc!Cell(mPos[p]) = Mpmc!Cell(mPos[c])
      PROVE  FALSE
  <2>1. mPos[p] = mPos[c] + 1
    BY <1>3 DEF Mpmc!IInv, Mpmc!Pushing, Mpmc!Popping
  <2>2. mPos[c] \in Nat /\ mPos[p] \in Nat /\ RingSize \in Nat /\ RingSize >= 2
    BY MpmcBasics
  <2> QED
    BY <1>3, <2>1, <2>2, MpmcCellsApart
<1> QED
  BY <1>0, <1>1, <1>2, <1>3

(* A step that only changes the pc and the pos of thread t keeps what the  *)
(* others know.                                                            *)
LEMMA MpmcLocalKeeps ==
  ASSUME Mpmc!Sized, Mpmc!IInv, NEW t \in Mpmc!Threads,
         UNCHANGED <<mHead, mTail, mValue, mSeq, mSent, mLog, mGot>>,
         \A u \in Mpmc!Threads \ {t} : mPc'[u] = mPc[u] /\ mPos'[u] = mPos[u],
         Mpmc!TypeOK', Mpmc!Roles', mPc'[t] \in {"idle", "load", "seq", "cas"},
         t \in Producers => Mpmc!Pushing(t)',
         t \in Consumers => Mpmc!Popping(t)'
  PROVE  Mpmc!IInv'
<1>1. Mpmc!Slots' /\ Mpmc!CapacityRespected' /\ Len(mLog)' = mTail' /\ Mpmc!Delivered'
  BY DEF Mpmc!IInv, Mpmc!Slots, Mpmc!CapacityRespected, Mpmc!Delivered, Mpmc!Cell
<1>2. \A p \in Producers : Mpmc!Pushing(p)'
  BY DEF Mpmc!IInv, Mpmc!Pushing, Mpmc!Threads, Mpmc!Cell
<1>3. \A c \in Consumers : Mpmc!Popping(c)'
  BY DEF Mpmc!IInv, Mpmc!Popping, Mpmc!Threads, Mpmc!Cell
<1>4. Mpmc!Claims'
  BY DEF Mpmc!IInv, Mpmc!Claims, Mpmc!Threads
<1> QED
  BY <1>1, <1>2, <1>3, <1>4 DEF Mpmc!IInv

(* The loads of push() and a CAS that fails: what a producer knows of the  *)
(* slot before its CAS holds as long as tail_ is what it loaded.           *)
LEMMA MpmcPushLocalKeeps ==
  ASSUME Mpmc!Sized, Mpmc!IInv, NEW p \in Producers, Mpmc!LoadTail(p) \/ Mpmc!CheckFree(p) \/ Mpmc!ClaimTailFails(p)
  PROVE  Mpmc!IInv'
<1>0. /\ p \in Mpmc!Threads /\ p \notin Consumers /\ mPos \in [Mpmc!Threads -> Nat]
      /\ mPc \in [Mpmc!Threads -> {"idle", "load", "seq", "cas", "write", "publish", "read", "recycle"}]
      /\ mTail \in Nat /\ Mpmc!Pushing(p) /\ mPos[p] \in Nat
  BY DEF Mpmc!Sized, Mpmc!IInv, Mpmc!TypeOK, Mpmc!Threads
<1>1. /\ UNCHANGED <<mHead, mTail, mValue, mSeq, mSent, mLog, mGot>>
      /\ \A u \in Mpmc!Threads \ {p} : mPc'[u] = mPc[u] /\ mPos'[u] = mPos[u]
      /\ mPc'[p] \in {"load", "seq", "cas"} /\ mSent[p] < PerProducer
      /\ mPos'[p] = mTail \/ (mPos'[p] = mPos[p] /\ (mPc'[p] = "cas" => mSeq[Mpmc!Cell(mPos[p])] = mPos[p]))
      /\ mPc'[p] = "cas" => mPos'[p] = mPos[p]
      /\ mPos' \in [Mpmc!Threads -> Nat]
      /\ mPc' \in [Mpmc!Threads -> {"idle", "load", "seq", "cas", "write", "publish", "read", "recycle"}]
  BY <1>0 DEF Mpmc!LoadTail, Mpmc!CheckFree, Mpmc!ClaimTailFails, Mpmc!Goto, Mpmc!IInv, Mpmc!Roles
<1>2. Mpmc!TypeOK'
  BY <1>1 DEF Mpmc!IInv, Mpmc!TypeOK
<1>3. Mpmc!Roles'
  BY <1>0, <1>1 DEF Mpmc!IInv, Mpmc!Roles, Mpmc!Threads
<1>4. Mpmc!Pushing(p)'
  <2>1. mPos'[p] <= mTail
    BY <1>0, <1>1 DEF Mpmc!Pushing
  <2>2. mPc'[p] = "cas" => mPos'[p] = mPos[p] /\ mSeq[Mpmc!Cell(mPos[p])] = mPos[p]
    BY <1>0, <1>1 DEF Mpmc!LoadTail, Mpmc!CheckFree, Mpmc!ClaimTailFails, Mpmc!Goto
  <2> QED
    BY <1>1, <2>1, <2>2 DEF Mpmc!Pushing, Mpmc!Cell
<1> QED
  BY <1>0, <1>1, <1>2, <1>3, <1>4, MpmcLocalKeeps

(* The same of try_pop() and head_.                                        *)
LEMMA MpmcPopLocalKeeps ==
  ASSUME Mpmc!Sized, Mpmc!IInv, NEW c \in Consumers, Mpmc!LoadHead(c) \/ Mpmc!CheckFilled(c) \/ Mpmc!ClaimHeadFails(c)
  PROVE  Mpmc!IInv'
<1>0. /\ c \in Mpmc!Threads /\ c \notin Producers /\ mPos \in [Mpmc!Threads -> Nat]
      /\ mPc \in [Mpmc!Threads -> {"idle", "load", "seq", "cas", "write", "publish", "read", "recycle"}]
      /\ mHead \in Nat /\ Mpmc!Popping(c) /\ mPos[c] \in Nat /\ mSeq[Mpmc!Cell(mPos[c])] \in Nat
  BY MpmcBasics DEF Mpmc!Sized, Mpmc!IInv, Mpmc!TypeOK, Mpmc!Threads
<1>1. /\ UNCHANGED <<mHead, mTail, mValue, mSeq, mSent, mLog, mGot>>
      /\ \A u \in Mpmc!Threads \ {c} : mPc'[u] = mPc[u] /\ mPos'[u] = mPos[u]
      /\ mPc'[c] \in {"idle", "load", "seq", "cas"}
      /\ mPos'[c] \in {mPos[c], mHead}
      /\ mPos' \in [Mpmc!Threads -> Nat]
      /\ mPc' \in [Mpmc!Threads -> {"idle", "load", "seq", "cas", "write", "publish", "read", "recycle"}]
  BY <1>0 DEF Mpmc!LoadHead, Mpmc!CheckFilled, Mpmc!ClaimHeadFails, Mpmc!Goto
<1>2. Mpmc!TypeOK'
  BY <1>1 DEF Mpmc!IInv, Mpmc!TypeOK
<1>3. Mpmc!Roles'
  BY <1>0, <1>1 DEF Mpmc!IInv, Mpmc!Roles, Mpmc!Threads
<1>4. Mpmc!Popping(c)'
  <2>1. mPos'[c] <= mHead
    BY <1>0, <1>1 DEF Mpmc!Popping
  <2>2. mPc'[c] = "cas" => mPos'[c] = mPos[c] /\ mSeq[Mpmc!Cell(mPos[c])] = mPos[c] + 1
    BY <1>0, <1>1 DEF Mpmc!LoadHead, Mpmc!CheckFilled, Mpmc!ClaimHeadFails, Mpmc!Goto
  <2> QED
    BY <1>1, <2>1, <2>2 DEF Mpmc!Popping, Mpmc!Cell
<1> QED
  BY <1>0, <1>1, <1>2, <1>3, <1>4, MpmcLocalKeeps

(* The CAS on tail_: the position is nobody's, and its slot, recycled, the *)
(* producer's until it publishes.                                          *)
LEMMA MpmcClaimTailKeeps ==
  ASSUME Mpmc!Sized, Mpmc!IInv, NEW p \in Producers, Mpmc!ClaimTail(p)
  PROVE  Mpmc!IInv'
<1>0. /\ p \in Mpmc!Threads /\ p \notin Consumers /\ mPos \in [Mpmc!Threads -> Nat]
      /\ mPc \in [Mpmc!Threads -> {"idle", "load", "seq", "cas", "write", "publish", "read", "recycle"}]
      /\ mSent \in [Producers -> 0 .. PerProducer] /\ mLog \in Seq(Mpmc!Items) /\ PerProducer \in Nat
      /\ mSent[p] < PerProducer /\ mPos[p] = mTail /\ mSeq[Mpmc!Cell(mTail)] = mTail
  BY DEF Mpmc!Sized, Mpmc!IInv, Mpmc!TypeOK, Mpmc!Threads, Mpmc!ClaimTail, Mpmc!Roles, Mpmc!Pushing
<1>1. /\ mTail' = mTail + 1 /\ mSent' = [mSent EXCEPT ![p] = @ + 1]
      /\ mLog' = Append(mLog, <<p, mSent[p] + 1>>) /\ mPc' = [mPc EXCEPT ![p] = "write"]
      /\ UNCHANGED <<mHead, mValue, mSeq, mPos, mGot>>
  BY <1>0 DEF Mpmc!ClaimTail, Mpmc!Goto
<1>b. /\ RingSize \in Nat /\ RingSize >= 2
      /\ mHead \in Nat /\ mTail \in Nat /\ mHead <= mTail /\ mTail <= mHead + RingSize
      /\ \A t \in Mpmc!Threads : mPos[t] \in Nat
      /\ Len(mLog) = mTail
      /\ Producers \subseteq Mpmc!Threads /\ Consumers \subseteq Mpmc!Threads
  BY MpmcBasics
<1>2. <<p, mSent[p] + 1>> \in Mpmc!Items /\ mSent'[p] = mSent[p] + 1 /\ mSent'[p] \in 1 .. PerProducer
  BY <1>0, <1>1 DEF Mpmc!Items
<1>3. /\ mLog' \in Seq(Mpmc!Items) /\ Len(mLog') = mTail'
      /\ \A i \in 1 .. mTail : mLog'[i] = mLog[i]
      /\ mLog'[mTail + 1] = <<p, mSent'[p]>>
  BY <1>0, <1>1, <1>2, <1>b
<1>4. Mpmc!TypeOK'
  <2>1. mSent' \in [Producers -> 0 .. PerProducer] /\ mTail' \in Nat
    BY <1>0, <1>1, <1>2, <1>b
  <2>2. mPc' \in [Mpmc!Threads -> {"idle", "load", "seq", "cas", "write", "publish", "read", "recycle"}]
    BY <1>0, <1>1
  <2> QED
    BY <1>1, <1>3, <2>1, <2>2 DEF Mpmc!IInv, Mpmc!TypeOK
<1>5. Mpmc!Roles'
  BY <1>0, <1>1, <1>2 DEF Mpmc!IInv, Mpmc!Roles, Mpmc!Threads
<1>6. mTail < mHead + RingSize
  <2>1. SUFFICES ASSUME mTail = mHead + RingSize PROVE FALSE
    BY <1>b
  <2>2. Mpmc!Cell(mTail) = Mpmc!Cell(mHead) /\ mHead \in mHead .. mTail - 1
    BY <1>b, <2>1, MpmcCellAgain
  <2>3. mTail = mHead \/ mTail = mHead + 1
    BY <1>0, <2>2 DEF Mpmc!IInv, Mpmc!Slots
  <2> QED
    BY <1>b, <2>1, <2>3
<1>7. Mpmc!Slots'
  <2>1. ASSUME NEW q \in mHead .. mTail' - 1
        PROVE  mSeq[Mpmc!Cell(q)] = q \/ (mSeq[Mpmc!Cell(q)] = q + 1 /\ mValue[Mpmc!Cell(q)] = mLog'[q + 1])
    <3>1. CASE q = mTail
      BY <1>0, <3>1
    <3>2. CASE q \in mHead .. mTail - 1
      BY <1>3, <1>b, <3>2 DEF Mpmc!IInv, Mpmc!Slots
    <3> QED
      BY <1>1, <1>b, <3>1, <3>2
  <2>2. ASSUME NEW q \in mTail' .. mHead + RingSize - 1
        PROVE  mSeq[Mpmc!Cell(q)] \in {q, q - RingSize + 1}
    BY <1>1, <1>b DEF Mpmc!IInv, Mpmc!Slots
  <2> QED
    BY <1>1, <2>1, <2>2 DEF Mpmc!Slots, Mpmc!Cell
<1>8. ASSUME NEW r \in Producers PROVE Mpmc!Pushing(r)'
  <2>1. Mpmc!Pushing(r) /\ mPos[r] \in Nat
    BY <1>b DEF Mpmc!IInv
  <2>2. CASE r = p
    BY <1>0, <1>1, <1>3, <1>b, <2>2 DEF Mpmc!Pushing, Mpmc!Cell
  <2>3. CASE r # p
    <3>1. mPc'[r] = mPc[r] /\ mSent'[r] = mSent[r] /\ mPos'[r] = mPos[r]
      BY <1>0, <1>1, <1>b, <2>3
    <3>2. mPos[r] <= mTail /\ mPos[r] # mTail'
      BY <1>1, <1>b, <2>1 DEF Mpmc!Pushing
    <3>3. mPos[r] < mTail => mLog'[mPos[r] + 1] = mLog[mPos[r] + 1]
      BY <1>3, <1>b, <2>1
    <3> QED
      BY <1>1, <1>b, <2>1, <3>1, <3>2, <3>3 DEF Mpmc!Pushing, Mpmc!Cell
  <2> QED
    BY <2>2, <2>3
<1>9. ASSUME NEW c \in Consumers PROVE Mpmc!Popping(c)'
  <2>1. Mpmc!Popping(c) /\ mPos[c] \in Nat
    BY <1>b DEF Mpmc!IInv
  <2>2. mPc'[c] = mPc[c] /\ mPos'[c] = mPos[c]
    BY <1>0, <1>1, <1>b
  <2>3. ASSUME mPc[c] \in {"read", "recycle"}
        PROVE  mTail' <= mPos[c] + RingSize /\ mLog'[mPos[c] + 1] = mLog[mPos[c] + 1]
    <3>1. /\ mPos[c] < mHead /\ mTail <= mPos[c] + RingSize /\ mSeq[Mpmc!Cell(mPos[c])] = mPos[c] + 1
      BY <2>1, <2>3 DEF Mpmc!Popping
    <3>2. mTail # mPos[c] + RingSize
      <4>1. SUFFICES ASSUME mTail = mPos[c] + RingSize PROVE FALSE
        OBVIOUS
      <4>2. Mpmc!Cell(mTail) = Mpmc!Cell(mPos[c])
        BY <2>1, <4>1, MpmcCellAgain
      <4> QED
        BY <1>0, <1>b, <2>1, <3>1, <4>1, <4>2
    <3>3. mTail' <= mPos[c] + RingSize
      <4>1. mTail \in Nat /\ RingSize \in Nat /\ mPos[c] \in Nat /\ mTail' = mTail + 1
        BY <1>1, <1>b, <2>1
      <4> QED
        BY ONLY <4>1, <3>1, <3>2
    <3>4. mLog'[mPos[c] + 1] = mLog[mPos[c] + 1]
      BY <1>3, <1>b, <2>1, <3>1
    <3> QED
      BY <3>3, <3>4
  <2> QED
    BY <1>1, <2>1, <2>2, <2>3 DEF Mpmc!Popping, Mpmc!Cell
<1>10. Mpmc!Claims'
  <2>1. \A r \in Producers : mPc[r] \in {"write", "publish"} => mPos[r] # mTail
    BY <1>b DEF Mpmc!IInv, Mpmc!Pushing
  <2> QED
    BY <1>0, <1>1, <1>b, <2>1 DEF Mpmc!IInv, Mpmc!Claims
<1>11. Mpmc!Delivered'
  <2>1. ASSUME NEW g \in mGot PROVE g[1] < mHead /\ g[2] = mLog'[g[1] + 1]
    <3>1. g[1] < mHead /\ g[2] = mLog[g[1] + 1] /\ g[1] \in Nat
      BY DEF Mpmc!IInv, Mpmc!Delivered, Mpmc!TypeOK
    <3> QED
      BY <1>3, <1>b, <3>1
  <2> QED
    BY <1>1, <2>1 DEF Mpmc!Delivered
<1>12. Mpmc!CapacityRespected'
  BY <1>1, <1>6, <1>b DEF Mpmc!CapacityRespected
<1> QED
  BY <1>3, <1>4, <1>5, <1>7, <1>8, <1>9, <1>10, <1>11, <1>12 DEF Mpmc!IInv

(* The CAS on head_: the slot of the position is published and nobody      *)
(* else's.                                                                 *)
LEMMA MpmcClaimHeadKeeps ==
  ASSUME Mpmc!Sized, Mpmc!IInv, NEW c \in Consumers, Mpmc!ClaimHead(c)
  PROVE  Mpmc!IInv'
<1>0. /\ c \in Mpmc!Threads /\ c \notin Producers /\ mPos \in [Mpmc!Threads -> Nat]
      /\ mPc \in [Mpmc!Threads -> {"idle", "load", "seq", "cas", "write", "publish", "read", "recycle"}]
      /\ mPos[c] = mHead /\ mSeq[Mpmc!Cell(mHead)] = mHead + 1
  BY DEF Mpmc!Sized, Mpmc!IInv, Mpmc!TypeOK, Mpmc!Threads, Mpmc!ClaimHead, Mpmc!Roles, Mpmc!Popping
<1>1. /\ mHead' = mHead + 1 /\ mPc' = [mPc EXCEPT ![c] = "read"]
      /\ UNCHANGED <<mTail, mValue, mSeq, mPos, mSent, mLog, mGot>>
  BY <1>0 DEF Mpmc!ClaimHead, Mpmc!Goto
<1>b. /\ RingSize \in Nat /\ RingSize >= 2
      /\ mHead \in Nat /\ mTail \in Nat /\ mHead <= mTail /\ mTail <= mHead + RingSize
      /\ \A t \in Mpmc!Threads : mPos[t] \in Nat
      /\ Len(mLog) = mTail
      /\ Producers \subseteq Mpmc!Threads /\ Consumers \subseteq Mpmc!Threads
  BY MpmcBasics
<1>4. Mpmc!TypeOK'
  <2>2. mPc' \in [Mpmc!Threads -> {"idle", "load", "seq", "cas", "write", "publish", "read", "recycle"}]
    BY <1>0, <1>1
  <2> QED
    BY <1>1, <1>b, <2>2 DEF Mpmc!IInv, Mpmc!TypeOK
<1>5. Mpmc!Roles'
  BY <1>0, <1>1 DEF Mpmc!IInv, Mpmc!Roles, Mpmc!Threads
<1>6. mHead < mTail /\ mValue[Mpmc!Cell(mHead)] = mLog[mHead + 1]
  <2>1. mHead # mTail
    <3>1. SUFFICES ASSUME mHead = mTail PROVE FALSE
      OBVIOUS
    <3>2. mHead \in mTail .. mHead + RingSize - 1
      BY <1>b, <3>1
    <3>3. mSeq[Mpmc!Cell(mHead)] = mHead \/ mSeq[Mpmc!Cell(mHead)] = mHead - RingSize + 1
      BY <3>2 DEF Mpmc!IInv, Mpmc!Slots
    <3> QED
      BY <1>0, <1>b, <3>3
  <2>2. mHead \in mHead .. mTail - 1
    BY <1>b, <2>1
  <2>3. mSeq[Mpmc!Cell(mHead)] = mHead \/ mValue[Mpmc!Cell(mHead)] = mLog[mHead + 1]
    BY <2>2 DEF Mpmc!IInv, Mpmc!Slots
  <2> QED
    BY <1>0, <1>b, <2>1, <2>3
<1>7. Mpmc!Slots'
  <2>1. ASSUME NEW q \in mHead' .. mTail - 1
        PROVE  mSeq[Mpmc!Cell(q)] = q \/ (mSeq[Mpmc!Cell(q)] = q + 1 /\ mValue[Mpmc!Cell(q)] = mLog[q + 1])
    BY <1>1, <1>b DEF Mpmc!IInv, Mpmc!Slots
  <2>2. ASSUME NEW q \in mTail .. mHead' + RingSize - 1
        PROVE  mSeq[Mpmc!Cell(q)] \in {q, q - RingSize + 1}
    <3>1. CASE q = mHead + RingSize
      <4>1. Mpmc!Cell(q) = Mpmc!Cell(mHead)
        BY <1>b, <3>1, MpmcCellAgain
      <4> QED
        BY <1>0, <1>b, <3>1, <4>1
    <3>2. CASE q \in mTail .. mHead + RingSize - 1
      BY <3>2 DEF Mpmc!IInv, Mpmc!Slots
    <3> QED
      BY <1>1, <1>b, <3>1, <3>2
  <2> QED
    BY <1>1, <2>1, <2>2 DEF Mpmc!Slots, Mpmc!Cell
<1>8. ASSUME NEW r \in Producers PROVE Mpmc!Pushing(r)'
  <2>1. Mpmc!Pushing(r) /\ mPos[r] \in Nat /\ r # c /\ mPc'[r] = mPc[r]
    BY <1>0, <1>1, <1>b DEF Mpmc!IInv
  <2>2. ASSUME mPc[r] \in {"write", "publish"} PROVE mHead' <= mPos[r]
    <3>1. mHead <= mPos[r] /\ mSeq[Mpmc!Cell(mPos[r])] = mPos[r]
      BY <2>1, <2>2 DEF Mpmc!Pushing
    <3>2. mPos[r] # mHead
      BY <1>0, <1>b, <3>1
    <3> QED
      BY <1>1, <1>b, <2>1, <3>1, <3>2
  <2> QED
    BY <1>1, <2>1, <2>2 DEF Mpmc!Pushing, Mpmc!Cell
<1>9. ASSUME NEW d \in Consumers PROVE Mpmc!Popping(d)'
  <2>1. Mpmc!Popping(d) /\ mPos[d] \in Nat
    BY <1>b DEF Mpmc!IInv
  <2>2. CASE d = c
    BY <1>0, <1>1, <1>6, <1>b, <2>2 DEF Mpmc!Popping, Mpmc!Cell
  <2>3. CASE d # c
    BY <1>0, <1>1, <1>b, <2>1, <2>3 DEF Mpmc!Popping, Mpmc!Cell
  <2> QED
    BY <2>2, <2>3
<1>10. Mpmc!Claims'
  <2>1. \A d \in Consumers : mPc[d] \in {"read", "recycle"} => mPos[d] # mHead
    BY <1>b DEF Mpmc!IInv, Mpmc!Popping
  <2> QED
    BY <1>0, <1>1, <1>b, <2>1 DEF Mpmc!IInv, Mpmc!Claims
<1>11. Mpmc!Delivered'
  <2>1. ASSUME NEW g \in mGot PROVE g[1] < mHead' /\ g[2] = mLog[g[1] + 1]
    <3>1. g[1] < mHead /\ g[2] = mLog[g[1] + 1] /\ g[1] \in Nat
      BY DEF Mpmc!IInv, Mpmc!Delivered, Mpmc!TypeOK
    <3> QED
      BY <1>1, <1>b, <3>1
  <2> QED
    BY <1>1, <2>1 DEF Mpmc!Delivered
<1>12. Mpmc!CapacityRespected'
  BY <1>1, <1>6, <1>b DEF Mpmc!CapacityRespected
<1> QED
  BY <1>1, <1>4, <1>5, <1>7, <1>8, <1>9, <1>10, <1>11, <1>12 DEF Mpmc!IInv

(* The value is written into a slot that nobody reads.                     *)
LEMMA MpmcWriteKeeps ==
  ASSUME Mpmc!Sized, Mpmc!IInv, NEW p \in Producers, Mpmc!Write(p)
  PROVE  Mpmc!IInv'
<1> DEFINE k == Mpmc!Cell(mPos[p])
<1>0. /\ p \in Mpmc!Threads /\ p \notin Consumers
      /\ mPc \in [Mpmc!Threads -> {"idle", "load", "seq", "cas", "write", "publish", "read", "recycle"}]
      /\ mValue \in [Mpmc!Indices -> Mpmc!Items \cup {Mpmc!Empty}] /\ mPc[p] = "write"
      /\ <<p, mSent[p]>> \in Mpmc!Items /\ Mpmc!Pushing(p) /\ k \in Mpmc!Indices
  BY MpmcBasics DEF Mpmc!Sized, Mpmc!IInv, Mpmc!TypeOK, Mpmc!Threads, Mpmc!Write, Mpmc!Roles, Mpmc!Items
<1>1. /\ mValue' = [mValue EXCEPT ![k] = <<p, mSent[p]>>] /\ mPc' = [mPc EXCEPT ![p] = "publish"]
      /\ UNCHANGED <<mHead, mTail, mSeq, mPos, mSent, mLog, mGot>>
  BY <1>0 DEF Mpmc!Write, Mpmc!Goto
<1>b. /\ RingSize \in Nat /\ RingSize >= 2
      /\ mHead \in Nat /\ mTail \in Nat /\ mHead <= mTail /\ mTail <= mHead + RingSize
      /\ \A t \in Mpmc!Threads : mPos[t] \in Nat
      /\ Producers \subseteq Mpmc!Threads /\ Consumers \subseteq Mpmc!Threads
  BY MpmcBasics
<1>2. /\ \A i \in Mpmc!Indices \ {k} : mValue'[i] = mValue[i]
      /\ mValue'[k] = <<p, mSent[p]>> /\ mLog[mPos[p] + 1] = <<p, mSent[p]>> /\ mSeq[k] = mPos[p]
      /\ mHead <= mPos[p] /\ mPos[p] < mTail
  BY <1>0, <1>1 DEF Mpmc!Pushing
<1>3. Mpmc!TypeOK'
  BY <1>0, <1>1 DEF Mpmc!IInv, Mpmc!TypeOK
<1>4. Mpmc!Roles'
  BY <1>0, <1>1 DEF Mpmc!IInv, Mpmc!Roles, Mpmc!Threads
<1>5. Mpmc!Slots'
  <2>1. ASSUME NEW q \in mHead .. mTail - 1
        PROVE  mSeq[Mpmc!Cell(q)] = q \/ (mSeq[Mpmc!Cell(q)] = q + 1 /\ mValue'[Mpmc!Cell(q)] = mLog[q + 1])
    <3>1. q \in Nat /\ Mpmc!Cell(q) \in Mpmc!Indices
      BY <1>b, MpmcCellAgain
    <3>2. CASE Mpmc!Cell(q) = k
      <4>1. q = mPos[p]
        BY <1>0, <1>2, <1>b, <3>1, <3>2, MpmcCellsApart
      <4> QED
        BY <1>2, <4>1
    <3>3. CASE Mpmc!Cell(q) # k
      BY <1>2, <3>1, <3>3 DEF Mpmc!IInv, Mpmc!Slots
    <3> QED
      BY <3>2, <3>3
  <2> QED
    BY <1>1, <2>1 DEF Mpmc!IInv, Mpmc!Slots, Mpmc!Cell
<1>6. \A u \in Mpmc!Inside : u # p => Mpmc!Cell(mPos[u]) # k
  BY <1>0, MpmcExclusive DEF Mpmc!SlotExclusive, Mpmc!Inside
<1>7. ASSUME NEW r \in Producers PROVE Mpmc!Pushing(r)'
  <2>1. Mpmc!Pushing(r)
    BY DEF Mpmc!IInv
  <2>2. CASE r = p
    BY <1>0, <1>1, <1>2, <2>1, <2>2 DEF Mpmc!Pushing, Mpmc!Cell
  <2>3. CASE r # p
    <3>1. mPc[r] = "publish" => mValue'[Mpmc!Cell(mPos[r])] = mValue[Mpmc!Cell(mPos[r])]
      BY <1>2, <1>6, <1>b, <2>3, MpmcBasics DEF Mpmc!Inside
    <3> QED
      BY <1>0, <1>1, <1>b, <2>1, <2>3, <3>1 DEF Mpmc!Pushing, Mpmc!Cell
  <2> QED
    BY <2>2, <2>3
<1>8. ASSUME NEW c \in Consumers PROVE Mpmc!Popping(c)'
  <2>1. Mpmc!Popping(c)
    BY DEF Mpmc!IInv
  <2>2. mPc[c] \in {"read", "recycle"} => mValue'[Mpmc!Cell(mPos[c])] = mValue[Mpmc!Cell(mPos[c])]
    BY <1>0, <1>2, <1>6, <1>b, MpmcBasics DEF Mpmc!Inside
  <2> QED
    BY <1>0, <1>1, <1>b, <2>1, <2>2 DEF Mpmc!Popping, Mpmc!Cell
<1>9. Mpmc!Claims' /\ Mpmc!Delivered' /\ Mpmc!CapacityRespected'
  BY <1>0, <1>1, <1>b DEF Mpmc!IInv, Mpmc!Claims, Mpmc!Delivered, Mpmc!CapacityRespected
<1> QED
  BY <1>1, <1>3, <1>4, <1>5, <1>7, <1>8, <1>9 DEF Mpmc!IInv

(* seq = pos + 1: the slot holds what was pushed at its position.          *)
LEMMA MpmcPublishKeeps ==
  ASSUME Mpmc!Sized, Mpmc!IInv, NEW p \in Producers, Mpmc!Publish(p)
  PROVE  Mpmc!IInv'
<1> DEFINE k == Mpmc!Cell(mPos[p])
<1>0. /\ p \in Mpmc!Threads /\ p \notin Consumers
      /\ mPc \in [Mpmc!Threads -> {"idle", "load", "seq", "cas", "write", "publish", "read", "recycle"}]
      /\ mSeq \in [Mpmc!Indices -> Nat] /\ mPc[p] = "publish" /\ Mpmc!Pushing(p) /\ k \in Mpmc!Indices
  BY MpmcBasics DEF Mpmc!Sized, Mpmc!IInv, Mpmc!TypeOK, Mpmc!Threads, Mpmc!Publish
<1>1. /\ mSeq' = [mSeq EXCEPT ![k] = mPos[p] + 1] /\ mPc' = [mPc EXCEPT ![p] = "idle"]
      /\ UNCHANGED <<mHead, mTail, mValue, mPos, mSent, mLog, mGot>>
  BY <1>0 DEF Mpmc!Publish, Mpmc!Goto
<1>b. /\ RingSize \in Nat /\ RingSize >= 2
      /\ mHead \in Nat /\ mTail \in Nat /\ mHead <= mTail /\ mTail <= mHead + RingSize
      /\ \A t \in Mpmc!Threads : mPos[t] \in Nat /\ Mpmc!Cell(mPos[t]) \in Mpmc!Indices
      /\ Producers \subseteq Mpmc!Threads /\ Consumers \subseteq Mpmc!Threads
  BY MpmcBasics
<1>2. /\ \A i \in Mpmc!Indices \ {k} : mSeq'[i] = mSeq[i]
      /\ mSeq'[k] = mPos[p] + 1 /\ mValue[k] = mLog[mPos[p] + 1] /\ mSeq[k] = mPos[p]
      /\ mHead <= mPos[p] /\ mPos[p] < mTail /\ mPos[p] \in Nat
  BY <1>0, <1>1, <1>b DEF Mpmc!Pushing
<1>3. Mpmc!TypeOK'
  BY <1>0, <1>1, <1>2 DEF Mpmc!IInv, Mpmc!TypeOK
<1>4. Mpmc!Roles'
  BY <1>0, <1>1 DEF Mpmc!IInv, Mpmc!Roles, Mpmc!Threads
<1>m. \A q \in mHead .. mHead + RingSize - 1 : Mpmc!Cell(q) = k => q = mPos[p]
  BY <1>2, <1>b, MpmcCellsApart
<1>5. Mpmc!Slots'
  <2>1. ASSUME NEW q \in mHead .. mTail - 1
        PROVE  mSeq'[Mpmc!Cell(q)] = q \/ (mSeq'[Mpmc!Cell(q)] = q + 1 /\ mValue[Mpmc!Cell(q)] = mLog[q + 1])
    <3>1. Mpmc!Cell(q) \in Mpmc!Indices
      BY <1>b, MpmcCellAgain
    <3>2. CASE Mpmc!Cell(q) = k
      BY <1>2, <1>b, <1>m, <3>2
    <3>3. CASE Mpmc!Cell(q) # k
      BY <1>2, <3>1, <3>3 DEF Mpmc!IInv, Mpmc!Slots
    <3> QED
      BY <3>2, <3>3
  <2>2. ASSUME NEW q \in mTail .. mHead + RingSize - 1
        PROVE  mSeq'[Mpmc!Cell(q)] \in {q, q - RingSize + 1}
    <3>1. Mpmc!Cell(q) \in Mpmc!Indices /\ Mpmc!Cell(q) # k
      BY <1>2, <1>b, <1>m, MpmcCellAgain
    <3> QED
      BY <1>2, <3>1 DEF Mpmc!IInv, Mpmc!Slots
  <2> QED
    BY <1>1, <2>1, <2>2 DEF Mpmc!IInv, Mpmc!Slots, Mpmc!Cell
<1>6. \A u \in Mpmc!Inside : u # p => mSeq'[Mpmc!Cell(mPos[u])] = mSeq[Mpmc!Cell(mPos[u])]
  BY <1>0, <1>2, <1>b, MpmcExclusive DEF Mpmc!SlotExclusive, Mpmc!Inside
<1>7. ASSUME NEW r \in Producers PROVE Mpmc!Pushing(r)'
  <2>1. Mpmc!Pushing(r)
    BY DEF Mpmc!IInv
  <2>2. CASE r = p
    BY <1>0, <1>1, <2>1, <2>2 DEF Mpmc!Pushing, Mpmc!Cell
  <2>3. CASE r # p
    <3>1. mPc'[r] = mPc[r]
      BY <1>0, <1>1, <2>3
    <3>2. ASSUME mPc[r] = "cas", mPos[r] = mTail PROVE mSeq'[Mpmc!Cell(mPos[r])] = mPos[r]
      <4>1. mSeq[Mpmc!Cell(mPos[r])] = mPos[r]
        BY <2>1, <3>2 DEF Mpmc!Pushing
      <4>2. Mpmc!Cell(mPos[r]) # k
        BY <1>2, <1>b, <3>2, <4>1
      <4> QED
        BY <1>2, <1>b, <4>1, <4>2
    <3>3. mPc[r] \in {"write", "publish"} => mSeq'[Mpmc!Cell(mPos[r])] = mSeq[Mpmc!Cell(mPos[r])]
      BY <1>6, <1>b, <2>3 DEF Mpmc!Inside
    <3> QED
      BY <1>1, <2>1, <3>1, <3>2, <3>3 DEF Mpmc!Pushing, Mpmc!Cell
  <2> QED
    BY <2>2, <2>3
<1>8. ASSUME NEW c \in Consumers PROVE Mpmc!Popping(c)'
  <2>1. Mpmc!Popping(c) /\ mPc'[c] = mPc[c] /\ c # p
    BY <1>0, <1>1, <1>b DEF Mpmc!IInv
  <2>2. ASSUME mPc[c] = "cas", mPos[c] = mHead PROVE mSeq'[Mpmc!Cell(mPos[c])] = mPos[c] + 1
    <3>1. mSeq[Mpmc!Cell(mPos[c])] = mPos[c] + 1
      BY <2>1, <2>2 DEF Mpmc!Popping
    <3>2. Mpmc!Cell(mPos[c]) # k
      BY <1>2, <1>b, <1>m, <2>2, <3>1
    <3> QED
      BY <1>2, <1>b, <3>1, <3>2
  <2>3. mPc[c] \in {"read", "recycle"} => mSeq'[Mpmc!Cell(mPos[c])] = mSeq[Mpmc!Cell(mPos[c])]
    BY <1>6, <1>b, <2>1 DEF Mpmc!Inside
  <2> QED
    BY <1>1, <2>1, <2>2, <2>3 DEF Mpmc!Popping, Mpmc!Cell
<1>9. Mpmc!Claims' /\ Mpmc!Delivered' /\ Mpmc!CapacityRespected'
  BY <1>0, <1>1, <1>b DEF Mpmc!IInv, Mpmc!Claims, Mpmc!Delivered, Mpmc!CapacityRespected
<1> QED
  BY <1>1, <1>3, <1>4, <1>5, <1>7, <1>8, <1>9 DEF Mpmc!IInv

(* The value is read from a slot that nobody writes.                       *)
LEMMA MpmcReadKeeps ==
  ASSUME Mpmc!Sized, Mpmc!IInv, NEW c \in Consumers, Mpmc!Read(c)
  PROVE  Mpmc!IInv'
<1>0. /\ c \in Mpmc!Threads /\ c \notin Producers
      /\ mPc \in [Mpmc!Threads -> {"idle", "load", "seq", "cas", "write", "publish", "read", "recycle"}]
      /\ mPc[c] = "read" /\ Mpmc!Popping(c) /\ Mpmc!Cell(mPos[c]) \in Mpmc!Indices /\ mPos[c] \in Nat
      /\ mValue \in [Mpmc!Indices -> Mpmc!Items \cup {Mpmc!Empty}]
  BY MpmcBasics DEF Mpmc!Sized, Mpmc!IInv, Mpmc!TypeOK, Mpmc!Threads, Mpmc!Read
<1>1. /\ mGot' = mGot \cup {<<mPos[c], mValue[Mpmc!Cell(mPos[c])]>>} /\ mPc' = [mPc EXCEPT ![c] = "recycle"]
      /\ UNCHANGED <<mHead, mTail, mValue, mSeq, mPos, mSent, mLog>>
  BY <1>0 DEF Mpmc!Read, Mpmc!Goto
<1>2. mPos[c] < mHead /\ mValue[Mpmc!Cell(mPos[c])] = mLog[mPos[c] + 1]
  BY <1>0 DEF Mpmc!Popping
<1>3. Mpmc!TypeOK'
  <2>1. mGot' \subseteq Nat \X (Mpmc!Items \cup {Mpmc!Empty})
    BY <1>0, <1>1 DEF Mpmc!IInv, Mpmc!TypeOK
  <2> QED
    BY <1>0, <1>1, <2>1 DEF Mpmc!IInv, Mpmc!TypeOK
<1>4. Mpmc!Roles'
  BY <1>0, <1>1 DEF Mpmc!IInv, Mpmc!Roles, Mpmc!Threads
<1>5. Mpmc!Delivered'
  BY <1>1, <1>2 DEF Mpmc!IInv, Mpmc!Delivered
<1>6. \A r \in Producers : Mpmc!Pushing(r)'
  BY <1>0, <1>1 DEF Mpmc!IInv, Mpmc!Pushing, Mpmc!Cell, Mpmc!Threads
<1>7. \A d \in Consumers : Mpmc!Popping(d)'
  BY <1>0, <1>1 DEF Mpmc!IInv, Mpmc!Popping, Mpmc!Cell, Mpmc!Threads
<1>8. Mpmc!Slots' /\ Mpmc!Claims' /\ Mpmc!CapacityRespected'
  BY <1>0, <1>1 DEF Mpmc!IInv, Mpmc!Slots, Mpmc!Claims, Mpmc!CapacityRespected, Mpmc!Cell, Mpmc!Threads
<1> QED
  BY <1>1, <1>3, <1>4, <1>5, <1>6, <1>7, <1>8 DEF Mpmc!IInv

(* seq = pos + Capacity: the slot is free for the next round and for no    *)
(* other.                                                                  *)
LEMMA MpmcRecycleKeeps ==
  ASSUME Mpmc!Sized, Mpmc!IInv, NEW c \in Consumers, Mpmc!Recycle(c)
  PROVE  Mpmc!IInv'
<1> DEFINE k == Mpmc!Cell(mPos[c])
<1>0. /\ c \in Mpmc!Threads /\ c \notin Producers
      /\ mPc \in [Mpmc!Threads -> {"idle", "load", "seq", "cas", "write", "publish", "read", "recycle"}]
      /\ mSeq \in [Mpmc!Indices -> Nat] /\ mPc[c] = "recycle" /\ Mpmc!Popping(c) /\ k \in Mpmc!Indices
  BY MpmcBasics DEF Mpmc!Sized, Mpmc!IInv, Mpmc!TypeOK, Mpmc!Threads, Mpmc!Recycle
<1>1. /\ mSeq' = [mSeq EXCEPT ![k] = mPos[c] + RingSize] /\ mPc' = [mPc EXCEPT ![c] = "idle"]
      /\ UNCHANGED <<mHead, mTail, mValue, mPos, mSent, mLog, mGot>>
  BY <1>0 DEF Mpmc!Recycle, Mpmc!Goto
<1>b. /\ RingSize \in Nat /\ RingSize >= 2
      /\ mHead \in Nat /\ mTail \in Nat /\ mHead <= mTail /\ mTail <= mHead + RingSize
      /\ \A t \in Mpmc!Threads : mPos[t] \in Nat /\ Mpmc!Cell(mPos[t]) \in Mpmc!Indices
      /\ Producers \subseteq Mpmc!Threads /\ Consumers \subseteq Mpmc!Threads
  BY MpmcBasics
<1>2. /\ \A i \in Mpmc!Indices \ {k} : mSeq'[i] = mSeq[i]
      /\ mSeq'[k] = mPos[c] + RingSize /\ mSeq[k] = mPos[c] + 1
      /\ mPos[c] < mHead /\ mTail <= mPos[c] + RingSize /\ mPos[c] \in Nat
  BY <1>0, <1>1, <1>b DEF Mpmc!Popping
<1>3. Mpmc!TypeOK'
  <2>1. mSeq' \in [Mpmc!Indices -> Nat]
    BY <1>0, <1>1, <1>2, <1>b
  <2> QED
    BY <1>0, <1>1, <2>1 DEF Mpmc!IInv, Mpmc!TypeOK
<1>4. Mpmc!Roles'
  BY <1>0, <1>1 DEF Mpmc!IInv, Mpmc!Roles, Mpmc!Threads
<1>m. \A q \in mHead .. mHead + RingSize - 1 : Mpmc!Cell(q) = k => q = mPos[c] + RingSize
  <2>1. Mpmc!Cell(mPos[c] + RingSize) = k /\ mPos[c] + RingSize \in Nat
    BY <1>2, <1>b, MpmcCellAgain
  <2>2. ASSUME NEW q \in mHead .. mHead + RingSize - 1, Mpmc!Cell(q) = k PROVE q = mPos[c] + RingSize
    <3>1. q \in Nat /\ Mpmc!Cell(q) = Mpmc!Cell(mPos[c] + RingSize)
      BY <1>b, <2>1, <2>2
    <3>2. ~(q < mPos[c] + RingSize)
      <4>1. SUFFICES ASSUME q < mPos[c] + RingSize PROVE FALSE
        OBVIOUS
      <4>2. (mPos[c] + RingSize) - q >= RingSize
        BY <2>1, <3>1, <4>1, MpmcCellsApart
      <4> QED
        BY <1>2, <1>b, <3>1, <4>2
    <3>3. ~(q > mPos[c] + RingSize)
      <4>1. SUFFICES ASSUME q > mPos[c] + RingSize PROVE FALSE
        OBVIOUS
      <4>2. q - (mPos[c] + RingSize) >= RingSize
        BY <2>1, <3>1, <4>1, MpmcCellsApart
      <4> QED
        BY <1>2, <1>b, <3>1, <4>2
    <3> QED
      BY <1>b, <2>1, <3>1, <3>2, <3>3
  <2> QED
    BY <2>2
<1>5. Mpmc!Slots'
  <2>1. ASSUME NEW q \in mHead .. mTail - 1
        PROVE  mSeq'[Mpmc!Cell(q)] = q \/ (mSeq'[Mpmc!Cell(q)] = q + 1 /\ mValue[Mpmc!Cell(q)] = mLog[q + 1])
    <3>1. Mpmc!Cell(q) \in Mpmc!Indices /\ Mpmc!Cell(q) # k
      BY <1>2, <1>b, <1>m, MpmcCellAgain
    <3> QED
      BY <1>2, <3>1 DEF Mpmc!IInv, Mpmc!Slots
  <2>2. ASSUME NEW q \in mTail .. mHead + RingSize - 1
        PROVE  mSeq'[Mpmc!Cell(q)] \in {q, q - RingSize + 1}
    <3>1. Mpmc!Cell(q) \in Mpmc!Indices
      BY <1>b, MpmcCellAgain
    <3>2. CASE Mpmc!Cell(q) = k
      BY <1>2, <1>b, <1>m, <3>2
    <3>3. CASE Mpmc!Cell(q) # k
      BY <1>2, <3>1, <3>3 DEF Mpmc!IInv, Mpmc!Slots
    <3> QED
      BY <3>2, <3>3
  <2> QED
    BY <1>1, <2>1, <2>2 DEF Mpmc!IInv, Mpmc!Slots, Mpmc!Cell
<1>6. \A u \in Mpmc!Inside : u # c => mSeq'[Mpmc!Cell(mPos[u])] = mSeq[Mpmc!Cell(mPos[u])]
  BY <1>0, <1>2, <1>b, MpmcExclusive DEF Mpmc!SlotExclusive, Mpmc!Inside
<1>7. ASSUME NEW r \in Producers PROVE Mpmc!Pushing(r)'
  <2>1. Mpmc!Pushing(r) /\ mPc'[r] = mPc[r] /\ r # c
    BY <1>0, <1>1, <1>b DEF Mpmc!IInv
  <2>2. ASSUME mPc[r] = "cas", mPos[r] = mTail PROVE mSeq'[Mpmc!Cell(mPos[r])] = mPos[r]
    <3>1. mSeq[Mpmc!Cell(mPos[r])] = mPos[r]
      BY <2>1, <2>2 DEF Mpmc!Pushing
    <3>2. Mpmc!Cell(mPos[r]) # k
      <4>1. SUFFICES ASSUME Mpmc!Cell(mPos[r]) = k PROVE FALSE
        OBVIOUS
      <4>2. mTail = mPos[c] + 1
        BY <1>2, <2>2, <3>1, <4>1
      <4>3. mPos[c] < mTail /\ Mpmc!Cell(mPos[c]) = Mpmc!Cell(mTail)
        BY <1>2, <1>b, <2>2, <4>1, <4>2
      <4> QED
        BY <1>2, <1>b, <4>2, <4>3, MpmcCellsApart
    <3> QED
      BY <1>2, <1>b, <3>1, <3>2
  <2>3. mPc[r] \in {"write", "publish"} => mSeq'[Mpmc!Cell(mPos[r])] = mSeq[Mpmc!Cell(mPos[r])]
    BY <1>6, <1>b, <2>1 DEF Mpmc!Inside
  <2> QED
    BY <1>1, <2>1, <2>2, <2>3 DEF Mpmc!Pushing, Mpmc!Cell
<1>8. ASSUME NEW d \in Consumers PROVE Mpmc!Popping(d)'
  <2>1. Mpmc!Popping(d)
    BY DEF Mpmc!IInv
  <2>2. CASE d = c
    BY <1>0, <1>1, <2>1, <2>2 DEF Mpmc!Popping, Mpmc!Cell
  <2>3. CASE d # c
    <3>1. mPc'[d] = mPc[d]
      BY <1>0, <1>1, <2>3
    <3>2. ASSUME mPc[d] = "cas", mPos[d] = mHead PROVE mSeq'[Mpmc!Cell(mPos[d])] = mPos[d] + 1
      <4>1. mSeq[Mpmc!Cell(mPos[d])] = mPos[d] + 1
        BY <2>1, <3>2 DEF Mpmc!Popping
      <4>2. Mpmc!Cell(mPos[d]) # k
        BY <1>2, <1>b, <3>2, <4>1
      <4> QED
        BY <1>2, <1>b, <4>1, <4>2
    <3>3. mPc[d] \in {"read", "recycle"} => mSeq'[Mpmc!Cell(mPos[d])] = mSeq[Mpmc!Cell(mPos[d])]
      BY <1>6, <1>b, <2>3 DEF Mpmc!Inside
    <3> QED
      BY <1>1, <2>1, <3>1, <3>2, <3>3 DEF Mpmc!Popping, Mpmc!Cell
  <2> QED
    BY <2>2, <2>3
<1>9. Mpmc!Claims' /\ Mpmc!Delivered' /\ Mpmc!CapacityRespected'
  BY <1>0, <1>1, <1>b DEF Mpmc!IInv, Mpmc!Claims, Mpmc!Delivered, Mpmc!CapacityRespected
<1> QED
  BY <1>1, <1>3, <1>4, <1>5, <1>7, <1>8, <1>9 DEF Mpmc!IInv

(* Every step of push() and try_pop() keeps IInv.                     *)
LEMMA MpmcInductive == ASSUME Mpmc!Sized, Mpmc!IInv, [Mpmc!Next]_Mpmc!vars PROVE Mpmc!IInv'
<1>1. CASE UNCHANGED Mpmc!vars
  <2>1. UNCHANGED <<mHead, mTail, mValue, mSeq, mPc, mPos, mSent, mLog, mGot>>
    BY <1>1 DEF Mpmc!vars
  <2>2. Mpmc!TypeOK' /\ Mpmc!Roles' /\ Mpmc!Slots' /\ Mpmc!CapacityRespected' /\ Mpmc!Claims' /\ Mpmc!Delivered'
    BY <2>1 DEF Mpmc!IInv, Mpmc!TypeOK, Mpmc!Roles, Mpmc!Slots, Mpmc!CapacityRespected, Mpmc!Claims, Mpmc!Delivered, Mpmc!Cell
  <2>3. (\A p \in Producers : Mpmc!Pushing(p)') /\ (\A c \in Consumers : Mpmc!Popping(c)')
    BY <2>1 DEF Mpmc!IInv, Mpmc!Pushing, Mpmc!Popping, Mpmc!Cell
  <2> QED
    BY <2>1, <2>2, <2>3 DEF Mpmc!IInv
<1>2. CASE Mpmc!Next
  BY <1>2, MpmcPushLocalKeeps, MpmcPopLocalKeeps, MpmcClaimTailKeeps, MpmcClaimHeadKeeps, MpmcWriteKeeps,
     MpmcPublishKeeps, MpmcReadKeeps, MpmcRecycleKeeps DEF Mpmc!Next, Mpmc!PushStep, Mpmc!PopStep
<1> QED
  BY <1>1, <1>2

(* A new queue.                                                            *)
LEMMA MpmcInitHolds == ASSUME Mpmc!Sized, Mpmc!Init PROVE Mpmc!IInv
<1>0. RingSize \in Nat /\ RingSize >= 2 /\ PerProducer \in Nat
  BY DEF Mpmc!Sized
<1>1. Mpmc!TypeOK
  BY <1>0 DEF Mpmc!Init, Mpmc!TypeOK, Mpmc!Indices
<1>2. Mpmc!Roles /\ Mpmc!Claims /\ Mpmc!Delivered
  BY DEF Mpmc!Init, Mpmc!Roles, Mpmc!Claims, Mpmc!Delivered, Mpmc!Threads
<1>3. Mpmc!CapacityRespected /\ Len(mLog) = mTail
  BY <1>0 DEF Mpmc!Init, Mpmc!CapacityRespected
<1>4. Mpmc!Slots
  <2>1. \A q \in 0 .. RingSize - 1 : Mpmc!Cell(q) = q
    BY <1>0 DEF Mpmc!Cell
  <2> QED
    BY <1>0, <2>1 DEF Mpmc!Init, Mpmc!Slots, Mpmc!Indices
<1>5. (\A p \in Producers : Mpmc!Pushing(p)) /\ (\A c \in Consumers : Mpmc!Popping(c))
  BY DEF Mpmc!Init, Mpmc!Pushing, Mpmc!Popping, Mpmc!Threads
<1> QED
  BY <1>1, <1>2, <1>3, <1>4, <1>5 DEF Mpmc!IInv

(* What the invariant promises to the callers.                             *)
LEMMA MpmcImplied ==
  ASSUME Mpmc!Sized, Mpmc!IInv
  PROVE  Mpmc!TypeOK /\ Mpmc!SlotExclusive /\ Mpmc!CapacityRespected /\ Mpmc!DeliversInOrder
<1>1. ASSUME NEW g \in mGot PROVE g[1] < Len(mLog) /\ g[2] = mLog[g[1] + 1]
  <2>1. g[1] < mHead /\ g[2] = mLog[g[1] + 1] /\ g[1] \in Nat
    BY DEF Mpmc!IInv, Mpmc!Delivered, Mpmc!TypeOK
  <2> QED
    BY <2>1, MpmcBasics
<1>2. ASSUME NEW g \in mGot, NEW h \in mGot, g[1] = h[1] PROVE g = h
  <2>1. g[2] = h[2]
    BY <1>1, <1>2
  <2>2. g = <<g[1], g[2]>> /\ h = <<h[1], h[2]>>
    BY DEF Mpmc!IInv, Mpmc!TypeOK
  <2> QED
    BY ONLY <1>2, <2>1, <2>2
<1> QED
  BY <1>1, <1>2, MpmcExclusive DEF Mpmc!IInv, Mpmc!DeliversInOrder

-----------------------------------------------------------------------------
(* LockFreeStack.                                                          *)

Stack == INSTANCE LockFreeStack WITH Threads <- StackThreads,
        head_ <- kHead, next <- kNext, retired_ <- kRetired, made <- kMade,
        pc <- kPc, node <- kNode, cur <- kCur, nxt <- kNxt

(* Stack's finite sets are those that the theorems on finite sets are      *)
(* about.                                                                  *)
LEMMA StackCardinality ==
  ASSUME NEW S
  PROVE  Stack!Cardinality(S) = Cardinality(S) /\ (Stack!IsFiniteSet(S) <=> IsFiniteSet(S))
BY DEF Stack!Cardinality, Cardinality, Stack!IsFiniteSet, IsFiniteSet

(* The walk along the links exists as a function: it starts at head_ and   *)
(* goes on to the next of each node. A function that is defined by         *)
(* recursion exists up to any n, if not up to a least n, up to which it    *)
(* can be extended.                                                        *)
LEMMA StackWalkSteps ==
  ASSUME MaxNodes \in Nat
  PROVE  /\ Stack!Walk[0] = kHead
         /\ \A n \in 1 .. MaxNodes :
              Stack!Walk[n] = IF Stack!Walk[n - 1] = Stack!nullptr THEN Stack!nullptr ELSE kNext[Stack!Walk[n - 1]]
<1> DEFINE G(f, n) == IF n = 0 THEN kHead ELSE IF f[n - 1] = Stack!nullptr THEN Stack!nullptr ELSE kNext[f[n - 1]]
           E(m) == \E f : f = [n \in 0 .. m |-> G(f, n)]
           T == {m \in 0 .. MaxNodes : ~ E(m)}
<1>0. E(0)
  <2> DEFINE h == [n \in 0 .. 0 |-> kHead]
  <2>1. h = [n \in 0 .. 0 |-> G(h, n)]
    OBVIOUS
  <2> QED
    BY <2>1
<1>1. ASSUME NEW m \in Nat, E(m) PROVE E(m + 1)
  <2>1. PICK f : f = [n \in 0 .. m |-> G(f, n)]
    BY <1>1
  <2> DEFINE g == IF f[m] = Stack!nullptr THEN Stack!nullptr ELSE kNext[f[m]]
             h == [n \in 0 .. m + 1 |-> IF n = m + 1 THEN g ELSE f[n]]
  <2>2. \A n \in 0 .. m : h[n] = f[n] /\ f[n] = G(f, n)
    BY <2>1
  <2>3. h[m + 1] = g
    OBVIOUS
  <2> HIDE DEF g, h
  <2>4. \A n \in 0 .. m : h[n] = G(h, n)
    BY <2>2
  <2>5. h[m + 1] = G(h, m + 1)
    BY <2>2, <2>3 DEF g
  <2>6. \A n \in 0 .. m + 1 : h[n] = G(h, n)
    BY <2>4, <2>5
  <2>7. h = [n \in 0 .. m + 1 |-> h[n]]
    BY DEF h
  <2>8. h = [n \in 0 .. m + 1 |-> G(h, n)]
    <3> HIDE DEF G
    <3> QED
      BY <2>6, <2>7
  <2> QED
    BY <2>8
<1> HIDE DEF E
<1>2. T = {}
  <2> SUFFICES ASSUME T # {} PROVE FALSE
    OBVIOUS
  <2>0. T \in SUBSET Nat
    OBVIOUS
  <2> HIDE DEF T
  <2>1. PICK m \in T : \A y \in T : m <= y
    BY <2>0, LeastNat
  <2>2. m # 0
    BY <2>1, <1>0 DEF T
  <2>3. m - 1 \in Nat /\ m - 1 \notin T
    BY <2>0, <2>1, <2>2
  <2>4. E(m - 1)
    BY <2>3, <2>1 DEF T
  <2>5. E((m - 1) + 1)
    BY <2>3, <2>4, <1>1
  <2> QED
    BY <2>5, <2>1 DEF T
<1>3. E(MaxNodes)
  BY <1>2
<1>4. Stack!Walk = [n \in 0 .. MaxNodes |-> G(Stack!Walk, n)]
  BY <1>3 DEF Stack!Walk, E
<1>5. \A n \in 0 .. MaxNodes : Stack!Walk[n] = G(Stack!Walk, n)
  <2> HIDE DEF G
  <2> QED
    BY <1>4
<1> QED
  BY <1>5

(* The walk meets the nodes of a list one by one and then stays at         *)
(* nullptr.                                                                *)
LEMMA StackListWalked ==
  ASSUME MaxNodes \in Nat, NEW s, Stack!IsList(s)
  PROVE  \A n \in 0 .. MaxNodes : Stack!Walk[n] = IF n < Len(s) THEN s[n + 1] ELSE Stack!nullptr
<1> DEFINE T == {m \in 0 .. MaxNodes : Stack!Walk[m] # IF m < Len(s) THEN s[m + 1] ELSE Stack!nullptr}
<1>0. s \in Seq(Stack!Nodes) /\ Len(s) \in Nat /\ Len(s) <= MaxNodes /\ (s = <<>> <=> Len(s) = 0)
      /\ \A i \in 1 .. Len(s) : s[i] \in Stack!Nodes /\ s[i] # Stack!nullptr
  BY DEF Stack!IsList, Stack!Nodes, Stack!nullptr
<1>1. T = {}
  <2> SUFFICES ASSUME T # {} PROVE FALSE
    OBVIOUS
  <2>0. T \in SUBSET Nat
    OBVIOUS
  <2> HIDE DEF T
  <2>1. PICK m \in T : \A y \in T : m <= y
    BY <2>0, LeastNat
  <2>2. m # 0
    BY <1>0, <2>1, StackWalkSteps DEF T, Stack!IsList
  <2>3. m \in 1 .. MaxNodes /\ m - 1 \in 0 .. MaxNodes /\ m - 1 \notin T
    BY <2>0, <2>1, <2>2 DEF T
  <2>4. Stack!Walk[m - 1] = IF m - 1 < Len(s) THEN s[m] ELSE Stack!nullptr
    BY <2>3 DEF T
  <2>5. Stack!Walk[m] = IF Stack!Walk[m - 1] = Stack!nullptr THEN Stack!nullptr ELSE kNext[Stack!Walk[m - 1]]
    BY <2>3, StackWalkSteps
  <2>6. CASE m <= Len(s)
    <3>1. m \in 1 .. Len(s) /\ m - 1 < Len(s)
      BY <1>0, <2>3, <2>6
    <3>2. Stack!Walk[m] = IF m < Len(s) THEN s[m + 1] ELSE Stack!nullptr
      BY <3>1, <1>0, <2>4, <2>5 DEF Stack!IsList
    <3> QED
      BY <3>2, <2>1 DEF T
  <2>7. CASE ~(m <= Len(s))
    <3>1. ~(m < Len(s)) /\ ~(m - 1 < Len(s))
      BY <1>0, <2>3, <2>7
    <3> QED
      BY <3>1, <2>4, <2>5, <2>1 DEF T
  <2> QED
    BY <2>6, <2>7
<1> QED
  BY <1>1

(* So a list that hangs on head_ is what Contents computes.                *)
LEMMA StackListIsContents ==
  ASSUME MaxNodes \in Nat, NEW s, Stack!IsList(s)
  PROVE  Stack!Contents = s /\ Stack!Live = {s[i] : i \in 1 .. Len(s)}
<1>0. s \in Seq(Stack!Nodes) /\ Len(s) \in Nat /\ Len(s) <= MaxNodes
      /\ \A i \in 1 .. Len(s) : s[i] \in Stack!Nodes /\ s[i] # Stack!nullptr
  BY DEF Stack!IsList, Stack!Nodes, Stack!nullptr
<1>1. Stack!Live = {s[i] : i \in 1 .. Len(s)}
  <2>1. ASSUME NEW x \in Stack!Live PROVE x \in {s[i] : i \in 1 .. Len(s)}
    <3>1. PICK n \in 0 .. MaxNodes : x = Stack!Walk[n] /\ x # Stack!nullptr
      BY <2>1 DEF Stack!Live
    <3>2. n < Len(s) /\ x = s[n + 1] /\ n + 1 \in 1 .. Len(s)
      BY <1>0, <3>1, StackListWalked
    <3> QED
      BY <3>2
  <2>2. ASSUME NEW i \in 1 .. Len(s) PROVE s[i] \in Stack!Live
    <3>1. i - 1 \in 0 .. MaxNodes /\ i - 1 < Len(s)
      BY <1>0
    <3>2. Stack!Walk[i - 1] = s[i]
      BY <3>1, <1>0, StackListWalked
    <3> QED
      BY <3>1, <3>2, <1>0 DEF Stack!Live
  <2> QED
    BY <2>1, <2>2
<1>2. Stack!Cardinality(Stack!Live) = Len(s)
  <2>1. s \in Bijection(1 .. Len(s), Stack!Live)
    <3>1. s \in [1 .. Len(s) -> Stack!Live]
      BY <1>0, <1>1
    <3>2. \A i, j \in 1 .. Len(s) : s[i] = s[j] => i = j
      BY DEF Stack!IsList
    <3> QED
      BY <3>1, <3>2, <1>1 DEF Bijection, Injection, Surjection, IsInjective
  <2>2. ExistsBijection(1 .. Len(s), Stack!Live)
    BY <2>1 DEF ExistsBijection
  <2>3. Stack!IsFiniteSet(1 .. Len(s)) /\ Stack!Cardinality(1 .. Len(s)) = Len(s)
    <3>1. 1 \in Int /\ Len(s) \in Int
      BY <1>0
    <3>2. Stack!IsFiniteSet(1 .. Len(s)) /\ Stack!Cardinality(1 .. Len(s)) = IF 1 > Len(s) THEN 0 ELSE Len(s) - 1 + 1
      BY <3>1, FS_Interval, StackCardinality
    <3> QED
      BY <3>2, <1>0
  <2> QED
    BY <2>2, <2>3, FS_Bijection, StackCardinality
<1>3. Stack!Contents = s
  <2>1. Stack!Contents = [i \in 1 .. Len(s) |-> Stack!Walk[i - 1]]
    BY <1>2 DEF Stack!Contents, Stack!Depth
  <2>2. \A i \in 1 .. Len(s) : Stack!Walk[i - 1] = s[i]
    BY <1>0, StackListWalked
  <2>3. s = [i \in 1 .. Len(s) |-> s[i]]
    BY <1>0
  <2> QED
    BY <2>1, <2>2, <2>3
<1> QED
  BY <1>1, <1>3

(* The same of the next state.                                             *)
LEMMA StackListsAreContents ==
  MaxNodes \in Nat => \A s : Stack!IsList(s) => Stack!Contents = s /\ Stack!Live = {s[i] : i \in 1 .. Len(s)}
BY StackListIsContents

(* The list of the next state, when it is known.                           *)
LEMMA StackListAfter ==
  (MaxNodes \in Nat => \A s : Stack!IsList(s) => Stack!Contents = s /\ Stack!Live = {s[i] : i \in 1 .. Len(s)})'
BY StackListsAreContents, PTL

(* What Contents is when it is a list: its nodes are the live ones.        *)
LEMMA StackListFacts ==
  ASSUME MaxNodes \in Nat, Stack!IsList(Stack!Contents)
  PROVE  /\ Stack!Contents \in Seq(Stack!Nodes) /\ Len(Stack!Contents) \in 0 .. MaxNodes
         /\ Stack!Live = {Stack!Contents[i] : i \in 1 .. Len(Stack!Contents)}
         /\ Stack!Live \subseteq Stack!Nodes
         /\ \A i \in 1 .. Len(Stack!Contents) : Stack!Contents[i] \in Stack!Nodes /\ Stack!Contents[i] # Stack!nullptr
         /\ Stack!Contents = <<>> <=> Len(Stack!Contents) = 0
         /\ (kHead = Stack!nullptr /\ Stack!Contents = <<>>) \/ (kHead \in Stack!Live /\ kHead = Stack!Contents[1] /\ Len(Stack!Contents) >= 1)
<1>1. Stack!Contents \in Seq(Stack!Nodes) /\ Len(Stack!Contents) \in 0 .. MaxNodes
      /\ \A i \in 1 .. Len(Stack!Contents) : Stack!Contents[i] \in Stack!Nodes /\ Stack!Contents[i] # Stack!nullptr
  BY DEF Stack!IsList, Stack!Nodes, Stack!nullptr
<1>2. Stack!Live = {Stack!Contents[i] : i \in 1 .. Len(Stack!Contents)}
  BY StackListIsContents
<1>3. Stack!Contents = <<>> <=> Len(Stack!Contents) = 0
  BY <1>1
<1>4. CASE Len(Stack!Contents) = 0
  BY <1>1, <1>2, <1>3, <1>4 DEF Stack!IsList
<1>5. CASE Len(Stack!Contents) # 0
  <2>1. 1 \in 1 .. Len(Stack!Contents)
    BY <1>1, <1>5
  <2> QED
    BY <2>1, <1>1, <1>2, <1>3, <1>5 DEF Stack!IsList
<1> QED
  BY <1>4, <1>5

(* A step that leaves head_ and the links of the live nodes alone keeps    *)
(* the list.                                                               *)
LEMMA StackListKept ==
  ASSUME MaxNodes \in Nat, Stack!IsList(Stack!Contents), kHead' = kHead,
         \A n \in Stack!Live : kNext'[n] = kNext[n]
  PROVE  Stack!IsList(Stack!Contents)' /\ Stack!Contents' = Stack!Contents /\ Stack!Live' = Stack!Live
<1>1. PICK s : s = Stack!Contents
  OBVIOUS
<1>2. \A i \in 1 .. Len(s) : kNext'[s[i]] = kNext[s[i]]
  BY <1>1, StackListFacts
<1>3. Stack!IsList(s)'
  <2>1. Stack!IsList(s)
    BY <1>1
  <2> QED
    BY <1>2, <2>1 DEF Stack!IsList
<1>4. Stack!Contents' = s /\ Stack!Live' = {s[i] : i \in 1 .. Len(s)}
  BY <1>3, StackListAfter
<1> QED
  BY <1>1, <1>3, <1>4, StackListFacts

(* A step that moves no node keeps each in its place.                      *)
LEMMA StackPlacedKept ==
  ASSUME Stack!Placed, Stack!Live' = Stack!Live, Stack!Held' = Stack!Held, UNCHANGED <<kNode, kRetired, kMade>>
  PROVE  Stack!Placed'
BY DEF Stack!Placed, Stack!Retired

(* try_pop() loads head_.                                                  *)
LEMMA StackLookKeeps ==
  ASSUME Stack!IInv, NEW t \in StackThreads, Stack!PopLoad(t) \/ Stack!PopFails(t)
  PROVE  Stack!IInv' /\ Stack!Contents' = Stack!Contents
<1>0. Stack!Types /\ MaxNodes \in Nat /\ Stack!IsList(Stack!Contents) /\ Stack!Placed /\ Stack!Loaded
  BY DEF Stack!IInv, Stack!Types
<1>1. /\ UNCHANGED <<kHead, kNext, kRetired, kMade, kNode>>
      /\ kCur' = [kCur EXCEPT ![t] = kHead] /\ kNxt' = [kNxt EXCEPT ![t] = Stack!nullptr]
      /\ kPc' = [kPc EXCEPT ![t] = IF kHead = Stack!nullptr THEN "idle" ELSE "next"]
      /\ kPc[t] \in {"idle", "pop"}
  BY DEF Stack!PopLoad, Stack!PopFails, Stack!Look, Stack!Goto
<1>2. Stack!IsList(Stack!Contents)' /\ Stack!Contents' = Stack!Contents /\ Stack!Live' = Stack!Live
  BY <1>0, <1>1, StackListKept
<1>3. Stack!Types'
  BY <1>0, <1>1 DEF Stack!Types
<1>4. Stack!Held' = Stack!Held /\ \A u \in StackThreads : kPc'[u] = "push" <=> kPc[u] = "push"
  BY <1>0, <1>1 DEF Stack!Types, Stack!Held
<1>5. Stack!Placed'
  BY <1>0, <1>1, <1>2, <1>4, StackPlacedKept
<1>6. Stack!Loaded'
  <2> SUFFICES ASSUME NEW u \in StackThreads, kPc'[u] \in {"next", "pop"}
               PROVE  /\ kCur'[u] \in 1 .. kMade'
                      /\ \A v \in StackThreads : kPc'[v] = "push" => kNode'[v] # kCur'[u]
                      /\ kPc'[u] = "pop" => kNxt'[u] = kNext'[kCur'[u]]
    BY DEF Stack!Loaded
  <2>1. CASE u = t
    <3>1. kPc'[u] = "next" /\ kCur'[u] = kHead /\ kHead # Stack!nullptr
      BY <1>0, <1>1, <2>1 DEF Stack!Types
    <3>2. kHead \in Stack!Live
      BY <1>0, <3>1, StackListFacts
    <3>3. \A v \in StackThreads : kPc[v] = "push" => kNode[v] # kHead
      BY <1>0, <3>2 DEF Stack!Placed, Stack!Held
    <3> QED
      BY <1>0, <1>1, <1>4, <3>1, <3>2, <3>3 DEF Stack!Placed
  <2>2. CASE u # t
    <3>1. kPc'[u] = kPc[u] /\ kCur'[u] = kCur[u] /\ kNxt'[u] = kNxt[u]
      BY <1>0, <1>1, <2>2 DEF Stack!Types
    <3> QED
      BY <1>0, <1>1, <1>4, <3>1 DEF Stack!Loaded
  <2> QED
    BY <2>1, <2>2
<1> QED
  BY <1>2, <1>3, <1>5, <1>6 DEF Stack!IInv

(* It loads the link of a node that nobody writes any more.                *)
LEMMA StackPopNextKeeps ==
  ASSUME Stack!IInv, NEW t \in StackThreads, Stack!PopNext(t)
  PROVE  Stack!IInv' /\ Stack!Contents' = Stack!Contents
<1>0. Stack!Types /\ MaxNodes \in Nat /\ Stack!IsList(Stack!Contents) /\ Stack!Placed /\ Stack!Loaded
  BY DEF Stack!IInv, Stack!Types
<1>1. /\ UNCHANGED <<kHead, kNext, kRetired, kMade, kNode, kCur>> /\ kPc[t] = "next"
      /\ kNxt' = [kNxt EXCEPT ![t] = kNext[kCur[t]]] /\ kPc' = [kPc EXCEPT ![t] = "pop"]
  BY DEF Stack!PopNext, Stack!Goto
<1>2. Stack!IsList(Stack!Contents)' /\ Stack!Contents' = Stack!Contents /\ Stack!Live' = Stack!Live
  BY <1>0, <1>1, StackListKept
<1>a. kCur[t] \in Stack!Nodes
  BY <1>0, <1>1 DEF Stack!Loaded, Stack!Types, Stack!Nodes
<1>3. Stack!Types'
  BY <1>0, <1>1, <1>a DEF Stack!Types
<1>4. Stack!Held' = Stack!Held
  BY <1>0, <1>1 DEF Stack!Types, Stack!Held
<1>5. Stack!Placed'
  BY <1>0, <1>1, <1>2, <1>4, StackPlacedKept
<1>6. Stack!Loaded'
  BY <1>0, <1>1 DEF Stack!Loaded, Stack!Types
<1> QED
  BY <1>2, <1>3, <1>5, <1>6 DEF Stack!IInv

(* push() makes a node and loads head_ into its link.                      *)
LEMMA StackPushNewKeeps ==
  ASSUME Stack!IInv, NEW t \in StackThreads, Stack!PushNew(t)
  PROVE  Stack!IInv' /\ Stack!Contents' = Stack!Contents
<1>0. Stack!Types /\ MaxNodes \in Nat /\ Stack!IsList(Stack!Contents) /\ Stack!Placed /\ Stack!Loaded /\ kMade \in Nat
  BY DEF Stack!IInv, Stack!Types
<1>1. /\ UNCHANGED <<kHead, kNext, kRetired, kNxt>> /\ kPc[t] = "idle"
      /\ kMade < MaxNodes /\ kMade' = kMade + 1 /\ kNode' = [kNode EXCEPT ![t] = kMade + 1]
      /\ kCur' = [kCur EXCEPT ![t] = kHead] /\ kPc' = [kPc EXCEPT ![t] = "push"]
  BY DEF Stack!PushNew, Stack!Goto
<1>2. Stack!IsList(Stack!Contents)' /\ Stack!Contents' = Stack!Contents /\ Stack!Live' = Stack!Live
  BY <1>0, <1>1, StackListKept
<1>3. Stack!Types'
  BY <1>0, <1>1 DEF Stack!Types, Stack!Nodes
<1>4. Stack!Held' = Stack!Held \cup {t} /\ t \notin Stack!Held
  BY <1>0, <1>1 DEF Stack!Types, Stack!Held
<1>a. Stack!Retired' = Stack!Retired /\ kNode'[t] = kMade + 1 /\ \A u \in StackThreads \ {t} : kNode'[u] = kNode[u]
  BY <1>0, <1>1 DEF Stack!Types, Stack!Retired
<1>b. Stack!Held \subseteq StackThreads \ {t}
  BY <1>4 DEF Stack!Held
<1>5. Stack!Placed'
  <2>1. \A u \in Stack!Held' : kNode'[u] \in 1 .. kMade' /\ kNode'[u] \notin Stack!Live' \cup Stack!Retired'
    BY <1>0, <1>1, <1>2, <1>4, <1>a, <1>b DEF Stack!Placed
  <2>2. \A u, v \in Stack!Held' : kNode'[u] = kNode'[v] => u = v
    BY <1>0, <1>4, <1>a, <1>b DEF Stack!Placed
  <2>3. \A n \in 1 .. kMade' : n \in Stack!Live' \cup Stack!Retired' \/ \E u \in Stack!Held' : kNode'[u] = n
    BY <1>0, <1>1, <1>2, <1>4, <1>a, <1>b DEF Stack!Placed
  <2> QED
    BY <1>0, <1>1, <1>2, <1>a, <2>1, <2>2, <2>3 DEF Stack!Placed
<1>6. Stack!Loaded'
  BY <1>0, <1>1, <1>a DEF Stack!Loaded, Stack!Types
<1> QED
  BY <1>2, <1>3, <1>5, <1>6 DEF Stack!IInv

(* A CAS that fails writes the link of a node that is still private.       *)
LEMMA StackPushFailsKeeps ==
  ASSUME Stack!IInv, NEW t \in StackThreads, Stack!PushFails(t)
  PROVE  Stack!IInv' /\ Stack!Contents' = Stack!Contents
<1>0. Stack!Types /\ MaxNodes \in Nat /\ Stack!IsList(Stack!Contents) /\ Stack!Placed /\ Stack!Loaded
  BY DEF Stack!IInv, Stack!Types
<1>1. /\ UNCHANGED <<kHead, kRetired, kMade, kPc, kNode, kNxt>> /\ kPc[t] = "push"
      /\ kNext' = [kNext EXCEPT ![kNode[t]] = kCur[t]] /\ kCur' = [kCur EXCEPT ![t] = kHead]
  BY DEF Stack!PushFails
<1>a. t \in Stack!Held /\ kNode[t] \notin Stack!Live
  BY <1>0, <1>1 DEF Stack!Placed, Stack!Held
<1>b. \A n \in Stack!Nodes \ {kNode[t]} : kNext'[n] = kNext[n]
  BY <1>0, <1>1 DEF Stack!Types
<1>2. Stack!IsList(Stack!Contents)' /\ Stack!Contents' = Stack!Contents /\ Stack!Live' = Stack!Live
  BY <1>0, <1>1, <1>a, <1>b, StackListFacts, StackListKept
<1>3. Stack!Types'
  BY <1>0, <1>1 DEF Stack!Types
<1>4. Stack!Held' = Stack!Held
  BY <1>1 DEF Stack!Held
<1>5. Stack!Placed'
  BY <1>0, <1>1, <1>2, <1>4, StackPlacedKept
<1>6. Stack!Loaded'
  <2> SUFFICES ASSUME NEW u \in StackThreads, kPc[u] \in {"next", "pop"}
               PROVE  /\ kCur'[u] \in 1 .. kMade
                      /\ \A v \in StackThreads : kPc[v] = "push" => kNode[v] # kCur'[u]
                      /\ kPc[u] = "pop" => kNxt[u] = kNext'[kCur'[u]]
    BY <1>1 DEF Stack!Loaded
  <2>1. u # t /\ kCur'[u] = kCur[u]
    BY <1>0, <1>1 DEF Stack!Types
  <2>2. kCur[u] \in Stack!Nodes /\ kCur[u] # kNode[t]
    BY <1>0, <1>1 DEF Stack!Loaded, Stack!Types, Stack!Nodes
  <2> QED
    BY <1>0, <1>b, <2>1, <2>2 DEF Stack!Loaded
<1> QED
  BY <1>2, <1>3, <1>5, <1>6 DEF Stack!IInv

(* A popped node goes to the retired list.                                 *)
LEMMA StackRetireKeeps ==
  ASSUME Stack!IInv, NEW t \in StackThreads, Stack!Retire(t)
  PROVE  Stack!IInv' /\ Stack!Contents' = Stack!Contents
<1>0. Stack!Types /\ MaxNodes \in Nat /\ Stack!IsList(Stack!Contents) /\ Stack!Placed /\ Stack!Loaded
  BY DEF Stack!IInv, Stack!Types
<1>1. /\ UNCHANGED <<kHead, kNext, kMade>> /\ kPc[t] = "retire"
      /\ kRetired' = <<kNode[t]>> \o kRetired
      /\ kPc' = [kPc EXCEPT ![t] = "idle"] /\ kNode' = [kNode EXCEPT ![t] = Stack!nullptr]
      /\ kCur' = [kCur EXCEPT ![t] = Stack!nullptr] /\ kNxt' = [kNxt EXCEPT ![t] = Stack!nullptr]
  BY DEF Stack!Retire, Stack!Return, Stack!Goto
<1>2. Stack!IsList(Stack!Contents)' /\ Stack!Contents' = Stack!Contents /\ Stack!Live' = Stack!Live
  BY <1>0, <1>1, StackListKept
<1>4. Stack!Held' = Stack!Held \ {t} /\ t \in Stack!Held /\ \A u \in Stack!Held' : kNode'[u] = kNode[u] /\ u \in Stack!Held
  BY <1>0, <1>1 DEF Stack!Types, Stack!Held
<1>a. kNode[t] \in Stack!Nodes
  BY <1>0, <1>4 DEF Stack!Placed, Stack!Types, Stack!Nodes
<1>b. /\ kRetired \in Seq(Stack!Nodes) /\ kRetired' \in Seq(Stack!Nodes) /\ Len(kRetired) \in Nat
      /\ Len(kRetired') = Len(kRetired) + 1 /\ kRetired'[1] = kNode[t]
      /\ \A i \in 2 .. Len(kRetired) + 1 : kRetired'[i] = kRetired[i - 1]
  BY <1>0, <1>1, <1>a DEF Stack!Types
<1>3. Stack!Types'
  BY <1>0, <1>1, <1>b DEF Stack!Types
<1>c. Stack!Retired' = Stack!Retired \cup {kNode[t]}
  <2>1. ASSUME NEW x \in Stack!Retired' PROVE x \in Stack!Retired \cup {kNode[t]}
    <3>1. PICK i \in 1 .. Len(kRetired) + 1 : x = kRetired'[i]
      BY <1>b DEF Stack!Retired
    <3>2. CASE i = 1
      BY <3>1, <3>2, <1>b
    <3>3. CASE i # 1
      <4>1. i \in 2 .. Len(kRetired) + 1 /\ i - 1 \in 1 .. Len(kRetired)
        BY <3>3, <1>b
      <4> QED
        BY <4>1, <3>1, <1>b DEF Stack!Retired
    <3> QED
      BY <3>2, <3>3
  <2>2. ASSUME NEW i \in 1 .. Len(kRetired) PROVE kRetired[i] \in Stack!Retired'
    <3>1. i + 1 \in 2 .. Len(kRetired) + 1 /\ i + 1 \in 1 .. Len(kRetired')
      BY <1>b
    <3>2. kRetired'[i + 1] = kRetired[i]
      BY <3>1, <1>b
    <3> QED
      BY <3>1, <3>2 DEF Stack!Retired
  <2>3. kNode[t] \in Stack!Retired'
    <3>1. 1 \in 1 .. Len(kRetired')
      BY <1>b
    <3> QED
      BY <3>1, <1>b DEF Stack!Retired
  <2> QED
    BY <2>1, <2>2, <2>3 DEF Stack!Retired
<1>5. Stack!Placed'
  <2>1. \A u \in Stack!Held' : kNode'[u] \in 1 .. kMade' /\ kNode'[u] \notin Stack!Live' \cup Stack!Retired'
    BY <1>0, <1>1, <1>2, <1>4, <1>c DEF Stack!Placed
  <2>2. \A u, v \in Stack!Held' : kNode'[u] = kNode'[v] => u = v
    BY <1>0, <1>4 DEF Stack!Placed
  <2>3. \A n \in 1 .. kMade' : n \in Stack!Live' \cup Stack!Retired' \/ \E u \in Stack!Held' : kNode'[u] = n
    BY <1>0, <1>1, <1>2, <1>4, <1>c DEF Stack!Placed
  <2>4. ASSUME NEW i \in 1 .. Len(kRetired'), NEW j \in 1 .. Len(kRetired'), kRetired'[i] = kRetired'[j], i < j
        PROVE  FALSE
    <3>1. j \in 2 .. Len(kRetired) + 1 /\ j - 1 \in 1 .. Len(kRetired) /\ kRetired'[j] = kRetired[j - 1]
      BY <1>b, <2>4
    <3>2. CASE i = 1
      BY <3>1, <3>2, <2>4, <1>b, <1>0, <1>4 DEF Stack!Placed, Stack!Retired
    <3>3. CASE i # 1
      <4>1. i \in 2 .. Len(kRetired) + 1 /\ i - 1 \in 1 .. Len(kRetired) /\ kRetired'[i] = kRetired[i - 1]
        BY <1>b, <3>3
      <4>2. i - 1 = j - 1
        BY <4>1, <3>1, <2>4, <1>0 DEF Stack!Placed
      <4> QED
        BY <4>2, <2>4, <1>b
    <3> QED
      BY <3>2, <3>3
  <2>5. \A i, j \in 1 .. Len(kRetired') : kRetired'[i] = kRetired'[j] => i = j
    <3> SUFFICES ASSUME NEW i \in 1 .. Len(kRetired'), NEW j \in 1 .. Len(kRetired'), kRetired'[i] = kRetired'[j]
                 PROVE  i = j
      OBVIOUS
    <3>1. i < j \/ j < i \/ i = j
      BY <1>b
    <3> QED
      BY <3>1, <2>4
  <2>6. Stack!Live' \cup Stack!Retired' \subseteq 1 .. kMade' /\ Stack!Live' \cap Stack!Retired' = {}
    BY <1>0, <1>1, <1>2, <1>4, <1>c DEF Stack!Placed
  <2> QED
    BY <2>1, <2>2, <2>3, <2>5, <2>6 DEF Stack!Placed
<1>6. Stack!Loaded'
  BY <1>0, <1>1 DEF Stack!Loaded, Stack!Types
<1> QED
  BY <1>2, <1>3, <1>5, <1>6 DEF Stack!IInv

(* A list without repetitions is no longer than the nodes that were made.  *)
LEMMA StackFits ==
  ASSUME NEW n \in Nat, NEW r \in Seq(1 .. n), \A i, j \in 1 .. Len(r) : r[i] = r[j] => i = j
  PROVE  Len(r) <= n
<1> DEFINE S == {r[i] : i \in 1 .. Len(r)}
<1>0. Len(r) \in Nat /\ S \subseteq 1 .. n
  OBVIOUS
<1>1. r \in Bijection(1 .. Len(r), S)
  <2>1. r \in [1 .. Len(r) -> S]
    OBVIOUS
  <2> QED
    BY <2>1 DEF Bijection, Injection, Surjection, IsInjective
<1>2. ExistsBijection(1 .. Len(r), S)
  BY <1>1 DEF ExistsBijection
<1>3. Stack!IsFiniteSet(1 .. Len(r)) /\ Stack!Cardinality(1 .. Len(r)) = Len(r) /\ Stack!IsFiniteSet(1 .. n) /\ Stack!Cardinality(1 .. n) = n
  <2>1. \A k \in Nat : Stack!IsFiniteSet(1 .. k) /\ Stack!Cardinality(1 .. k) = IF 1 > k THEN 0 ELSE k - 1 + 1
    <3> TAKE k \in Nat
    <3>1. 1 \in Int /\ k \in Int
      OBVIOUS
    <3> QED
      BY <3>1, FS_Interval, StackCardinality
  <2>2. \A k \in Nat : (IF 1 > k THEN 0 ELSE k - 1 + 1) = k
    OBVIOUS
  <2> QED
    BY <1>0, <2>1, <2>2
<1> HIDE DEF S
<1>4. Stack!Cardinality(S) = Len(r)
  BY <1>2, <1>3, FS_Bijection, StackCardinality
<1>5. Stack!Cardinality(S) <= Stack!Cardinality(1 .. n)
  <2>1. IsFiniteSet(1 .. n)
    BY <1>3, StackCardinality
  <2>2. Cardinality(S) <= Cardinality(1 .. n)
    BY <1>0, <2>1, FS_Subset
  <2> QED
    BY <2>2, StackCardinality
<1> QED
  BY <1>3, <1>4, <1>5

(* The CAS of push() puts the node on top.                                 *)
LEMMA StackPushCasKeeps ==
  ASSUME Stack!IInv, NEW t \in StackThreads, Stack!PushCas(t)
  PROVE  Stack!IInv' /\ kNode[t] \in Stack!Nodes /\ Stack!Contents' = <<kNode[t]>> \o Stack!Contents
<1>0. Stack!Types /\ MaxNodes \in Nat /\ Stack!IsList(Stack!Contents) /\ Stack!Placed /\ Stack!Loaded
  BY DEF Stack!IInv, Stack!Types
<1>1. /\ UNCHANGED <<kRetired, kMade>> /\ kPc[t] = "push" /\ kHead = kCur[t] /\ kHead' = kNode[t]
      /\ kNext' = [kNext EXCEPT ![kNode[t]] = kCur[t]]
      /\ kPc' = [kPc EXCEPT ![t] = "idle"] /\ kNode' = [kNode EXCEPT ![t] = Stack!nullptr]
      /\ kCur' = [kCur EXCEPT ![t] = Stack!nullptr] /\ kNxt' = [kNxt EXCEPT ![t] = Stack!nullptr]
  BY DEF Stack!PushCas, Stack!Return, Stack!Goto
<1>4. Stack!Held' = Stack!Held \ {t} /\ t \in Stack!Held /\ \A u \in Stack!Held' : kNode'[u] = kNode[u] /\ u \in Stack!Held
  BY <1>0, <1>1 DEF Stack!Types, Stack!Held
<1>2. PICK s : s = Stack!Contents
  OBVIOUS
<1>3. PICK x : x = kNode[t]
  OBVIOUS
<1>5. x \in Stack!Nodes /\ x \notin Stack!Live /\ x \notin Stack!Retired /\ x \in 1 .. kMade
  BY <1>0, <1>3, <1>4 DEF Stack!Placed, Stack!Types, Stack!Nodes
<1>6. /\ s \in Seq(Stack!Nodes) /\ Len(s) \in Nat /\ \A i \in 1 .. Len(s) : s[i] \in Stack!Nodes /\ s[i] \in Stack!Live
      /\ Stack!Live = {s[i] : i \in 1 .. Len(s)}
      /\ (kHead = Stack!nullptr /\ Len(s) = 0) \/ (kHead = s[1] /\ Len(s) >= 1)
  BY <1>0, <1>2, StackListFacts
<1>7. PICK r : r = <<x>> \o s
  OBVIOUS
<1>8. /\ r \in Seq(Stack!Nodes) /\ Len(r) = Len(s) + 1 /\ r # <<>> /\ r[1] = x
      /\ \A i \in 2 .. Len(r) : i - 1 \in 1 .. Len(s) /\ r[i] = s[i - 1]
  BY <1>5, <1>6, <1>7
<1>9. \A i, j \in 1 .. Len(r) : r[i] = r[j] => i = j
  <2> SUFFICES ASSUME NEW i \in 1 .. Len(r), NEW j \in 1 .. Len(r), r[i] = r[j] PROVE i = j
    OBVIOUS
  <2>0. \A k \in 2 .. Len(r) : r[k] # x
    BY <1>5, <1>6, <1>8
  <2>1. CASE i = 1 \/ j = 1
    <3>1. (i = 1 \/ i \in 2 .. Len(r)) /\ (j = 1 \/ j \in 2 .. Len(r))
      BY <1>6, <1>8
    <3> QED
      BY <2>0, <2>1, <3>1, <1>8
  <2>2. CASE i # 1 /\ j # 1
    <3>1. i \in 2 .. Len(r) /\ j \in 2 .. Len(r)
      BY <2>2, <1>6, <1>8
    <3>a. s[i - 1] = s[j - 1] /\ i - 1 \in 1 .. Len(s) /\ j - 1 \in 1 .. Len(s)
      BY <3>1, <1>8
    <3>2. i - 1 = j - 1
      BY <3>a, <1>0, <1>2 DEF Stack!IsList
    <3> QED
      BY <3>1, <3>2, <1>6, <1>8
  <2> QED
    BY <2>1, <2>2
<1>10. Len(r) <= MaxNodes
  BY <1>0, <1>8, <1>9, StackFits DEF Stack!Nodes
<1>11. kNext'[x] = kHead /\ \A n \in Stack!Nodes \ {x} : kNext'[n] = kNext[n]
  BY <1>0, <1>1, <1>3, <1>5 DEF Stack!Types
<1>12. ASSUME NEW i \in 1 .. Len(r) PROVE kNext'[r[i]] = IF i < Len(r) THEN r[i + 1] ELSE Stack!nullptr
  <2>1. CASE i = 1
    <3>1. CASE Len(s) = 0
      BY <2>1, <3>1, <1>6, <1>8, <1>11
    <3>2. CASE Len(s) # 0
      <4>1. 2 \in 2 .. Len(r) /\ r[2] = s[1] /\ kHead = s[1] /\ 1 < Len(r)
        BY <3>2, <1>6, <1>8
      <4> QED
        BY <2>1, <4>1, <1>8, <1>11
    <3> QED
      BY <3>1, <3>2
  <2>2. CASE i # 1
    <3>1. i \in 2 .. Len(r) /\ i - 1 \in 1 .. Len(s) /\ r[i] = s[i - 1]
      BY <2>2, <1>6, <1>8
    <3>2. r[i] \in Stack!Nodes \ {x}
      BY <3>1, <1>5, <1>6
    <3>3. kNext[s[i - 1]] = IF i - 1 < Len(s) THEN s[(i - 1) + 1] ELSE Stack!nullptr
      BY <3>1, <1>0, <1>2 DEF Stack!IsList
    <3>4. i < Len(r) => r[i + 1] = s[i]
      <4> SUFFICES ASSUME i < Len(r) PROVE r[i + 1] = s[i]
        OBVIOUS
      <4>1. i + 1 \in 2 .. Len(r) /\ (i + 1) - 1 = i
        BY <3>1, <1>6, <1>8
      <4> QED
        BY <4>1, <1>8
    <3>5. (i - 1 < Len(s) <=> i < Len(r)) /\ (i - 1) + 1 = i
      BY <3>1, <1>6, <1>8
    <3> QED
      BY <3>1, <3>2, <3>3, <3>4, <3>5, <1>11
  <2> QED
    BY <2>1, <2>2
<1>13. Stack!IsList(r)'
  BY <1>1, <1>3, <1>8, <1>9, <1>10, <1>12 DEF Stack!IsList
<1>14. Stack!Contents' = r /\ Stack!Live' = {r[i] : i \in 1 .. Len(r)}
  BY <1>0, <1>13, StackListAfter
<1>15. Stack!Live' = Stack!Live \cup {x}
  <2>1. ASSUME NEW i \in 1 .. Len(r) PROVE r[i] \in Stack!Live \cup {x}
    <3>1. CASE i = 1
      BY <3>1, <1>8
    <3>2. CASE i # 1
      <4>1. i \in 2 .. Len(r)
        BY <3>2, <1>6, <1>8
      <4> QED
        BY <4>1, <1>6, <1>8
    <3> QED
      BY <3>1, <3>2
  <2>2. ASSUME NEW i \in 1 .. Len(s) PROVE s[i] \in Stack!Live'
    <3>1. i + 1 \in 2 .. Len(r) /\ i + 1 \in 1 .. Len(r) /\ (i + 1) - 1 = i
      BY <1>6, <1>8
    <3>2. r[i + 1] = s[i]
      BY <3>1, <1>8
    <3> QED
      BY <3>1, <3>2, <1>14
  <2>3. x \in Stack!Live'
    <3>1. 1 \in 1 .. Len(r)
      BY <1>6, <1>8
    <3> QED
      BY <3>1, <1>8, <1>14
  <2> QED
    BY <2>1, <2>2, <2>3, <1>6, <1>14
<1>16. Stack!Types'
  BY <1>0, <1>1, <1>3, <1>5 DEF Stack!Types
<1>17. Stack!Placed'
  <2>0. Stack!Retired' = Stack!Retired /\ kMade' = kMade
    BY <1>1 DEF Stack!Retired
  <2>1. \A u \in Stack!Held' : kNode'[u] \in 1 .. kMade' /\ kNode'[u] \notin Stack!Live' \cup Stack!Retired'
    BY <1>0, <1>3, <1>4, <1>15, <2>0 DEF Stack!Placed
  <2>2. \A u, v \in Stack!Held' : kNode'[u] = kNode'[v] => u = v
    BY <1>0, <1>4 DEF Stack!Placed
  <2>3. \A n \in 1 .. kMade' : n \in Stack!Live' \cup Stack!Retired' \/ \E u \in Stack!Held' : kNode'[u] = n
    BY <1>0, <1>3, <1>4, <1>15, <2>0 DEF Stack!Placed
  <2>4. Stack!Live' \cup Stack!Retired' \subseteq 1 .. kMade' /\ Stack!Live' \cap Stack!Retired' = {}
    BY <1>0, <1>5, <1>15, <2>0 DEF Stack!Placed
  <2> QED
    BY <1>0, <1>1, <2>1, <2>2, <2>3, <2>4 DEF Stack!Placed
<1>18. Stack!Loaded'
  <2> SUFFICES ASSUME NEW u \in StackThreads, kPc'[u] \in {"next", "pop"}
               PROVE  /\ kCur'[u] \in 1 .. kMade'
                      /\ \A v \in StackThreads : kPc'[v] = "push" => kNode'[v] # kCur'[u]
                      /\ kPc'[u] = "pop" => kNxt'[u] = kNext'[kCur'[u]]
    BY DEF Stack!Loaded
  <2>1. u # t /\ kPc'[u] = kPc[u] /\ kCur'[u] = kCur[u] /\ kNxt'[u] = kNxt[u]
    BY <1>0, <1>1 DEF Stack!Types
  <2>2. kCur[u] \in Stack!Nodes \ {x}
    BY <1>0, <1>1, <1>3, <2>1 DEF Stack!Loaded, Stack!Types, Stack!Nodes
  <2>3. \A v \in StackThreads : kPc'[v] = "push" => kPc[v] = "push" /\ kNode'[v] = kNode[v]
    BY <1>0, <1>1 DEF Stack!Types
  <2> QED
    BY <1>0, <1>1, <1>11, <2>1, <2>2, <2>3 DEF Stack!Loaded
<1> QED
  BY <1>2, <1>3, <1>5, <1>7, <1>13, <1>14, <1>16, <1>17, <1>18 DEF Stack!IInv

(* The CAS of try_pop() takes the top off: its link is what was loaded, as *)
(* no node returns to head_ once it was popped.                            *)
LEMMA StackPopCasKeeps ==
  ASSUME Stack!IInv, NEW t \in StackThreads, Stack!PopCas(t)
  PROVE  Stack!IInv' /\ Stack!Contents # <<>> /\ Stack!Contents' = Tail(Stack!Contents)
<1>0. Stack!Types /\ MaxNodes \in Nat /\ Stack!IsList(Stack!Contents) /\ Stack!Placed /\ Stack!Loaded
  BY DEF Stack!IInv, Stack!Types
<1>1. /\ UNCHANGED <<kNext, kRetired, kMade, kCur, kNxt>> /\ kPc[t] = "pop" /\ kHead = kCur[t] /\ kHead' = kNxt[t]
      /\ kNode' = [kNode EXCEPT ![t] = kCur[t]] /\ kPc' = [kPc EXCEPT ![t] = "retire"]
  BY DEF Stack!PopCas, Stack!Goto
<1>2. PICK s : s = Stack!Contents
  OBVIOUS
<1>3. kCur[t] \in 1 .. kMade /\ kCur[t] \in Stack!Nodes /\ kCur[t] # Stack!nullptr /\ kNxt[t] = kNext[kCur[t]]
  BY <1>0, <1>1 DEF Stack!Loaded, Stack!Types, Stack!Nodes, Stack!nullptr
<1>6. /\ s \in Seq(Stack!Nodes) /\ Len(s) \in Nat /\ \A i \in 1 .. Len(s) : s[i] \in Stack!Nodes /\ s[i] \in Stack!Live
      /\ Stack!Live = {s[i] : i \in 1 .. Len(s)}
      /\ kHead = s[1] /\ Len(s) >= 1 /\ s # <<>> /\ Len(s) <= MaxNodes
      /\ \A i, j \in 1 .. Len(s) : s[i] = s[j] => i = j
  BY <1>0, <1>1, <1>2, <1>3, StackListFacts DEF Stack!IsList
<1>7. PICK r : r = Tail(s)
  OBVIOUS
<1>8. /\ r \in Seq(Stack!Nodes) /\ Len(r) = Len(s) - 1 /\ Len(r) \in Nat /\ (r = <<>> <=> Len(s) = 1)
      /\ \A i \in 1 .. Len(r) : i + 1 \in 1 .. Len(s) /\ r[i] = s[i + 1]
  <2>1. r \in Seq(Stack!Nodes) /\ Len(r) = Len(s) - 1 /\ \A i \in 1 .. Len(r) : r[i] = s[i + 1]
    BY <1>6, <1>7
  <2>2. Len(r) \in Nat /\ (r = <<>> <=> Len(r) = 0)
    BY <2>1
  <2> QED
    BY <2>1, <2>2, <1>6
<1>9. \A i, j \in 1 .. Len(r) : r[i] = r[j] => i = j
  <2> SUFFICES ASSUME NEW i \in 1 .. Len(r), NEW j \in 1 .. Len(r), r[i] = r[j] PROVE i = j
    OBVIOUS
  <2>1. i + 1 = j + 1
    BY <1>6, <1>8
  <2> QED
    BY <2>1, <1>8
<1>10. \A i \in 1 .. Len(s) : kNext[s[i]] = IF i < Len(s) THEN s[i + 1] ELSE Stack!nullptr
  BY <1>0, <1>2 DEF Stack!IsList
<1>11. kHead' = IF r = <<>> THEN Stack!nullptr ELSE r[1]
  <2>1. kNxt[t] = IF 1 < Len(s) THEN s[2] ELSE Stack!nullptr
    BY <1>1, <1>3, <1>6, <1>10
  <2>2. 1 < Len(s) => r[1] = s[2]
    BY <1>8, <1>6
  <2> QED
    BY <1>1, <1>6, <1>8, <2>1, <2>2
<1>12. ASSUME NEW i \in 1 .. Len(r) PROVE kNext'[r[i]] = IF i < Len(r) THEN r[i + 1] ELSE Stack!nullptr
  <2>1. i + 1 \in 1 .. Len(s) /\ r[i] = s[i + 1]
    BY <1>8
  <2>2. kNext[s[i + 1]] = IF i + 1 < Len(s) THEN s[(i + 1) + 1] ELSE Stack!nullptr
    BY <2>1, <1>10
  <2>3. i < Len(r) => r[i + 1] = s[(i + 1) + 1]
    BY <1>8
  <2>4. i + 1 < Len(s) <=> i < Len(r)
    BY <1>6, <1>8
  <2> QED
    BY <1>1, <2>1, <2>2, <2>3, <2>4
<1>13. Stack!IsList(r)'
  <2>1. Len(r) <= MaxNodes
    BY <1>0, <1>6, <1>8
  <2> QED
    BY <2>1, <1>8, <1>9, <1>11, <1>12 DEF Stack!IsList
<1>14. Stack!Contents' = r /\ Stack!Live' = {r[i] : i \in 1 .. Len(r)}
  BY <1>0, <1>13, StackListAfter
<1>15. Stack!Live' = Stack!Live \ {kCur[t]} /\ kCur[t] \in Stack!Live
  <2>1. ASSUME NEW i \in 1 .. Len(r) PROVE r[i] \in Stack!Live /\ r[i] # s[1]
    <3>1. i + 1 \in 1 .. Len(s) /\ r[i] = s[i + 1] /\ i + 1 # 1 /\ 1 \in 1 .. Len(s)
      BY <1>6, <1>8
    <3> QED
      BY <3>1, <1>6
  <2>2. ASSUME NEW i \in 1 .. Len(s), s[i] # s[1] PROVE s[i] \in Stack!Live'
    <3>1. i # 1
      BY <2>2
    <3>2. i - 1 \in 1 .. Len(r) /\ (i - 1) + 1 = i
      BY <3>1, <1>6, <1>8
    <3>3. r[i - 1] = s[i]
      BY <3>2, <1>8
    <3> QED
      BY <3>2, <3>3, <1>14
  <2>3. 1 \in 1 .. Len(s)
    BY <1>6
  <2>4. \A n \in Stack!Live' : n \in Stack!Live /\ n # kCur[t]
    BY <2>1, <1>1, <1>6, <1>14
  <2>5. \A n \in Stack!Live : n # kCur[t] => n \in Stack!Live'
    BY <2>2, <1>1, <1>6
  <2> QED
    BY <2>3, <2>4, <2>5, <1>1, <1>6
<1>4. Stack!Held' = Stack!Held \cup {t} /\ t \notin Stack!Held /\ kNode'[t] = kCur[t] /\ \A u \in Stack!Held : kNode'[u] = kNode[u]
  BY <1>0, <1>1 DEF Stack!Types, Stack!Held
<1>16. Stack!Types'
  BY <1>0, <1>1 DEF Stack!Types
<1>17. Stack!Placed'
  <2>0. Stack!Retired' = Stack!Retired /\ kMade' = kMade
    BY <1>1 DEF Stack!Retired
  <2>1. \A u \in Stack!Held' : kNode'[u] \in 1 .. kMade' /\ kNode'[u] \notin Stack!Live' \cup Stack!Retired'
    BY <1>0, <1>3, <1>4, <1>15, <2>0 DEF Stack!Placed
  <2>2. \A u, v \in Stack!Held' : kNode'[u] = kNode'[v] => u = v
    BY <1>0, <1>4, <1>15 DEF Stack!Placed
  <2>3. \A n \in 1 .. kMade' : n \in Stack!Live' \cup Stack!Retired' \/ \E u \in Stack!Held' : kNode'[u] = n
    BY <1>0, <1>4, <1>15, <2>0 DEF Stack!Placed
  <2>4. Stack!Live' \cup Stack!Retired' \subseteq 1 .. kMade' /\ Stack!Live' \cap Stack!Retired' = {}
    BY <1>0, <1>15, <2>0 DEF Stack!Placed
  <2> QED
    BY <1>0, <1>1, <2>1, <2>2, <2>3, <2>4 DEF Stack!Placed
<1>18. Stack!Loaded'
  BY <1>0, <1>1 DEF Stack!Loaded, Stack!Types
<1> QED
  BY <1>2, <1>6, <1>7, <1>13, <1>14, <1>16, <1>17, <1>18 DEF Stack!IInv

(* Every step keeps IInv, and pushes or pops one node at the top or leaves *)
(* the stack alone.                                                        *)
LEMMA StackInductive ==
  ASSUME Stack!IInv, [Stack!Next]_Stack!vars
  PROVE  Stack!IInv' /\ (Stack!LifoStep \/ Stack!Contents' = Stack!Contents)
<1>1. CASE UNCHANGED Stack!vars
  <2>1. UNCHANGED <<kHead, kNext, kRetired, kMade, kPc, kNode, kCur, kNxt>>
    BY <1>1 DEF Stack!vars
  <2>2. Stack!IsList(Stack!Contents)' /\ Stack!Contents' = Stack!Contents /\ Stack!Live' = Stack!Live
    BY <2>1, StackListKept DEF Stack!IInv, Stack!Types
  <2>3. Stack!Types' /\ Stack!Loaded'
    BY <2>1 DEF Stack!IInv, Stack!Types, Stack!Loaded
  <2>4. Stack!Held' = Stack!Held
    BY <2>1 DEF Stack!Held
  <2> QED
    BY <2>1, <2>2, <2>3, <2>4, StackPlacedKept DEF Stack!IInv
<1>2. ASSUME NEW t \in StackThreads, Stack!PushCas(t) PROVE Stack!IInv' /\ Stack!LifoStep
  BY <1>2, StackPushCasKeeps DEF Stack!LifoStep, Stack!PushTop
<1>3. ASSUME NEW t \in StackThreads, Stack!PopCas(t) PROVE Stack!IInv' /\ Stack!LifoStep
  BY <1>3, StackPopCasKeeps DEF Stack!LifoStep, Stack!PopTop
<1> QED
  BY <1>1, <1>2, <1>3, StackLookKeeps, StackPopNextKeeps, StackPushNewKeeps, StackPushFailsKeeps, StackRetireKeeps DEF Stack!Next

(* A new stack is empty.                                                   *)
LEMMA StackInitHolds ==
  ASSUME MaxNodes \in Nat, Stack!Init
  PROVE  Stack!IInv /\ Stack!Contents = <<>>
<1>1. Stack!Types
  BY DEF Stack!Init, Stack!Types
<1>2. Stack!IsList(<<>>)
  BY DEF Stack!Init, Stack!IsList
<1>3. Stack!Contents = <<>> /\ Stack!Live = {}
  BY <1>2, StackListIsContents
<1>4. Stack!Held = {} /\ Stack!Retired = {}
  BY DEF Stack!Init, Stack!Held, Stack!Retired
<1> QED
  BY <1>1, <1>2, <1>3, <1>4 DEF Stack!IInv, Stack!Placed, Stack!Loaded, Stack!Init

(* What the invariant promises.                                            *)
LEMMA StackImplied ==
  ASSUME Stack!IInv
  PROVE  Stack!OnePlace /\ Stack!ReadNextIsCurrent
<1>0. Stack!Types /\ Stack!Placed /\ Stack!Loaded
  BY DEF Stack!IInv
<1>1. Stack!ReadNextIsCurrent
  BY <1>0 DEF Stack!Loaded, Stack!ReadNextIsCurrent
<1>2. ASSUME NEW n \in 1 .. kMade
      PROVE  Stack!Cardinality({t \in Stack!Held : kNode[t] = n}) + Stack!Cardinality({i \in 1 .. Len(kRetired) : kRetired[i] = n})
               + (IF n \in Stack!Live THEN 1 ELSE 0) = 1
  <2> DEFINE H == {t \in Stack!Held : kNode[t] = n}
             R == {i \in 1 .. Len(kRetired) : kRetired[i] = n}
  <2>1. (H = {} /\ \A t \in Stack!Held : kNode[t] # n) \/ (\E t \in Stack!Held : H = {t} /\ kNode[t] = n)
    BY <1>0 DEF Stack!Placed
  <2>2. (R = {} /\ n \notin Stack!Retired) \/ (\E i \in 1 .. Len(kRetired) : R = {i} /\ n \in Stack!Retired)
    BY <1>0 DEF Stack!Placed, Stack!Retired
  <2>3. Stack!Cardinality(H) = IF H = {} THEN 0 ELSE 1
    BY <2>1, FS_EmptySet, FS_Singleton, StackCardinality
  <2>4. Stack!Cardinality(R) = IF R = {} THEN 0 ELSE 1
    BY <2>2, FS_EmptySet, FS_Singleton, StackCardinality
  <2>5. \/ H # {} /\ R = {} /\ n \notin Stack!Live
        \/ H = {} /\ R # {} /\ n \notin Stack!Live
        \/ H = {} /\ R = {} /\ n \in Stack!Live
    <3> HIDE DEF H, R
    <3> QED
      BY <2>1, <2>2, <1>0 DEF Stack!Placed
  <2> HIDE DEF H, R
  <2>6. Stack!Cardinality(H) + Stack!Cardinality(R) + (IF n \in Stack!Live THEN 1 ELSE 0) = 1
    BY <2>3, <2>4, <2>5
  <2> QED
    BY <2>6 DEF H, R
<1> QED
  BY <1>1, <1>2 DEF Stack!OnePlace

-----------------------------------------------------------------------------
(* HashMap.                                                                *)

Map == INSTANCE HashMap WITH Keys <- MapKeys, Values <- MapValues,
        kInitialCapacity <- InitialCapacity, Wrap <- TombstoneWrap,
        CopiesTombstones <- FALSE, nodes_ <- hNodes, size_ <- hSize,
        tombstones_ <- hTombstones

(* Map's finite sets are those that the theorems on finite sets are about. *)
LEMMA MapCardinality ==
  ASSUME NEW S
  PROVE  Map!Cardinality(S) = Cardinality(S) /\ (Map!IsFiniteSet(S) <=> IsFiniteSet(S))
BY DEF Map!Cardinality, Cardinality, Map!IsFiniteSet, IsFiniteSet

(* The capacity of a table and the range of its slots.                     *)
LEMMA MapCapOf == ASSUME NEW c \in Nat, NEW t \in Map!Tab(c) PROVE Map!capacity(t) = c /\ DOMAIN t = 0 .. c - 1 /\ Map!IsFiniteSet(DOMAIN t)
<1>1. DOMAIN t = 0 .. c - 1
  BY DEF Map!Tab
<1>2. 0 \in Int /\ c - 1 \in Int
  OBVIOUS
<1>3. Map!IsFiniteSet(0 .. c - 1) /\ Map!Cardinality(0 .. c - 1) = IF 0 > c - 1 THEN 0 ELSE c - 1 - 0 + 1
  BY ONLY <1>2, FS_Interval, MapCardinality
<1>4. Map!Cardinality(0 .. c - 1) = c
  BY <1>3
<1>. QED BY <1>1, <1>3, <1>4 DEF Map!capacity

(* The remainder is the one number below the divisor that differs by a     *)
(* multiple.                                                               *)
LEMMA MapModOf ==
  ASSUME NEW c \in Nat \ {0}, NEW q \in Int, NEW i \in 0 .. c - 1, NEW x \in Int, x = c * q + i
  PROVE  x % c = i
<1>1. x = c * (x \div c) + (x % c)
  OBVIOUS
<1>2. PICK a, y : a = x \div c /\ y = x % c
  OBVIOUS
<1>3. a \in Int /\ y \in 0 .. c - 1
  BY <1>2
<1>4. y - i = c * (q - a)
  BY <1>1, <1>2, <1>3
<1>5. q - a >= 1 \/ q - a <= -1 \/ q - a = 0
  BY <1>3
<1>6. y = i
  BY <1>3, <1>4, <1>5
<1>. QED BY <1>2, <1>6

(* A walk of c slots meets every slot.                                     *)
LEMMA MapCovers ==
  ASSUME NEW c \in Nat \ {0}, NEW k \in Nat, NEW i \in 0 .. c - 1
  PROVE  \E p \in 0 .. c - 1 : (k + p) % c = i
<1>1. k = c * (k \div c) + (k % c)
  OBVIOUS
<1>2. PICK a, y : a = k \div c /\ y = k % c
  OBVIOUS
<1>3. a \in Int /\ y \in 0 .. c - 1
  BY <1>2
<1>4. CASE y <= i
  <2>1. PICK p \in 0 .. c - 1 : p = i - y
    BY <1>3, <1>4
  <2>2. k + p = c * a + i /\ k + p \in Int
    BY <1>1, <1>2, <1>3, <2>1
  <2>. QED BY <2>2, <1>3, MapModOf
<1>5. CASE ~(y <= i)
  <2>1. PICK p \in 0 .. c - 1 : p = i + c - y
    BY <1>3, <1>5
  <2>2. k + p = c * (a + 1) + i /\ k + p \in Int
    BY <1>1, <1>2, <1>3, <2>1
  <2>3. a + 1 \in Int
    BY <1>3
  <2>. QED BY <2>2, <2>3, MapModOf
<1>. QED BY <1>4, <1>5

(* A walk stays in the table and meets every slot.                         *)
LEMMA MapProbeIn ==
  ASSUME NEW c \in Nat \ {0}, NEW t \in Map!Tab(c), NEW k \in Nat
  PROVE  /\ \A p \in DOMAIN t : Map!Probe(t, k, p) \in DOMAIN t
         /\ \A i \in DOMAIN t : \E p \in DOMAIN t : Map!Probe(t, k, p) = i
<1>1. Map!capacity(t) = c /\ DOMAIN t = 0 .. c - 1
  BY MapCapOf
<1>2. ASSUME NEW p \in 0 .. c - 1 PROVE (k + p) % c \in 0 .. c - 1
  OBVIOUS
<1>3. ASSUME NEW i \in 0 .. c - 1 PROVE \E p \in 0 .. c - 1 : (k + p) % c = i
  BY MapCovers
<1>4. \A p \in DOMAIN t : Map!Probe(t, k, p) \in DOMAIN t
  BY <1>1, <1>2 DEF Map!Probe
<1>5. \A i \in DOMAIN t : \E p \in DOMAIN t : Map!Probe(t, k, p) = i
  BY <1>1, <1>3 DEF Map!Probe
<1>. QED BY <1>4, <1>5

(* What a slot with a pair holds.                                          *)
LEMMA MapPairSlot ==
  ASSUME Map!Sized, NEW c \in Nat, NEW t \in Map!Tab(c), NEW i \in Map!FilledIn(t)
  PROVE  i \in DOMAIN t /\ t[i] \in MapKeys \X MapValues /\ t[i][1] \in MapKeys /\ t[i][2] \in MapValues /\ t[i] = <<t[i][1], t[i][2]>>
<1>1. i \in DOMAIN t /\ t[i] \in Map!Slots /\ t[i] # kEmpty /\ t[i] # kTombstone
  BY DEF Map!FilledIn, Map!Filled, Map!Tab
<1>2. PICK s \in MapKeys \X MapValues : s = t[i]
  BY <1>1 DEF Map!Slots
<1>. QED BY <1>1, <1>2

(* A key whose pair is in the table is found, where it is.                 *)
LEMMA MapFindIs ==
  ASSUME Map!Sized, NEW c \in Nat, NEW t \in Map!Tab(c), Map!Whole(t), NEW k \in MapKeys
  PROVE  Map!find_node(t, k) = {i \in Map!FilledIn(t) : t[i][1] = k}
<1>1. ASSUME NEW i \in Map!find_node(t, k) PROVE i \in Map!FilledIn(t) /\ t[i][1] = k
  <2>1. PICK p \in DOMAIN t : /\ Map!Probe(t, k, p) = i /\ Map!Filled(t[i])
                              /\ t[Map!Probe(t, k, p)] = kEmpty \/ (Map!Filled(t[Map!Probe(t, k, p)]) /\ t[Map!Probe(t, k, p)][1] = k)
    BY <1>1 DEF Map!find_node, Map!FirstProbe, Map!Probes
  <2>2. c # 0
    BY <2>1, MapCapOf
  <2>3. i \in DOMAIN t
    BY <2>1, <2>2, MapProbeIn DEF Map!Sized
  <2>. QED BY <2>1, <2>3 DEF Map!FilledIn, Map!Filled
<1>2. ASSUME NEW i \in Map!FilledIn(t), t[i][1] = k PROVE i \in Map!find_node(t, k)
  <2>0. DOMAIN t = 0 .. c - 1 /\ Map!Filled(t[i])
    BY MapCapOf DEF Map!FilledIn
  <2>1. PICK r \in DOMAIN t : Map!Probe(t, k, r) = i /\ \A q \in DOMAIN t : q < r => t[Map!Probe(t, k, q)] # kEmpty
    BY <1>2 DEF Map!Whole, Map!Chained, Map!Reached
  <2>. DEFINE B == {p \in DOMAIN t : Map!Probe(t, k, p) = i}
  <2>2. B \in SUBSET Nat /\ r \in B
    BY <2>0, <2>1
  <2>3. PICK p \in B : \A q \in B : p <= q
    <3>. HIDE DEF B
    <3>. QED BY <2>2, LeastNat
  <2>4. p \in DOMAIN t /\ Map!Probe(t, k, p) = i /\ p <= r
    BY <2>2, <2>3
  <2>5. ASSUME NEW q \in DOMAIN t, q < p
        PROVE  t[Map!Probe(t, k, q)] # kEmpty /\ ~(Map!Filled(t[Map!Probe(t, k, q)]) /\ t[Map!Probe(t, k, q)][1] = k)
    <3>1. q < r /\ q \notin B
      BY <2>0, <2>3, <2>4, <2>5
    <3>2. Map!Probe(t, k, q) # i /\ t[Map!Probe(t, k, q)] # kEmpty
      BY <3>1, <2>1
    <3>3. Map!Probe(t, k, q) \in DOMAIN t
      <4>1. c # 0
        BY <2>0
      <4>. QED BY <4>1, MapProbeIn DEF Map!Sized
    <3>4. ASSUME Map!Filled(t[Map!Probe(t, k, q)]), t[Map!Probe(t, k, q)][1] = k PROVE FALSE
      <4>1. Map!Probe(t, k, q) \in Map!FilledIn(t)
        BY <3>3, <3>4 DEF Map!FilledIn
      <4>. QED BY <4>1, <3>2, <3>4, <1>2 DEF Map!Whole, Map!Once
    <3>. QED BY <3>2, <3>4
  <2>. HIDE DEF B
  <2>6. p \in {x \in DOMAIN t : /\ t[Map!Probe(t, k, x)] = kEmpty \/ (Map!Filled(t[Map!Probe(t, k, x)]) /\ t[Map!Probe(t, k, x)][1] = k)
                                /\ \A q \in DOMAIN t : q < x => ~(t[Map!Probe(t, k, q)] = kEmpty \/ (Map!Filled(t[Map!Probe(t, k, q)]) /\ t[Map!Probe(t, k, q)][1] = k))}
    BY <2>0, <2>4, <2>5, <1>2
  <2>. QED BY <2>0, <2>4, <2>6 DEF Map!find_node, Map!FirstProbe, Map!Probes
<1>. QED BY <1>1, <1>2

\* Slot a is free, and those that the walk of k passes before it are not.
MapIsFree(t, k, a) ==
  \E p \in DOMAIN t : /\ a = Map!Probe(t, k, p) /\ ~Map!Filled(t[a])
                      /\ \A q \in DOMAIN t : q < p => Map!Filled(t[Map!Probe(t, k, q)])

(* A table that is not full has a free slot on every walk.                 *)
LEMMA MapFreeOnWalk ==
  ASSUME NEW c \in Nat \ {0}, NEW t \in Map!Tab(c), NEW k \in Nat, NEW j \in DOMAIN t, ~Map!Filled(t[j])
  PROVE  \E p \in DOMAIN t : ~Map!Filled(t[Map!Probe(t, k, p)]) /\ \A q \in DOMAIN t : q < p => Map!Filled(t[Map!Probe(t, k, q)])
<1>. DEFINE B == {p \in DOMAIN t : ~Map!Filled(t[Map!Probe(t, k, p)])}
<1>0. DOMAIN t = 0 .. c - 1
  BY MapCapOf
<1>1. B \in SUBSET Nat /\ B # {}
  <2>1. PICK p \in DOMAIN t : Map!Probe(t, k, p) = j
    BY MapProbeIn
  <2>. QED BY <2>1, <1>0
<1>2. PICK p \in B : \A q \in B : p <= q
  <2>. HIDE DEF B
  <2>. QED BY <1>1, LeastNat
<1>. QED BY <1>0, <1>2

\* u is t with s at a.
MapSetTo(u, t, a, s) == u = [t EXCEPT ![a] = s]

\* u is t with s at a, and still whole.
MapPutAt(u, c, t, a, s) ==
  /\ u \in Map!Tab(c) /\ Map!Whole(u) /\ Map!PairsOf(u) = Map!PairsOf(t) \cup {s} /\ a \in DOMAIN t
  /\ \A i \in DOMAIN t : u[i] = IF i = a THEN s ELSE t[i]

(* A pair of a new key goes to the first free slot of its walk.            *)
LEMMA MapPlacing ==
  ASSUME Map!Sized, NEW c \in Nat \ {0}, NEW t \in Map!Tab(c), Map!Whole(t), NEW s \in MapKeys \X MapValues, s[1] \notin Map!KeysOf(t),
         NEW a, MapIsFree(t, s[1], a), NEW u, MapSetTo(u, t, a, s)
  PROVE  MapPutAt(u, c, t, a, s)
<1>0. s[1] \in Nat /\ s[1] \in MapKeys /\ s # kEmpty /\ s # kTombstone /\ Map!Filled(s)
  BY DEF Map!Sized, Map!Filled
<1>1. PICK p \in DOMAIN t : /\ a = Map!Probe(t, s[1], p) /\ ~Map!Filled(t[a])
                            /\ \A q \in DOMAIN t : q < p => Map!Filled(t[Map!Probe(t, s[1], q)])
  BY DEF MapIsFree
<1>2. a \in DOMAIN t
  BY <1>0, <1>1, MapProbeIn
<1>3. u \in Map!Tab(c) /\ DOMAIN u = DOMAIN t /\ \A i \in DOMAIN t : u[i] = IF i = a THEN s ELSE t[i]
  <2>1. s \in Map!Slots
    BY DEF Map!Slots
  <2>. QED BY <2>1, <1>2 DEF Map!Tab, MapSetTo
<1>4. Map!capacity(u) = Map!capacity(t)
  BY <1>3, MapCapOf
<1>5. \A k, q : Map!Probe(u, k, q) = Map!Probe(t, k, q)
  BY <1>4 DEF Map!Probe
<1>6. Map!FilledIn(u) = Map!FilledIn(t) \cup {a} /\ a \notin Map!FilledIn(t)
  BY <1>0, <1>1, <1>2, <1>3 DEF Map!FilledIn
<1>7. \A i \in Map!FilledIn(t) : u[i] = t[i] /\ i \in DOMAIN t
  BY <1>3, <1>6 DEF Map!FilledIn
<1>8. u[a] = s
  BY <1>2, <1>3
<1>9. Map!PairsOf(u) = Map!PairsOf(t) \cup {s}
  <2>1. ASSUME NEW x \in Map!PairsOf(u) PROVE x \in Map!PairsOf(t) \cup {s}
    <3>1. PICK i \in Map!FilledIn(u) : x = u[i]
      BY <2>1 DEF Map!PairsOf
    <3>. QED BY <3>1, <1>6, <1>7, <1>8 DEF Map!PairsOf
  <2>2. ASSUME NEW x \in Map!PairsOf(t) PROVE x \in Map!PairsOf(u)
    <3>1. PICK i \in Map!FilledIn(t) : x = t[i]
      BY <2>2 DEF Map!PairsOf
    <3>2. i \in Map!FilledIn(u) /\ x = u[i]
      BY <3>1, <1>6, <1>7
    <3>. QED BY <3>2 DEF Map!PairsOf
  <2>3. s \in Map!PairsOf(u)
    BY <1>6, <1>8 DEF Map!PairsOf
  <2>. QED BY <2>1, <2>2, <2>3
<1>10. \A i \in DOMAIN t : t[i] # kEmpty => u[i] # kEmpty
  BY <1>0, <1>3
<1>11. ASSUME NEW i \in Map!FilledIn(u) PROVE Map!Reached(u, u[i][1], i)
  <2>1. CASE i = a
    <3>1. ASSUME NEW q \in DOMAIN u, q < p PROVE u[Map!Probe(u, s[1], q)] # kEmpty
      <4>1. PICK j \in DOMAIN t : j = Map!Probe(t, s[1], q)
        BY <1>0, <1>3, MapProbeIn
      <4>2. t[j] # kEmpty
        BY <4>1, <1>1, <1>3, <3>1 DEF Map!Filled
      <4>. QED BY <4>1, <4>2, <1>5, <1>10
    <3>2. p \in DOMAIN u /\ Map!Probe(u, s[1], p) = a
      BY <1>1, <1>3, <1>5
    <3>3. Map!Reached(u, s[1], a)
      BY <3>1, <3>2 DEF Map!Reached
    <3>. QED BY <3>3, <2>1, <1>8
  <2>2. CASE i # a
    <3>1. i \in Map!FilledIn(t) /\ u[i] = t[i]
      BY <2>2, <1>6, <1>7
    <3>2. PICK k : k = t[i][1]
      OBVIOUS
    <3>3. k \in Nat
      BY <3>1, <3>2, MapPairSlot DEF Map!Sized
    <3>4. PICK r \in DOMAIN t : Map!Probe(t, k, r) = i /\ \A q \in DOMAIN t : q < r => t[Map!Probe(t, k, q)] # kEmpty
      BY <3>1, <3>2 DEF Map!Whole, Map!Chained, Map!Reached
    <3>5. ASSUME NEW q \in DOMAIN t, q < r PROVE u[Map!Probe(u, k, q)] # kEmpty
      <4>1. PICK j \in DOMAIN t : j = Map!Probe(t, k, q)
        BY <3>3, MapProbeIn
      <4>. QED BY <4>1, <3>4, <3>5, <1>5, <1>10
    <3>6. r \in DOMAIN u /\ Map!Probe(u, k, r) = i /\ \A q \in DOMAIN u : q < r => u[Map!Probe(u, k, q)] # kEmpty
      BY <3>4, <3>5, <1>3, <1>5
    <3>7. Map!Reached(u, k, i)
      BY <3>6 DEF Map!Reached
    <3>. QED BY <3>1, <3>2, <3>7
  <2>. QED BY <2>1, <2>2
<1>12. ASSUME NEW i \in Map!FilledIn(u), NEW j \in Map!FilledIn(u), u[i][1] = u[j][1] PROVE i = j
  <2>1. \A x \in Map!FilledIn(t) : t[x][1] # s[1]
    BY DEF Map!KeysOf, Map!PairsOf
  <2>. QED BY <2>1, <1>6, <1>7, <1>8, <1>12 DEF Map!Whole, Map!Once
<1>13. Map!Whole(u)
  BY <1>11, <1>12 DEF Map!Whole, Map!Chained, Map!Once
<1>. QED BY <1>2, <1>3, <1>9, <1>13 DEF MapPutAt

(* As many keys as slots with pairs; fewer than slots, then one is free.   *)
LEMMA MapCounted ==
  ASSUME Map!Sized, NEW c \in Nat, NEW t \in Map!Tab(c), Map!Once(t)
  PROVE  /\ Map!IsFiniteSet(Map!FilledIn(t)) /\ Map!IsFiniteSet(Map!KeysOf(t))
         /\ Map!Cardinality(Map!FilledIn(t)) = Map!Cardinality(Map!KeysOf(t)) /\ Map!Cardinality(Map!KeysOf(t)) \in Nat
         /\ Map!Cardinality(Map!KeysOf(t)) <= c
         /\ Map!Cardinality(Map!KeysOf(t)) < c => \E j \in DOMAIN t : ~Map!Filled(t[j])
<1>1. Map!IsFiniteSet(DOMAIN t) /\ Map!capacity(t) = c
  BY MapCapOf
<1>2. Map!FilledIn(t) \in SUBSET DOMAIN t
  BY DEF Map!FilledIn
<1>3. Map!IsFiniteSet(Map!FilledIn(t)) /\ Map!Cardinality(Map!FilledIn(t)) <= c
  BY <1>1, <1>2, FS_Subset, MapCardinality DEF Map!capacity
<1>4. PICK f : f = [i \in Map!FilledIn(t) |-> t[i][1]]
  OBVIOUS
<1>5. f \in [Map!FilledIn(t) -> Map!KeysOf(t)] /\ \A i \in Map!FilledIn(t) : f[i] = t[i][1]
  BY <1>4 DEF Map!KeysOf, Map!PairsOf
<1>6. \A k \in Map!KeysOf(t) : \E i \in Map!FilledIn(t) : f[i] = k
  BY <1>5 DEF Map!KeysOf, Map!PairsOf
<1>7. \A i, j \in Map!FilledIn(t) : f[i] = f[j] => i = j
  BY <1>5 DEF Map!Once
<1>8. ExistsBijection(Map!FilledIn(t), Map!KeysOf(t))
  <2>1. f \in Bijection(Map!FilledIn(t), Map!KeysOf(t))
    BY <1>5, <1>6, <1>7 DEF Bijection, Injection, Surjection, IsInjective
  <2>. QED BY <2>1 DEF ExistsBijection
<1>9. Map!IsFiniteSet(Map!KeysOf(t)) /\ Map!Cardinality(Map!KeysOf(t)) = Map!Cardinality(Map!FilledIn(t))
  BY <1>3, <1>8, FS_Bijection, MapCardinality
<1>10. Map!Cardinality(Map!KeysOf(t)) \in Nat
  BY <1>9, FS_CardinalityType, MapCardinality
<1>11. ASSUME Map!Cardinality(Map!KeysOf(t)) < c, \A j \in DOMAIN t : Map!Filled(t[j]) PROVE FALSE
  <2>1. Map!FilledIn(t) = DOMAIN t
    BY <1>11 DEF Map!FilledIn
  <2>. QED BY <2>1, <1>1, <1>9, <1>10, <1>11 DEF Map!capacity
<1>. QED BY <1>3, <1>9, <1>10, <1>11

\* No slot is a tombstone.
MapNoTomb(t) == \A i \in DOMAIN t : t[i] # kTombstone

(* place(): in a table without tombstones, a free slot is an empty one.    *)
LEMMA MapPlaced ==
  ASSUME Map!Sized, NEW c \in Nat \ {0}, NEW t \in Map!Tab(c), Map!Whole(t), MapNoTomb(t), NEW s \in MapKeys \X MapValues, s[1] \notin Map!KeysOf(t),
         Map!Cardinality(Map!KeysOf(t)) < c
  PROVE  Map!place(t, s) \in Map!Tab(c) /\ Map!Whole(Map!place(t, s)) /\ MapNoTomb(Map!place(t, s)) /\ Map!PairsOf(Map!place(t, s)) = Map!PairsOf(t) \cup {s}
<1>0. PICK k \in Nat : k = s[1]
  BY DEF Map!Sized
<1>. DEFINE F == {p \in DOMAIN t : t[Map!Probe(t, k, p)] = kEmpty /\ \A q \in DOMAIN t : q < p => ~(t[Map!Probe(t, k, q)] = kEmpty)}
            G == {Map!Probe(t, k, p) : p \in F}
<1>1. Map!place(t, s) = [t EXCEPT ![CHOOSE i \in G : TRUE] = s]
  BY <1>0 DEF Map!place, Map!FirstProbe, Map!Probes
<1>2. \A i \in DOMAIN t : Map!Filled(t[i]) <=> t[i] # kEmpty
  BY DEF MapNoTomb, Map!Filled
<1>3. \A p \in DOMAIN t : Map!Probe(t, k, p) \in DOMAIN t
  BY MapProbeIn
<1>4. PICK j \in DOMAIN t : ~Map!Filled(t[j])
  BY MapCounted DEF Map!Whole
<1>5. PICK p \in DOMAIN t : ~Map!Filled(t[Map!Probe(t, k, p)]) /\ \A q \in DOMAIN t : q < p => Map!Filled(t[Map!Probe(t, k, q)])
  BY <1>4, MapFreeOnWalk
<1>6. p \in F
  BY <1>2, <1>3, <1>5
<1>7. G # {}
  BY <1>6
<1>8. PICK a \in G : a = CHOOSE i \in G : TRUE
  BY <1>7
<1>9. MapIsFree(t, k, a)
  BY <1>2, <1>3, <1>8 DEF MapIsFree
<1>. HIDE DEF F, G
<1>10. PICK u : MapSetTo(u, t, a, s)
  BY DEF MapSetTo
<1>11. u = Map!place(t, s)
  BY <1>1, <1>8, <1>10 DEF MapSetTo
<1>12. MapIsFree(t, s[1], a)
  BY <1>0, <1>9
<1>13. /\ u \in Map!Tab(c) /\ Map!Whole(u) /\ Map!PairsOf(u) = Map!PairsOf(t) \cup {s} /\ a \in DOMAIN t
       /\ \A i \in DOMAIN t : u[i] = IF i = a THEN s ELSE t[i]
  <2>1. MapPutAt(u, c, t, a, s)
    BY <1>10, <1>12, MapPlacing
  <2>. QED BY <2>1 DEF MapPutAt
<1>14. MapNoTomb(u)
  <2>1. DOMAIN u = DOMAIN t /\ s # kTombstone
    BY <1>10 DEF Map!Sized, MapSetTo
  <2>. QED BY <2>1, <1>13 DEF MapNoTomb
<1>. QED BY <1>11, <1>13, <1>14

\* What grow() does with a slot s of the old table.
MapMove(u, s) == IF Map!Filled(s) THEN Map!place(u, s) ELSE u

\* g goes through the tables that the first n slots make.
MapMoves(t, cap, n, g) == g = [i \in 0 .. n |-> IF i = 0 THEN Map!alloc_empty(cap) ELSE MapMove(g[i - 1], t[i - 1])]

(* The tables that grow() goes through exist as a function, for any number *)
(* of slots: a function that is defined by recursion exists up to any n,   *)
(* if not up to a least n, up to which it can be extended.                 *)
LEMMA MapMovesExist ==
  ASSUME NEW t, NEW cap, NEW n \in Nat
  PROVE  \E g : MapMoves(t, cap, n, g)
<1>. DEFINE B == {k \in Nat : ~\E g : MapMoves(t, cap, k, g)}
<1>. SUFFICES ASSUME B # {} PROVE FALSE
  OBVIOUS
<1>0. B \in SUBSET Nat
  OBVIOUS
<1>1. PICK k \in B : \A j \in B : k <= j
  <2>. HIDE DEF B
  <2>. QED BY <1>0, LeastNat
<1>2. k \in Nat /\ ~\E g : MapMoves(t, cap, k, g)
  OBVIOUS
<1>3. CASE k = 0
  <2>1. PICK g : g = [i \in 0 .. 0 |-> Map!alloc_empty(cap)]
    OBVIOUS
  <2>2. MapMoves(t, cap, 0, g)
    BY <2>1 DEF MapMoves
  <2>. QED BY <2>2, <1>2, <1>3
<1>4. CASE k # 0
  <2>1. k - 1 \in Nat /\ k - 1 \notin B
    BY <1>1, <1>2, <1>4
  <2>2. PICK g : MapMoves(t, cap, k - 1, g)
    BY <2>1
  <2>3. g = [i \in 0 .. k - 1 |-> IF i = 0 THEN Map!alloc_empty(cap) ELSE MapMove(g[i - 1], t[i - 1])]
    BY <2>2 DEF MapMoves
  <2>4. PICK h : h = [i \in 0 .. k |-> IF i = k THEN MapMove(g[k - 1], t[k - 1]) ELSE g[i]]
    OBVIOUS
  <2>5. \A i \in 0 .. k - 1 : h[i] = g[i] /\ g[i] = IF i = 0 THEN Map!alloc_empty(cap) ELSE MapMove(g[i - 1], t[i - 1])
    BY <2>3, <2>4, <1>2, <1>4
  <2>6. ASSUME NEW i \in 0 .. k PROVE h[i] = IF i = 0 THEN Map!alloc_empty(cap) ELSE MapMove(h[i - 1], t[i - 1])
    <3>1. CASE i = k
      <4>1. h[k] = MapMove(g[k - 1], t[k - 1]) /\ h[k - 1] = g[k - 1]
        BY <2>4, <2>5, <1>2, <1>4
      <4>. QED BY <4>1, <3>1, <1>4
    <3>2. CASE i = 0
      BY <2>5, <3>2, <1>2, <1>4
    <3>3. CASE i # 0 /\ i # k
      <4>1. i \in 0 .. k - 1 /\ i - 1 \in 0 .. k - 1
        BY <3>3, <1>2
      <4>. QED BY <4>1, <3>3, <2>5
    <3>. QED BY <3>1, <3>2, <3>3
  <2>7. MapMoves(t, cap, k, h)
    <3>1. h = [i \in 0 .. k |-> h[i]]
      BY <2>4
    <3>. QED BY <3>1, <2>6 DEF MapMoves
  <2>. QED BY <2>7, <1>2
<1>. QED BY <1>3, <1>4

(* Rehashed is the last of them.                                           *)
LEMMA MapRehashedMoves ==
  ASSUME NEW t, NEW cap, Map!capacity(t) \in Nat
  PROVE  \E g : MapMoves(t, cap, Map!capacity(t), g) /\ Map!Rehashed(t, cap) = g[Map!capacity(t)]
<1>1. PICK n \in Nat : n = Map!capacity(t)
  OBVIOUS
<1>2. PICK g : g = CHOOSE h : MapMoves(t, cap, n, h)
  OBVIOUS
<1>3. MapMoves(t, cap, n, g)
  BY <1>2, MapMovesExist
<1>4. Map!Rehashed(t, cap) = g[Map!capacity(t)]
  BY <1>1, <1>2 DEF Map!Rehashed, MapMoves, MapMove
<1>. QED BY <1>1, <1>3, <1>4

\* The pairs of the first i slots have been moved into u.
MapMovedInto(t, cap, u, i) ==
  /\ u \in Map!Tab(cap) /\ Map!Whole(u) /\ MapNoTomb(u)
  /\ Map!PairsOf(u) = {t[j] : j \in {x \in Map!FilledIn(t) : x < i}}
  /\ Map!Cardinality(Map!KeysOf(u)) <= i

(* A new table is whole and has no pairs.                                  *)
LEMMA MapEmptyTable ==
  ASSUME Map!Sized, NEW cap \in Nat
  PROVE  Map!alloc_empty(cap) \in Map!Tab(cap) /\ Map!Whole(Map!alloc_empty(cap)) /\ MapNoTomb(Map!alloc_empty(cap)) /\ Map!PairsOf(Map!alloc_empty(cap)) = {}
<1>1. PICK u : u = Map!alloc_empty(cap)
  OBVIOUS
<1>2. u \in Map!Tab(cap) /\ \A i \in DOMAIN u : u[i] = kEmpty
  BY <1>1 DEF Map!alloc_empty, Map!Tab, Map!Slots
<1>3. Map!FilledIn(u) = {}
  BY <1>2 DEF Map!FilledIn, Map!Filled
<1>. QED BY <1>1, <1>2, <1>3 DEF Map!Whole, Map!Chained, Map!Once, MapNoTomb, Map!PairsOf, Map!Sized

(* grow() moves the pair of slot i, if it has one.                         *)
LEMMA MapMovedStep ==
  ASSUME Map!Sized, NEW c \in Nat, NEW t \in Map!Tab(c), Map!Once(t), NEW cap \in Nat \ {0}, cap >= c,
         NEW i \in 0 .. c - 1, NEW u, MapMovedInto(t, cap, u, i)
  PROVE  MapMovedInto(t, cap, MapMove(u, t[i]), i + 1)
<1>0. u \in Map!Tab(cap) /\ Map!Whole(u) /\ MapNoTomb(u) /\ DOMAIN t = 0 .. c - 1 /\ Map!FilledIn(t) \subseteq 0 .. c - 1
      /\ Map!PairsOf(u) = {t[j] : j \in {x \in Map!FilledIn(t) : x < i}}
      /\ Map!Cardinality(Map!KeysOf(u)) <= i
  BY MapCapOf DEF MapMovedInto, Map!FilledIn
<1>1. Map!IsFiniteSet(Map!KeysOf(u)) /\ Map!Cardinality(Map!KeysOf(u)) \in Nat
  BY <1>0, MapCounted DEF Map!Whole
<1>2. CASE ~Map!Filled(t[i])
  <2>1. {x \in Map!FilledIn(t) : x < i + 1} = {x \in Map!FilledIn(t) : x < i}
    <3>1. i \notin Map!FilledIn(t)
      BY <1>2 DEF Map!FilledIn
    <3>2. \A x \in Map!FilledIn(t) : x < i + 1 <=> x < i
      BY <3>1, <1>0
    <3>. QED BY <3>2
  <2>2. MapMove(u, t[i]) = u
    BY <1>2 DEF MapMove
  <2>3. Map!Cardinality(Map!KeysOf(u)) <= i + 1
    BY <1>0, <1>1
  <2>. QED BY <1>0, <2>1, <2>2, <2>3 DEF MapMovedInto
<1>3. CASE Map!Filled(t[i])
  <2>1. i \in Map!FilledIn(t)
    BY <1>0, <1>3 DEF Map!FilledIn
  <2>2. PICK s \in MapKeys \X MapValues : s = t[i]
    BY <2>1, MapPairSlot
  <2>3. s[1] \notin Map!KeysOf(u)
    <3>. SUFFICES ASSUME s[1] \in Map!KeysOf(u) PROVE FALSE
      OBVIOUS
    <3>1. PICK j \in Map!FilledIn(t) : j < i /\ t[j][1] = s[1]
      BY <1>0 DEF Map!KeysOf
    <3>2. j = i
      BY <3>1, <2>1, <2>2 DEF Map!Once
    <3>. QED BY <3>1, <3>2
  <2>4. Map!Cardinality(Map!KeysOf(u)) < cap
    BY <1>0, <1>1
  <2>5. PICK w : w = Map!place(u, s)
    OBVIOUS
  <2>6. w \in Map!Tab(cap) /\ Map!Whole(w) /\ MapNoTomb(w) /\ Map!PairsOf(w) = Map!PairsOf(u) \cup {s}
    BY <1>0, <2>3, <2>4, <2>5, MapPlaced
  <2>7. Map!KeysOf(w) = Map!KeysOf(u) \cup {s[1]}
    BY <2>6 DEF Map!KeysOf
  <2>8. Map!Cardinality(Map!KeysOf(w)) <= i + 1
    <3>1. Map!Cardinality(Map!KeysOf(u) \cup {s[1]}) = Map!Cardinality(Map!KeysOf(u)) + 1
      BY ONLY <1>1, <2>3, FS_AddElement, MapCardinality
    <3>. QED BY <3>1, <2>7, <1>0, <1>1
  <2>9. {x \in Map!FilledIn(t) : x < i + 1} = {x \in Map!FilledIn(t) : x < i} \cup {i}
    <3>1. \A x \in Map!FilledIn(t) : x < i + 1 <=> x < i \/ x = i
      BY <1>0
    <3>2. i < i + 1
      OBVIOUS
    <3>. QED BY <3>1, <3>2, <2>1
  <2>10. Map!PairsOf(w) = {t[j] : j \in {x \in Map!FilledIn(t) : x < i + 1}}
    BY <2>2, <2>6, <2>9, <1>0
  <2>11. MapMove(u, t[i]) = w
    BY <1>3, <2>2, <2>5 DEF MapMove
  <2>. QED BY <2>6, <2>8, <2>10, <2>11 DEF MapMovedInto
<1>. QED BY <1>2, <1>3

(* grow() and reserve(): the same pairs in a table without tombstones.     *)
LEMMA MapRehash ==
  ASSUME Map!Sized, NEW c \in Nat, NEW t \in Map!Tab(c), Map!Once(t), NEW cap \in Nat \ {0}, cap >= c
  PROVE  /\ Map!Rehashed(t, cap) \in Map!Tab(cap) /\ Map!Whole(Map!Rehashed(t, cap)) /\ MapNoTomb(Map!Rehashed(t, cap))
         /\ Map!PairsOf(Map!Rehashed(t, cap)) = Map!PairsOf(t)
<1>0. Map!capacity(t) = c /\ DOMAIN t = 0 .. c - 1
  BY MapCapOf
<1>1. PICK g : MapMoves(t, cap, c, g) /\ Map!Rehashed(t, cap) = g[c]
  BY <1>0, MapRehashedMoves
<1>2. \A i \in 0 .. c : g[i] = IF i = 0 THEN Map!alloc_empty(cap) ELSE MapMove(g[i - 1], t[i - 1])
  BY ONLY <1>1 DEF MapMoves
<1>. DEFINE B == {i \in Nat : i <= c /\ ~MapMovedInto(t, cap, g[i], i)}
<1>3. B = {}
  <2>. SUFFICES ASSUME B # {} PROVE FALSE
    OBVIOUS
  <2>0. B \in SUBSET Nat
    OBVIOUS
  <2>1. PICK k \in B : \A j \in B : k <= j
    <3>. HIDE DEF B
    <3>. QED BY <2>0, LeastNat
  <2>2. k \in Nat /\ k <= c /\ ~MapMovedInto(t, cap, g[k], k)
    OBVIOUS
  <2>3. CASE k = 0
    <3>1. PICK u : u = g[0]
      OBVIOUS
    <3>2. u \in Map!Tab(cap) /\ Map!Whole(u) /\ MapNoTomb(u) /\ Map!PairsOf(u) = {}
      BY <3>1, <1>2, MapEmptyTable
    <3>3. Map!KeysOf(u) = {}
      BY <3>2 DEF Map!KeysOf
    <3>4. Map!Cardinality(Map!KeysOf(u)) <= 0
      BY <3>3, FS_EmptySet, MapCardinality
    <3>5. {x \in Map!FilledIn(t) : x < 0} = {}
      BY <1>0 DEF Map!FilledIn
    <3>6. MapMovedInto(t, cap, u, 0)
      BY <3>2, <3>4, <3>5 DEF MapMovedInto
    <3>. QED BY <3>1, <3>6, <2>2, <2>3
  <2>4. CASE k # 0
    <3>1. PICK i \in 0 .. c - 1 : i = k - 1
      BY <2>2, <2>4
    <3>2. i \notin B /\ i \in Nat /\ i <= c
      BY <3>1, <2>1, <2>2
    <3>3. MapMovedInto(t, cap, g[i], i)
      BY <3>2
    <3>4. g[k] = MapMove(g[i], t[i]) /\ i + 1 = k
      BY <3>1, <1>2, <2>2, <2>4
    <3>5. MapMovedInto(t, cap, MapMove(g[i], t[i]), i + 1)
      BY <3>3, MapMovedStep
    <3>. QED BY <3>4, <3>5, <2>2
  <2>. QED BY <2>3, <2>4
<1>4. MapMovedInto(t, cap, g[c], c)
  BY <1>3
<1>5. {x \in Map!FilledIn(t) : x < c} = Map!FilledIn(t)
  BY <1>0 DEF Map!FilledIn
<1>. QED BY <1>1, <1>4, <1>5 DEF MapMovedInto, Map!PairsOf

(* A new map.                                                              *)
LEMMA MapInit == Map!Sized /\ Map!Init => Map!IInv
<1>. SUFFICES ASSUME Map!Sized, Map!Init PROVE Map!IInv
  OBVIOUS
<1>1. hNodes \in Map!Tab(0) /\ DOMAIN hNodes = {} /\ hSize = 0
  BY DEF Map!Init, Map!NoNodes, Map!Tab
<1>2. Map!FilledIn(hNodes) = {}
  BY <1>1 DEF Map!FilledIn
<1>3. Map!KeysOf(hNodes) = {}
  BY <1>2 DEF Map!KeysOf, Map!PairsOf
<1>. QED BY <1>1, <1>2, <1>3, FS_EmptySet, MapCardinality DEF Map!IInv, Map!Good, Map!Whole, Map!Chained, Map!Once

\* What find() tells of a table.
MapFoundIn(t) == [k \in {x \in MapKeys : Map!find_node(t, x) # {}} |-> t[CHOOSE i \in Map!find_node(t, k) : TRUE][2]]

(* find() of every key tells exactly the pairs in the slots.               *)
LEMMA MapFoundPairs ==
  ASSUME Map!Sized, NEW c \in Nat, NEW t \in Map!Tab(c), Map!Whole(t)
  PROVE  /\ MapFoundIn(t) = [k \in Map!KeysOf(t) |-> MapFoundIn(t)[k]] /\ Map!KeysOf(t) \subseteq MapKeys
         /\ \A i \in Map!FilledIn(t) : MapFoundIn(t)[t[i][1]] = t[i][2]
         /\ Map!PairsOf(t) = {<<k, MapFoundIn(t)[k]>> : k \in Map!KeysOf(t)}
<1>1. \A i \in Map!FilledIn(t) : t[i][1] \in MapKeys /\ t[i] = <<t[i][1], t[i][2]>>
  BY MapPairSlot
<1>2. Map!KeysOf(t) \subseteq MapKeys
  BY <1>1 DEF Map!KeysOf, Map!PairsOf
<1>3. ASSUME NEW k \in MapKeys PROVE Map!find_node(t, k) # {} <=> k \in Map!KeysOf(t)
  BY MapFindIs DEF Map!KeysOf, Map!PairsOf
<1>4. {x \in MapKeys : Map!find_node(t, x) # {}} = Map!KeysOf(t)
  BY <1>2, <1>3
<1>5. MapFoundIn(t) = [k \in Map!KeysOf(t) |-> MapFoundIn(t)[k]]
  BY <1>4 DEF MapFoundIn
<1>6. ASSUME NEW i \in Map!FilledIn(t) PROVE MapFoundIn(t)[t[i][1]] = t[i][2]
  <2>1. PICK k \in MapKeys : k = t[i][1]
    BY <1>1
  <2>2. k \in Map!KeysOf(t)
    BY <2>1 DEF Map!KeysOf, Map!PairsOf
  <2>3. Map!find_node(t, k) = {i}
    <3>1. Map!find_node(t, k) = {j \in Map!FilledIn(t) : t[j][1] = k}
      BY MapFindIs
    <3>. QED BY <3>1, <2>1 DEF Map!Whole, Map!Once
  <2>4. (CHOOSE j \in Map!find_node(t, k) : TRUE) = i
    BY <2>3
  <2>5. MapFoundIn(t)[k] = t[i][2]
    BY <2>2, <2>4, <1>4 DEF MapFoundIn
  <2>. QED BY <2>1, <2>5
<1>7. Map!PairsOf(t) = {<<k, MapFoundIn(t)[k]>> : k \in Map!KeysOf(t)}
  <2>1. ASSUME NEW s \in Map!PairsOf(t) PROVE s[1] \in Map!KeysOf(t) /\ s = <<s[1], MapFoundIn(t)[s[1]]>>
    <3>1. PICK i \in Map!FilledIn(t) : s = t[i]
      BY DEF Map!PairsOf
    <3>. QED BY <3>1, <1>1, <1>6 DEF Map!KeysOf
  <2>2. ASSUME NEW k \in Map!KeysOf(t) PROVE <<k, MapFoundIn(t)[k]>> \in Map!PairsOf(t)
    <3>1. PICK s \in Map!PairsOf(t) : k = s[1]
      BY DEF Map!KeysOf
    <3>. QED BY <3>1, <2>1
  <2>. QED BY <2>1, <2>2
<1>. QED BY <1>2, <1>5, <1>6, <1>7

(* What the invariant promises: every key is found on its walk, and size_  *)
(* counts the keys.                                                        *)
LEMMA MapImplied == Map!Sized /\ Map!IInv => Map!ChainsWhole
<1>. SUFFICES ASSUME Map!Sized, Map!IInv PROVE Map!ChainsWhole
  OBVIOUS
<1>1. PICK c \in Nat : hNodes \in Map!Tab(c) /\ Map!Whole(hNodes) /\ hSize = Map!Cardinality(Map!KeysOf(hNodes))
  BY DEF Map!IInv, Map!Good
<1>2. Map!Found = MapFoundIn(hNodes) /\ Map!Pairs = Map!PairsOf(hNodes) /\ {j \in DOMAIN hNodes : Map!Filled(hNodes[j])} = Map!FilledIn(hNodes)
  BY DEF Map!Found, MapFoundIn, Map!Pairs, Map!PairsOf, Map!FilledIn
<1>3. DOMAIN Map!Found = Map!KeysOf(hNodes) /\ Map!PairsOf(hNodes) = {<<k, Map!Found[k]>> : k \in Map!KeysOf(hNodes)}
  BY <1>1, <1>2, MapFoundPairs
<1>4. Map!Cardinality(Map!FilledIn(hNodes)) = Map!Cardinality(Map!KeysOf(hNodes))
  BY <1>1, MapCounted DEF Map!Whole
<1>. QED BY <1>1, <1>2, <1>3, <1>4 DEF Map!ChainsWhole

(* The capacity that grow() gives.                                         *)
LEMMA MapDoubled ==
  ASSUME Map!Sized, NEW c \in Nat, NEW t \in Map!Tab(c)
  PROVE  Map!NextCapacity(t) \in Nat \ {0} /\ Map!NextCapacity(t) > c
<1>1. Map!capacity(t) = c /\ DOMAIN t = 0 .. c - 1
  BY MapCapOf
<1>2. CASE c = 0
  <2>1. DOMAIN t = {}
    BY <1>1, <1>2
  <2>2. t = Map!NoNodes
    BY <2>1 DEF Map!Tab, Map!NoNodes
  <2>. QED BY <1>2, <2>2 DEF Map!NextCapacity, Map!Sized
<1>3. CASE c # 0
  <2>1. 0 \in DOMAIN t
    BY <1>1, <1>3
  <2>2. t # Map!NoNodes
    BY <2>1 DEF Map!NoNodes
  <2>. QED BY <1>1, <1>3, <2>2 DEF Map!NextCapacity
<1>. QED BY <1>2, <1>3

(* The table that insert() works on has the pairs of before, and a slot    *)
(* left.                                                                   *)
LEMMA MapTableIs ==
  ASSUME Map!Sized, Map!IInv, NEW k \in MapKeys
  PROVE  \E c \in Nat \ {0} : /\ Map!Table(k) \in Map!Tab(c) /\ Map!Whole(Map!Table(k)) /\ Map!PairsOf(Map!Table(k)) = Map!PairsOf(hNodes)
                              /\ hSize < c
<1>1. PICK c \in Nat : hNodes \in Map!Tab(c) /\ Map!Whole(hNodes) /\ hSize = Map!Cardinality(Map!KeysOf(hNodes))
  BY DEF Map!IInv, Map!Good
<1>2. Map!capacity(hNodes) = c /\ hSize \in Nat /\ hSize <= c
  BY <1>1, MapCapOf, MapCounted DEF Map!Whole
<1>3. PICK g : g = IF Map!Overloaded(hNodes) THEN Map!Rehashed(hNodes, Map!NextCapacity(hNodes)) ELSE hNodes
  OBVIOUS
<1>4. PICK d \in Nat \ {0} : g \in Map!Tab(d) /\ Map!Whole(g) /\ Map!PairsOf(g) = Map!PairsOf(hNodes) /\ hSize < d
  <2>1. CASE Map!Overloaded(hNodes)
    <3>1. PICK d \in Nat \ {0} : d = Map!NextCapacity(hNodes) /\ d > c
      BY <1>1, MapDoubled
    <3>2. d >= c /\ hSize < d
      BY <3>1, <1>2
    <3>3. g = Map!Rehashed(hNodes, d)
      BY <1>3, <2>1, <3>1
    <3>. QED BY <1>1, <3>2, <3>3, MapRehash DEF Map!Whole
  <2>2. CASE ~Map!Overloaded(hNodes)
    <3>1. ~(10 * (hSize + 1) > 7 * c)
      BY <2>2, <1>2 DEF Map!Overloaded
    <3>2. hSize < c /\ c # 0
      BY <3>1, <1>2
    <3>. QED BY <1>1, <1>3, <2>2, <3>2
  <2>. QED BY <2>1, <2>2
<1>5. Map!Table(k) = IF (\A p \in Map!Probes(g) : g[p] # kEmpty) /\ Map!find_node(g, k) = {}
                     THEN Map!Rehashed(g, Map!NextCapacity(g)) ELSE g
  BY <1>3 DEF Map!Table
<1>6. CASE Map!Table(k) = g
  BY <1>4, <1>6
<1>7. CASE Map!Table(k) = Map!Rehashed(g, Map!NextCapacity(g))
  <2>1. PICK e \in Nat \ {0} : e = Map!NextCapacity(g) /\ e > d
    BY <1>4, MapDoubled
  <2>2. e >= d /\ hSize < e
    BY <2>1, <1>2, <1>4
  <2>3. Map!Rehashed(g, e) \in Map!Tab(e) /\ Map!Whole(Map!Rehashed(g, e)) /\ Map!PairsOf(Map!Rehashed(g, e)) = Map!PairsOf(g)
    BY <1>4, <2>2, MapRehash DEF Map!Whole
  <2>. QED BY <1>4, <1>7, <2>1, <2>2, <2>3
<1>. QED BY <1>5, <1>6, <1>7

\* What a step does to the pairs: nothing, it drops all, it drops or sets
\* one.
MapWithout(P, k) == {s \in P : s[1] # k}

MapEffect(P, Q) ==
  \/ Q = P
  \/ Q = {}
  \/ \E k \in MapKeys : Q = MapWithout(P, k) \/ \E v \in MapValues : Q = MapWithout(P, k) \cup {<<k, v>>}

(* The keys of a set of pairs.                                             *)
LEMMA MapKeysWithout ==
  ASSUME NEW P, NEW k, NEW K, K = {s[1] : s \in P}
  PROVE  {s[1] : s \in MapWithout(P, k)} = K \ {k}
BY DEF MapWithout

(* insert() of a new key takes the first free slot of its walk, after      *)
(* growing where it must; a known key changes nothing.                     *)
LEMMA MapInsertKeeps ==
  ASSUME Map!Sized, Map!IInv, NEW k \in MapKeys, NEW v \in MapValues, Map!insert(k, v)
  PROVE  Map!IInv' /\ MapEffect(Map!PairsOf(hNodes), Map!PairsOf(hNodes'))
<1>0. PICK b \in Nat : hNodes \in Map!Tab(b) /\ Map!Whole(hNodes) /\ hSize = Map!Cardinality(Map!KeysOf(hNodes))
  BY DEF Map!IInv, Map!Good
<1>1. PICK t : t = Map!Table(k)
  OBVIOUS
<1>2. PICK c \in Nat \ {0} : t \in Map!Tab(c) /\ Map!Whole(t) /\ Map!PairsOf(t) = Map!PairsOf(hNodes) /\ hSize < c
  BY <1>1, MapTableIs
<1>3. Map!KeysOf(t) = Map!KeysOf(hNodes)
  BY <1>2 DEF Map!KeysOf
<1>4. Map!find_node(t, k) # {} <=> k \in Map!KeysOf(t)
  BY <1>2, MapFindIs DEF Map!KeysOf, Map!PairsOf
<1>5. CASE Map!find_node(t, k) # {}
  <2>1. hNodes' = t /\ hSize' = hSize
    BY <1>1, <1>5 DEF Map!insert
  <2>. QED BY <1>0, <1>2, <1>3, <2>1 DEF Map!IInv, Map!Good, MapEffect
<1>6. CASE Map!find_node(t, k) = {}
  <2>. DEFINE F == {p \in DOMAIN t : ~Map!Filled(t[Map!Probe(t, k, p)]) /\ \A q \in DOMAIN t : q < p => ~(~Map!Filled(t[Map!Probe(t, k, q)]))}
              G == {Map!Probe(t, k, p) : p \in F}
  <2>1. hNodes' = [t EXCEPT ![CHOOSE i \in G : TRUE] = <<k, v>>] /\ hSize' = hSize + 1
    BY <1>1, <1>6 DEF Map!insert, Map!FirstProbe, Map!Probes
  <2>2. k \in Nat
    BY DEF Map!Sized
  <2>3. PICK j \in DOMAIN t : ~Map!Filled(t[j])
    BY <1>0, <1>2, <1>3, MapCounted DEF Map!Whole
  <2>4. PICK p \in DOMAIN t : ~Map!Filled(t[Map!Probe(t, k, p)]) /\ \A q \in DOMAIN t : q < p => Map!Filled(t[Map!Probe(t, k, q)])
    BY <1>2, <2>2, <2>3, MapFreeOnWalk
  <2>5. G # {}
    BY <2>4
  <2>6. PICK a \in G : a = CHOOSE i \in G : TRUE
    BY <2>5
  <2>7. MapIsFree(t, k, a)
    BY <2>6 DEF MapIsFree
  <2>. HIDE DEF F, G
  <2>8. PICK s \in MapKeys \X MapValues : s = <<k, v>> /\ s[1] = k
    <3>1. <<k, v>> \in MapKeys \X MapValues /\ <<k, v>>[1] = k
      OBVIOUS
    <3>. QED BY ONLY <3>1
  <2>9. MapSetTo(hNodes', t, a, s)
    BY <2>1, <2>6, <2>8 DEF MapSetTo
  <2>10. MapIsFree(t, s[1], a) /\ s[1] \notin Map!KeysOf(t)
    BY <2>7, <2>8, <1>4, <1>6
  <2>11. PICK u : u = hNodes'
    OBVIOUS
  <2>12. u \in Map!Tab(c) /\ Map!Whole(u) /\ Map!PairsOf(u) = Map!PairsOf(t) \cup {s}
    <3>1. MapSetTo(u, t, a, s)
      BY <2>9, <2>11
    <3>2. t \in Map!Tab(c) /\ Map!Whole(t)
      BY <1>2
    <3>3. MapPutAt(u, c, t, a, s)
      BY ONLY <3>1, <3>2, <2>10, Map!Sized, c \in Nat \ {0}, s \in MapKeys \X MapValues, MapPlacing
    <3>. QED BY ONLY <3>3 DEF MapPutAt
  <2>13. Map!KeysOf(u) = Map!KeysOf(t) \cup {k}
    BY <2>8, <2>12 DEF Map!KeysOf
  <2>14. Map!IsFiniteSet(Map!KeysOf(t))
    BY <1>2, MapCounted DEF Map!Whole
  <2>15. Map!Cardinality(Map!KeysOf(t) \cup {k}) = Map!Cardinality(Map!KeysOf(t)) + 1
    BY ONLY <2>14, <2>10, <2>8, FS_AddElement, MapCardinality
  <2>16. Map!Good(u, hSize')
    BY <1>0, <1>3, <2>1, <2>12, <2>13, <2>15 DEF Map!Good
  <2>17. MapWithout(Map!PairsOf(hNodes), k) = Map!PairsOf(hNodes)
    BY <1>3, <2>8, <2>10 DEF Map!KeysOf, MapWithout
  <2>18. MapEffect(Map!PairsOf(hNodes), Map!PairsOf(u))
    BY <1>2, <2>8, <2>12, <2>17 DEF MapEffect
  <2>. QED BY <2>11, <2>16, <2>18 DEF Map!IInv
<1>. QED BY <1>5, <1>6

(* One slot with key k is changed: into another pair of k, or into a       *)
(* tombstone.                                                              *)
LEMMA MapSlotSet ==
  ASSUME Map!Sized, NEW c \in Nat, NEW t \in Map!Tab(c), Map!Whole(t), NEW i \in Map!FilledIn(t), NEW x \in Map!Slots, x # kEmpty,
         Map!Filled(x) => x[1] = t[i][1], NEW u, MapSetTo(u, t, i, x)
  PROVE  /\ u \in Map!Tab(c) /\ Map!Whole(u)
         /\ Map!PairsOf(u) = MapWithout(Map!PairsOf(t), t[i][1]) \cup (IF Map!Filled(x) THEN {x} ELSE {})
<1>1. u \in Map!Tab(c) /\ DOMAIN u = DOMAIN t /\ i \in DOMAIN t /\ \A j \in DOMAIN t : u[j] = IF j = i THEN x ELSE t[j]
  BY DEF MapSetTo, Map!FilledIn, Map!Tab
<1>2. Map!capacity(u) = Map!capacity(t)
  BY <1>1, MapCapOf
<1>3. \A k, q : Map!Probe(u, k, q) = Map!Probe(t, k, q)
  BY <1>2 DEF Map!Probe
<1>4. Map!FilledIn(u) = (Map!FilledIn(t) \ {i}) \cup (IF Map!Filled(x) THEN {i} ELSE {})
  BY <1>1 DEF Map!FilledIn
<1>5. \A j \in Map!FilledIn(u) : u[j][1] = t[j][1] /\ j \in Map!FilledIn(t) /\ j \in DOMAIN t
  BY <1>1, <1>4 DEF Map!FilledIn
<1>6. ASSUME NEW j \in Map!FilledIn(u) PROVE Map!Reached(u, u[j][1], j)
  <2>1. PICK k : k = t[j][1] /\ k = u[j][1]
    BY <1>5
  <2>2. k \in Nat /\ j \in Map!FilledIn(t)
    BY <2>1, <1>5, MapPairSlot DEF Map!Sized
  <2>3. PICK r \in DOMAIN t : Map!Probe(t, k, r) = j /\ \A q \in DOMAIN t : q < r => t[Map!Probe(t, k, q)] # kEmpty
    BY <2>1, <2>2 DEF Map!Whole, Map!Chained, Map!Reached
  <2>4. c # 0
    BY <1>1, MapCapOf
  <2>5. ASSUME NEW q \in DOMAIN t, q < r PROVE u[Map!Probe(u, k, q)] # kEmpty
    <3>1. PICK y \in DOMAIN t : y = Map!Probe(t, k, q)
      BY <2>2, <2>4, MapProbeIn
    <3>. QED BY <3>1, <2>3, <2>5, <1>1, <1>3
  <2>6. r \in DOMAIN u /\ Map!Probe(u, k, r) = j /\ \A q \in DOMAIN u : q < r => u[Map!Probe(u, k, q)] # kEmpty
    BY <2>3, <2>5, <1>1, <1>3
  <2>7. Map!Reached(u, k, j)
    BY <2>6 DEF Map!Reached
  <2>. QED BY <2>1, <2>7
<1>7. Map!Once(u)
  BY <1>5 DEF Map!Whole, Map!Once
<1>8. Map!Whole(u)
  BY <1>6, <1>7 DEF Map!Whole, Map!Chained
<1>9. \A j \in Map!FilledIn(t) : j # i => t[j][1] # t[i][1] /\ j \in Map!FilledIn(u) /\ u[j] = t[j]
  BY <1>1, <1>4 DEF Map!Whole, Map!Once, Map!FilledIn
<1>10. ASSUME NEW s \in Map!PairsOf(u) PROVE s \in MapWithout(Map!PairsOf(t), t[i][1]) \cup (IF Map!Filled(x) THEN {x} ELSE {})
  <2>1. PICK j \in Map!FilledIn(u) : s = u[j]
    BY DEF Map!PairsOf
  <2>2. CASE j = i
    BY <2>1, <2>2, <1>1, <1>4
  <2>3. CASE j # i
    BY <2>1, <2>3, <1>5, <1>9 DEF Map!PairsOf, MapWithout
  <2>. QED BY <2>2, <2>3
<1>11. ASSUME NEW s \in MapWithout(Map!PairsOf(t), t[i][1]) PROVE s \in Map!PairsOf(u)
  <2>1. PICK j \in Map!FilledIn(t) : s = t[j] /\ s[1] # t[i][1]
    BY DEF Map!PairsOf, MapWithout
  <2>2. j \in Map!FilledIn(u) /\ u[j] = s
    BY <2>1, <1>9
  <2>. QED BY <2>2 DEF Map!PairsOf
<1>12. ASSUME Map!Filled(x) PROVE x \in Map!PairsOf(u)
  <2>1. i \in Map!FilledIn(u) /\ u[i] = x
    BY <1>1, <1>4, <1>12
  <2>. QED BY <2>1 DEF Map!PairsOf
<1>. QED BY <1>1, <1>8, <1>10, <1>11, <1>12

(* insert_or_assign() of a known key.                                      *)
LEMMA MapAssignKeeps ==
  ASSUME Map!Sized, Map!IInv, NEW k \in MapKeys, NEW v \in MapValues, Map!Assign(k, v)
  PROVE  Map!IInv' /\ MapEffect(Map!PairsOf(hNodes), Map!PairsOf(hNodes'))
<1>0. PICK c \in Nat : hNodes \in Map!Tab(c) /\ Map!Whole(hNodes) /\ hSize = Map!Cardinality(Map!KeysOf(hNodes))
  BY DEF Map!IInv, Map!Good
<1>1. PICK i \in Map!find_node(hNodes, k) : hNodes' = [hNodes EXCEPT ![i] = <<k, v>>]
  BY DEF Map!Assign
<1>2. i \in Map!FilledIn(hNodes) /\ hNodes[i][1] = k
  BY <1>0, <1>1, MapFindIs
<1>3. PICK x \in Map!Slots : x = <<k, v>> /\ x # kEmpty /\ x[1] = k /\ Map!Filled(x)
  <2>1. <<k, v>> \in MapKeys \X MapValues
    OBVIOUS
  <2>. QED BY <2>1 DEF Map!Slots, Map!Sized, Map!Filled
<1>4. PICK t, u : t = hNodes /\ u = hNodes'
  OBVIOUS
<1>5. MapSetTo(u, t, i, x) /\ t \in Map!Tab(c) /\ Map!Whole(t) /\ i \in Map!FilledIn(t) /\ x[1] = t[i][1] /\ x # kEmpty
  BY <1>0, <1>1, <1>2, <1>3, <1>4 DEF MapSetTo
<1>6. u \in Map!Tab(c) /\ Map!Whole(u) /\ Map!PairsOf(u) = MapWithout(Map!PairsOf(t), t[i][1]) \cup (IF Map!Filled(x) THEN {x} ELSE {})
  BY ONLY <1>5, Map!Sized, c \in Nat, x \in Map!Slots, MapSlotSet
<1>7. Map!PairsOf(u) = MapWithout(Map!PairsOf(t), k) \cup {<<k, v>>}
  BY <1>2, <1>3, <1>4, <1>6
<1>8. Map!KeysOf(u) = Map!KeysOf(t)
  <2>1. \A s \in Map!PairsOf(t) : s[1] = k \/ s \in MapWithout(Map!PairsOf(t), k)
    BY DEF MapWithout
  <2>2. k \in Map!KeysOf(t)
    BY <1>2, <1>4 DEF Map!KeysOf, Map!PairsOf
  <2>3. \A s \in MapWithout(Map!PairsOf(t), k) : s \in Map!PairsOf(t)
    BY DEF MapWithout
  <2>4. <<k, v>>[1] = k
    OBVIOUS
  <2>5. ASSUME NEW y \in Map!KeysOf(u) PROVE y \in Map!KeysOf(t)
    <3>1. PICK s \in Map!PairsOf(u) : y = s[1]
      BY DEF Map!KeysOf
    <3>. QED BY <3>1, <1>7, <2>2, <2>3, <2>4 DEF Map!KeysOf
  <2>6. ASSUME NEW y \in Map!KeysOf(t) PROVE y \in Map!KeysOf(u)
    <3>1. PICK s \in Map!PairsOf(t) : y = s[1]
      BY DEF Map!KeysOf
    <3>2. CASE s[1] = k
      <4>1. <<k, v>> \in Map!PairsOf(u)
        BY <1>7
      <4>. QED BY <4>1, <3>1, <3>2, <2>4 DEF Map!KeysOf
    <3>3. CASE s[1] # k
      BY <3>1, <3>3, <2>1, <1>7 DEF Map!KeysOf
    <3>. QED BY <3>2, <3>3
  <2>. QED BY <2>5, <2>6
<1>9. MapEffect(Map!PairsOf(t), Map!PairsOf(u))
  BY <1>7 DEF MapEffect
<1>10. hSize' = hSize
  BY DEF Map!Assign
<1>. QED BY <1>0, <1>4, <1>6, <1>8, <1>9, <1>10 DEF Map!IInv, Map!Good

(* erase() leaves a tombstone, which later walks pass.                     *)
LEMMA MapEraseKeeps ==
  ASSUME Map!Sized, Map!IInv, NEW k \in MapKeys, Map!erase(k)
  PROVE  Map!IInv' /\ MapEffect(Map!PairsOf(hNodes), Map!PairsOf(hNodes'))
<1>0. PICK c \in Nat : hNodes \in Map!Tab(c) /\ Map!Whole(hNodes) /\ hSize = Map!Cardinality(Map!KeysOf(hNodes))
  BY DEF Map!IInv, Map!Good
<1>1. PICK i \in Map!find_node(hNodes, k) : hNodes' = [hNodes EXCEPT ![i] = kTombstone]
  BY DEF Map!erase
<1>2. i \in Map!FilledIn(hNodes) /\ hNodes[i][1] = k
  BY <1>0, <1>1, MapFindIs
<1>3. PICK x \in Map!Slots : x = kTombstone /\ x # kEmpty /\ ~Map!Filled(x)
  BY DEF Map!Slots, Map!Sized, Map!Filled
<1>4. PICK t, u : t = hNodes /\ u = hNodes'
  OBVIOUS
<1>5. MapSetTo(u, t, i, x) /\ t \in Map!Tab(c) /\ Map!Whole(t) /\ i \in Map!FilledIn(t) /\ (Map!Filled(x) => x[1] = t[i][1]) /\ x # kEmpty
  BY <1>0, <1>1, <1>2, <1>3, <1>4 DEF MapSetTo
<1>6. u \in Map!Tab(c) /\ Map!Whole(u) /\ Map!PairsOf(u) = MapWithout(Map!PairsOf(t), t[i][1]) \cup (IF Map!Filled(x) THEN {x} ELSE {})
  BY ONLY <1>5, Map!Sized, c \in Nat, x \in Map!Slots, MapSlotSet
<1>7. Map!PairsOf(u) = MapWithout(Map!PairsOf(t), k)
  BY <1>2, <1>3, <1>4, <1>6
<1>8. Map!KeysOf(u) = Map!KeysOf(t) \ {k}
  BY <1>7 DEF Map!KeysOf, MapWithout
<1>9. k \in Map!KeysOf(t)
  BY <1>2, <1>4 DEF Map!KeysOf, Map!PairsOf
<1>10. Map!IsFiniteSet(Map!KeysOf(t)) /\ Map!Cardinality(Map!KeysOf(t)) \in Nat
  BY <1>5, MapCounted DEF Map!Whole
<1>11. Map!Cardinality(Map!KeysOf(t) \ {k}) = Map!Cardinality(Map!KeysOf(t)) - 1
  BY ONLY <1>9, <1>10, FS_RemoveElement, MapCardinality
<1>12. MapEffect(Map!PairsOf(t), Map!PairsOf(u))
  BY <1>7 DEF MapEffect
<1>13. hSize' = hSize - 1
  BY DEF Map!erase
<1>14. Map!Good(u, hSize')
  BY <1>0, <1>4, <1>6, <1>8, <1>11, <1>13 DEF Map!Good
<1>. QED BY <1>4, <1>12, <1>14 DEF Map!IInv

(* The steps that change the table as a whole.                             *)
LEMMA MapWholeSteps ==
  ASSUME Map!Sized, Map!IInv, Map!clear \/ Map!MovedFrom \/ Map!Copied
  PROVE  Map!IInv' /\ MapEffect(Map!PairsOf(hNodes), Map!PairsOf(hNodes'))
<1>0. PICK c \in Nat : hNodes \in Map!Tab(c) /\ Map!Whole(hNodes) /\ hSize = Map!Cardinality(Map!KeysOf(hNodes))
  BY DEF Map!IInv, Map!Good
<1>1. ASSUME NEW d \in Nat, hNodes' \in Map!Tab(d), Map!FilledIn(hNodes') = {}, hSize' = 0
      PROVE  Map!IInv' /\ MapEffect(Map!PairsOf(hNodes), Map!PairsOf(hNodes'))
  <2>1. Map!PairsOf(hNodes') = {} /\ Map!KeysOf(hNodes') = {} /\ Map!Whole(hNodes')
    BY <1>1 DEF Map!PairsOf, Map!KeysOf, Map!Whole, Map!Chained, Map!Once
  <2>2. Map!Cardinality(Map!KeysOf(hNodes')) = 0
    BY <2>1, FS_EmptySet, MapCardinality
  <2>. QED BY <1>1, <2>1, <2>2 DEF Map!IInv, Map!Good, MapEffect
<1>2. CASE Map!clear
  <2>1. /\ hNodes' = [i \in DOMAIN hNodes |-> IF Map!Filled(hNodes[i]) THEN kEmpty ELSE hNodes[i]]
        /\ hSize' = 0
    BY <1>2 DEF Map!clear
  <2>2. hNodes' \in Map!Tab(c)
    BY <2>1, <1>0 DEF Map!Tab, Map!Slots
  <2>3. Map!FilledIn(hNodes') = {}
    BY <2>1 DEF Map!FilledIn, Map!Filled
  <2>. QED BY <1>1, <2>1, <2>2, <2>3
<1>3. CASE Map!MovedFrom
  <2>1. hNodes' \in Map!Tab(0) /\ DOMAIN hNodes' = {} /\ hSize' = 0
    BY <1>3 DEF Map!MovedFrom, Map!NoNodes, Map!Tab
  <2>2. Map!FilledIn(hNodes') = {}
    BY <2>1 DEF Map!FilledIn
  <2>. QED BY <1>1, <2>1, <2>2
<1>4. CASE Map!Copied
  <2>1. \A i \in DOMAIN hNodes : hNodes[i] # kTombstone
    BY <1>4 DEF Map!Copied, Map!Sized
  <2>2. \A i \in DOMAIN hNodes : (IF Map!Filled(hNodes[i]) THEN hNodes[i] ELSE kEmpty) = hNodes[i]
    BY <2>1 DEF Map!Filled
  <2>3. hNodes = [i \in DOMAIN hNodes |-> hNodes[i]]
    BY <1>0 DEF Map!Tab
  <2>4. hNodes' = hNodes /\ hSize' = hSize
    BY <1>4, <2>2, <2>3 DEF Map!Copied
  <2>. QED BY <1>0, <2>4 DEF Map!IInv, Map!Good, MapEffect
<1>. QED BY <1>2, <1>3, <1>4

(* reserve() moves the pairs to a larger table.                            *)
LEMMA MapReserveKeeps ==
  ASSUME Map!Sized, Map!IInv, NEW n \in 1 .. MaxCapacity, Map!reserve(n)
  PROVE  Map!IInv' /\ MapEffect(Map!PairsOf(hNodes), Map!PairsOf(hNodes'))
<1>0. PICK c \in Nat : hNodes \in Map!Tab(c) /\ Map!Whole(hNodes) /\ hSize = Map!Cardinality(Map!KeysOf(hNodes))
  BY DEF Map!IInv, Map!Good
<1>1. Map!capacity(hNodes) = c
  BY <1>0, MapCapOf
<1>2. PICK d \in Map!Doublings : d >= n /\ hNodes' = Map!Rehashed(hNodes, d)
  BY DEF Map!reserve
<1>3. d \in Nat \ {0} /\ d >= c
  <2>1. d \in 1 .. MaxCapacity
    BY DEF Map!Doublings
  <2>2. n > c
    BY <1>1 DEF Map!reserve
  <2>. QED BY <1>2, <2>1, <2>2 DEF Map!Sized
<1>4. hNodes' \in Map!Tab(d) /\ Map!Whole(hNodes') /\ Map!PairsOf(hNodes') = Map!PairsOf(hNodes)
  BY <1>0, <1>2, <1>3, MapRehash DEF Map!Whole
<1>5. Map!KeysOf(hNodes') = Map!KeysOf(hNodes)
  BY <1>4 DEF Map!KeysOf
<1>6. hSize' = hSize
  BY DEF Map!reserve
<1>. QED BY <1>0, <1>3, <1>4, <1>5, <1>6 DEF Map!IInv, Map!Good, MapEffect

(* Every step keeps the table whole, and sets or drops one key, or drops   *)
(* all.                                                                    *)
LEMMA MapInductive == Map!Sized /\ Map!IInv /\ [Map!Next]_Map!vars => Map!IInv' /\ MapEffect(Map!PairsOf(hNodes), Map!PairsOf(hNodes'))
<1>. SUFFICES ASSUME Map!Sized, Map!IInv, [Map!Next]_Map!vars PROVE Map!IInv' /\ MapEffect(Map!PairsOf(hNodes), Map!PairsOf(hNodes'))
  OBVIOUS
<1>1. CASE UNCHANGED Map!vars
  BY <1>1 DEF Map!vars, Map!IInv, MapEffect
<1>2. CASE Map!Next
  BY <1>2, MapInsertKeeps, MapAssignKeeps, MapEraseKeeps, MapWholeSteps, MapReserveKeeps DEF Map!Next
<1>. QED BY <1>1, <1>2

(* Of two whole tables, what find() sees follows from the pairs.           *)
LEMMA MapFoundKeys ==
  ASSUME Map!Sized, NEW n, NEW t, Map!Good(t, n)
  PROVE  /\ MapFoundIn(t) = [k \in Map!KeysOf(t) |-> MapFoundIn(t)[k]] /\ DOMAIN MapFoundIn(t) = Map!KeysOf(t)
         /\ \A s \in Map!PairsOf(t) : s[1] \in Map!KeysOf(t) /\ MapFoundIn(t)[s[1]] = s[2]
         /\ \A k \in Map!KeysOf(t) : <<k, MapFoundIn(t)[k]>> \in Map!PairsOf(t)
<1>1. PICK c \in Nat : t \in Map!Tab(c) /\ Map!Whole(t)
  BY DEF Map!Good
<1>2. /\ MapFoundIn(t) = [k \in Map!KeysOf(t) |-> MapFoundIn(t)[k]]
      /\ \A i \in Map!FilledIn(t) : MapFoundIn(t)[t[i][1]] = t[i][2]
      /\ Map!PairsOf(t) = {<<k, MapFoundIn(t)[k]>> : k \in Map!KeysOf(t)}
  BY <1>1, MapFoundPairs
<1>3. \A s \in Map!PairsOf(t) : s[1] \in Map!KeysOf(t) /\ MapFoundIn(t)[s[1]] = s[2]
  BY <1>2 DEF Map!PairsOf, Map!KeysOf
<1>. QED BY <1>2, <1>3

(* What find() tells changes as a map does: by one key set or dropped, or  *)
(* by all dropped.                                                         *)
LEMMA MapSteps ==
  Map!Sized /\ Map!IInv /\ [Map!Next]_Map!vars =>
    [\/ DOMAIN Map!Found' = {}
     \/ \E k \in MapKeys : Map!Drop(k) \/ \E v \in MapValues : Map!Put(k, v)]_Map!Found
<1>. SUFFICES ASSUME Map!Sized, Map!IInv, [Map!Next]_Map!vars
              PROVE  \/ DOMAIN Map!Found' = {}
                     \/ \E k \in MapKeys : Map!Drop(k) \/ \E v \in MapValues : Map!Put(k, v)
                     \/ Map!Found' = Map!Found
  OBVIOUS
<1>1. PICK t, u, P, Q, m, n : t = hNodes /\ u = hNodes' /\ P = Map!PairsOf(t) /\ Q = Map!PairsOf(u) /\ m = hSize /\ n = hSize'
  OBVIOUS
<1>2. Map!Good(t, m) /\ Map!Good(u, n) /\ MapEffect(P, Q)
  BY <1>1, MapInductive DEF Map!IInv
<1>3. PICK f, g : f = MapFoundIn(t) /\ g = MapFoundIn(u)
  OBVIOUS
<1>4. Map!Found = f /\ Map!Found' = g
  BY <1>1, <1>3 DEF Map!Found, MapFoundIn
<1>5. /\ f = [k \in Map!KeysOf(t) |-> f[k]] /\ DOMAIN f = Map!KeysOf(t)
      /\ \A s \in P : s[1] \in Map!KeysOf(t) /\ f[s[1]] = s[2]
      /\ \A k \in Map!KeysOf(t) : <<k, f[k]>> \in P
  BY <1>1, <1>2, <1>3, MapFoundKeys
<1>6. /\ g = [k \in Map!KeysOf(u) |-> g[k]] /\ DOMAIN g = Map!KeysOf(u)
      /\ \A s \in Q : s[1] \in Map!KeysOf(u) /\ g[s[1]] = s[2]
      /\ \A k \in Map!KeysOf(u) : <<k, g[k]>> \in Q
  BY <1>1, <1>2, <1>3, MapFoundKeys
<1>7. Map!KeysOf(t) = {s[1] : s \in P} /\ Map!KeysOf(u) = {s[1] : s \in Q}
  BY <1>1 DEF Map!KeysOf
<1>8. \A x, y : <<x, y>>[1] = x /\ <<x, y>>[2] = y
  OBVIOUS
<1>9. CASE Q = P
  <2>1. Map!KeysOf(u) = Map!KeysOf(t)
    BY <1>7, <1>9
  <2>2. \A k \in Map!KeysOf(t) : g[k] = f[k]
    BY <1>5, <1>6, <1>8, <1>9
  <2>3. f = g
    BY ONLY <2>1, <2>2, <1>5, <1>6
  <2>. QED BY <2>3, <1>4
<1>10. CASE Q = {}
  BY <1>4, <1>6, <1>7, <1>10
<1>11. ASSUME NEW k \in MapKeys, Q = MapWithout(P, k) PROVE Map!Drop(k)
  <2>1. Map!KeysOf(u) = Map!KeysOf(t) \ {k}
    BY <1>7, <1>11 DEF MapWithout
  <2>2. \A x \in Map!KeysOf(u) : g[x] = f[x]
    <3>1. ASSUME NEW x \in Map!KeysOf(u) PROVE g[x] = f[x]
      <4>1. <<x, g[x]>> \in P
        BY <1>6, <1>11 DEF MapWithout
      <4>. QED BY <4>1, <1>5, <1>8
    <3>. QED BY <3>1
  <2>3. Map!Restrict(f, DOMAIN f \ {k}) = [x \in Map!KeysOf(u) |-> f[x]]
    BY <2>1, <1>5 DEF Map!Restrict
  <2>4. g = Map!Restrict(f, DOMAIN f \ {k})
    BY ONLY <2>2, <2>3, <1>6
  <2>. QED BY <2>4, <1>4 DEF Map!Drop
<1>12. ASSUME NEW k \in MapKeys, NEW v \in MapValues, Q = MapWithout(P, k) \cup {<<k, v>>} PROVE Map!Put(k, v)
  <2>1. Map!KeysOf(u) = Map!KeysOf(t) \cup {k}
    <3>0. <<k, v>> \in Q /\ \A s : s \in Q <=> (s \in P /\ s[1] # k) \/ s = <<k, v>>
      BY ONLY Q = MapWithout(P, k) \cup {<<k, v>>} DEF MapWithout
    <3>1. ASSUME NEW s \in Q PROVE s[1] \in Map!KeysOf(t) \cup {k}
      <4>1. CASE s \in P
        BY ONLY <4>1, <1>7
      <4>2. CASE s = <<k, v>>
        BY ONLY <4>2, <1>8
      <4>. QED BY ONLY <4>1, <4>2, <3>0, s \in Q
    <3>3. k \in Map!KeysOf(u)
      <4>1. <<k, v>>[1] = k
        BY ONLY <1>8
      <4>. QED BY ONLY <4>1, <3>0, <1>7
    <3>2. ASSUME NEW s \in P PROVE s[1] \in Map!KeysOf(u)
      <4>1. CASE s[1] = k
        BY ONLY <4>1, <3>3
      <4>2. CASE s[1] # k
        <5>1. s \in Q
          BY ONLY <4>2, <3>0, s \in P
        <5>. QED BY ONLY <5>1, <1>7
      <4>. QED BY ONLY <4>1, <4>2
    <3>. QED BY <3>1, <3>2, <3>3, <1>7
  <2>2. g[k] = v
    <3>1. PICK s \in Q : s = <<k, v>>
      BY <1>12
    <3>2. s[1] = k /\ s[2] = v
      BY <3>1, <1>8
    <3>. QED BY <3>2, <1>6
  <2>3. ASSUME NEW x \in Map!KeysOf(u), x # k PROVE g[x] = f[x]
    <3>1. <<x, g[x]>> \in P
      BY <1>6, <1>8, <1>12, <2>3 DEF MapWithout
    <3>. QED BY <3>1, <1>5, <1>8
  <2>4. g = [x \in DOMAIN f \cup {k} |-> IF x = k THEN v ELSE f[x]]
    <3>1. Map!KeysOf(u) = DOMAIN f \cup {k}
      BY <2>1, <1>5
    <3>2. g = [x \in Map!KeysOf(u) |-> IF x = k THEN v ELSE f[x]]
      BY ONLY <2>2, <2>3, <1>6
    <3>. QED BY <3>1, <3>2
  <2>. QED BY <2>4, <1>4 DEF Map!Put
<1>. QED BY <1>2, <1>9, <1>10, <1>11, <1>12 DEF MapEffect

(* In a new map find() tells nothing.                                      *)
LEMMA MapStartsEmpty == Map!Init => DOMAIN Map!Found = {}
<1>. SUFFICES ASSUME Map!Init PROVE DOMAIN Map!Found = {}
  OBVIOUS
<1>1. DOMAIN hNodes = {}
  BY DEF Map!Init, Map!NoNodes
<1>2. \A k \in MapKeys : Map!find_node(hNodes, k) = {}
  BY <1>1 DEF Map!find_node, Map!FirstProbe, Map!Probes
<1>. QED BY <1>2 DEF Map!Found

-----------------------------------------------------------------------------
(* TimerWheel.                                                             *)

Wheel == INSTANCE TimerWheel WITH MaxTime <- MaxTicks, now_ <- tNow,
        next_id_ <- tNextId, pq_ <- tPq, pending_ <- tPending,
        done_ <- tDone, deadline <- tDeadline, pc <- tPc, due <- tDue,
        fired <- tFired, cancelled <- tCancelled, fresh <- tFresh

(* Wheel's finite sets are those that the theorems on finite sets are      *)
(* about.                                                                  *)
LEMMA WheelCardinality ==
  ASSUME NEW S
  PROVE  Wheel!Cardinality(S) = Cardinality(S) /\ (Wheel!IsFiniteSet(S) <=> IsFiniteSet(S))
BY DEF Wheel!Cardinality, Cardinality, Wheel!IsFiniteSet, IsFiniteSet

(* A new wheel.                                                            *)
LEMMA WheelInit == Wheel!Sized /\ Wheel!Init => Wheel!IInv
BY DEF Wheel!Sized, Wheel!Init, Wheel!IInv, Wheel!WellTyped, Wheel!Settled, Wheel!Waiting, Wheel!Scheduled, Wheel!TimerIds

(* What the invariant promises: a timer fires once at most, not after      *)
(* cancel(), and by the first tick() that reaches its deadline.            *)
LEMMA WheelImplied == Wheel!Sized /\ Wheel!IInv => Wheel!FiresOnceInTime
<1>. SUFFICES ASSUME Wheel!Sized, Wheel!IInv PROVE Wheel!FiresOnceInTime
  OBVIOUS
<1>1. ASSUME NEW i \in Wheel!TimerIds
      PROVE  /\ tFired[i] <= 1
             /\ tFired[i] = 1 => i \notin tCancelled \cup tPending \cup tFresh /\ tDeadline[i] <= tNow
  BY DEF Wheel!IInv, Wheel!WellTyped, Wheel!Settled, Wheel!Waiting
<1>2. ASSUME tPc = "idle", NEW i \in 1 .. tNextId, tDeadline[i] <= tNow
      PROVE  tFired[i] = 1 \/ i \in tCancelled \cup tFresh
  <2>1. i \in Wheel!TimerIds
    BY DEF Wheel!IInv, Wheel!WellTyped, Wheel!TimerIds, Wheel!Sized
  <2>2. i \in tPq \/ i \in tDone
    BY <1>2 DEF Wheel!IInv, Wheel!Waiting, Wheel!Scheduled
  <2>. QED BY <1>2, <2>1, <2>2 DEF Wheel!IInv, Wheel!Settled, Wheel!Waiting
<1>. QED BY <1>1, <1>2 DEF Wheel!FiresOnceInTime

(* schedule() queues a timer with the next id.                             *)
LEMMA WheelScheduleKeeps ==
  ASSUME Wheel!Sized, Wheel!IInv, NEW d \in Nat, Wheel!schedule(d)
  PROVE  Wheel!IInv'
<1>. DEFINE id == tNextId + 1
<1>1. id \in Wheel!TimerIds /\ id \notin Wheel!Scheduled /\ Wheel!Scheduled' = Wheel!Scheduled \cup {id} /\ tNow + d \in Nat
  BY DEF Wheel!schedule, Wheel!IInv, Wheel!WellTyped, Wheel!TimerIds, Wheel!Sized, Wheel!Scheduled
<1>2. /\ tNextId' = id /\ tDeadline' = [tDeadline EXCEPT ![id] = tNow + d]
      /\ tPq' = tPq \cup {id} /\ tPending' = tPending \cup {id} /\ tFresh' = tFresh \cup {id}
      /\ tNow' = tNow /\ tDone' = tDone /\ tPc' = tPc /\ tDue' = tDue /\ tFired' = tFired /\ tCancelled' = tCancelled
  BY DEF Wheel!schedule
<1>. HIDE DEF id
<1>3. Wheel!WellTyped /\ Wheel!Settled /\ Wheel!Waiting
  BY DEF Wheel!IInv
<1>4. Wheel!WellTyped'
  <2>1. tNextId' \in 0 .. MaxTimers
    BY <1>1, <1>2 DEF Wheel!TimerIds, Wheel!Sized
  <2>. QED BY <2>1, <1>1, <1>2, <1>3 DEF Wheel!WellTyped
<1>5. \A i \in Wheel!TimerIds : tDeadline'[i] = IF i = id THEN tNow + d ELSE tDeadline[i]
  BY <1>2, <1>3 DEF Wheel!WellTyped
<1>6. \A i \in Wheel!Scheduled : i \in Wheel!TimerIds /\ i # id
  BY <1>1, <1>3 DEF Wheel!WellTyped, Wheel!Scheduled, Wheel!TimerIds, Wheel!Sized
<1>7. Wheel!Settled'
  BY <1>1, <1>2, <1>3 DEF Wheel!Settled, Wheel!WellTyped
<1>8. Wheel!Waiting'
  BY <1>1, <1>2, <1>3, <1>5, <1>6 DEF Wheel!Waiting, Wheel!WellTyped
<1>. QED BY <1>4, <1>7, <1>8 DEF Wheel!IInv

(* cancel() marks a pending timer, wherever it waits.                      *)
LEMMA WheelCancelKeeps ==
  ASSUME Wheel!Sized, Wheel!IInv, NEW id \in Wheel!TimerIds, Wheel!cancel(id)
  PROVE  Wheel!IInv'
<1>1. Wheel!WellTyped'
  BY DEF Wheel!IInv, Wheel!WellTyped, Wheel!cancel, Wheel!Scheduled
<1>2. Wheel!Settled'
  BY DEF Wheel!IInv, Wheel!WellTyped, Wheel!Settled, Wheel!cancel
<1>3. Wheel!Waiting'
  BY DEF Wheel!IInv, Wheel!WellTyped, Wheel!Settled, Wheel!Waiting, Wheel!cancel, Wheel!Scheduled
<1>. QED BY <1>1, <1>2, <1>3 DEF Wheel!IInv

(* tick() takes the timers that are due off the queue, in order.           *)
LEMMA WheelTickKeeps ==
  ASSUME Wheel!Sized, Wheel!IInv, NEW now \in Nat, Wheel!tick(now)
  PROVE  Wheel!IInv'
<1>. DEFINE time == IF now < tNow THEN tNow ELSE now
            expired == {i \in tPq : tDeadline[i] <= time}
<1>1. Wheel!WellTyped /\ Wheel!Settled /\ Wheel!Waiting
  BY DEF Wheel!IInv
<1>2. time \in Nat /\ tNow <= time /\ tNow \in Nat
  BY <1>1 DEF Wheel!WellTyped
<1>3. PICK d \in [1 .. Wheel!Cardinality(expired) -> expired] : Wheel!Range(d) = expired /\ tDue' = d
  BY DEF Wheel!tick
<1>4. /\ tPc = "idle" /\ tNow' = time /\ tPq' = tPq \ expired /\ tPc' = "firing" /\ tFresh' = {}
      /\ tNextId' = tNextId /\ tPending' = tPending /\ tDone' = tDone /\ tDeadline' = tDeadline
      /\ tFired' = tFired /\ tCancelled' = tCancelled
  BY DEF Wheel!tick
<1>. HIDE DEF time
<1>5. expired \subseteq Wheel!TimerIds /\ Wheel!Scheduled \subseteq Wheel!TimerIds
  <2>1. tNextId \in 0 .. MaxTimers /\ tPq \subseteq Wheel!Scheduled
    BY <1>1 DEF Wheel!WellTyped
  <2>2. Wheel!Scheduled \subseteq Wheel!TimerIds
    BY <2>1 DEF Wheel!Scheduled, Wheel!TimerIds, Wheel!Sized
  <2>. QED BY <2>1, <2>2
<1>6. Wheel!Cardinality(expired) \in Nat
  <2>1. Wheel!IsFiniteSet(Wheel!Scheduled)
    BY <1>1, FS_Interval, WheelCardinality DEF Wheel!Scheduled, Wheel!WellTyped, Wheel!Sized
  <2>2. expired \subseteq Wheel!Scheduled
    BY <1>1 DEF Wheel!WellTyped
  <2>3. Wheel!IsFiniteSet(expired)
    BY <2>1, <2>2, FS_Subset, WheelCardinality
  <2>. QED BY <2>3, FS_CardinalityType, WheelCardinality
<1>7. tDue' \in Seq(Wheel!TimerIds) /\ Len(tDue') = Wheel!Cardinality(expired) /\ \A k \in 1 .. Len(tDue') : tDue'[k] \in expired
  <2>1. PICK c \in Nat : c = Wheel!Cardinality(expired)
    BY <1>6
  <2>2. tDue' \in [1 .. c -> expired]
    BY <1>3, <2>1
  <2>. HIDE DEF expired
  <2>3. tDue' \in [1 .. c -> Wheel!TimerIds]
    BY <2>2, <1>5
  <2>4. tDue' \in Seq(Wheel!TimerIds) /\ Len(tDue') = c
    BY <2>3, <2>1
  <2>. QED BY <2>1, <2>2, <2>4
<1>8. \A i \in expired : \E k \in 1 .. Len(tDue') : tDue'[k] = i
  BY <1>3, <1>7 DEF Wheel!Range
<1>9. Wheel!WellTyped'
  BY <1>1, <1>2, <1>4, <1>7 DEF Wheel!WellTyped, Wheel!Scheduled
<1>10. Wheel!Settled'
  BY <1>1, <1>4 DEF Wheel!Settled
<1>11. \A i \in Wheel!Scheduled : tDeadline[i] \in Nat
  BY <1>1, <1>5 DEF Wheel!WellTyped
<1>12. tDue = <<>> /\ \A i \in Wheel!Scheduled : i \in tPq \/ i \in tDone
  BY <1>1, <1>4 DEF Wheel!Waiting
<1>13. Wheel!Waiting'
  <2>1. \A k \in 1 .. Len(tDue') : tDue'[k] \in Wheel!Scheduled' /\ tDue'[k] \notin tPq' /\ tDeadline'[tDue'[k]] <= tNow'
    BY <1>1, <1>4, <1>7 DEF Wheel!WellTyped, Wheel!Scheduled
  <2>2. \A i \in tPq' : tDeadline'[i] <= tNow' => i \in tFresh'
    BY <1>4
  <2>3. \A i \in Wheel!Scheduled' : i \in tPq' \/ i \in tDone' \/ \E k \in 1 .. Len(tDue') : tDue'[k] = i
    BY <1>4, <1>8, <1>12 DEF Wheel!Scheduled
  <2>4. \A i \in tDone' : i \in tCancelled' \/ tDeadline'[i] <= tNow'
    BY <1>1, <1>2, <1>4, <1>11 DEF Wheel!Waiting, Wheel!WellTyped
  <2>. QED BY <1>1, <1>4, <2>1, <2>2, <2>3, <2>4 DEF Wheel!Waiting
<1>. QED BY <1>9, <1>10, <1>13 DEF Wheel!IInv

(* What the tail of the snapshot holds.                                    *)
LEMMA WheelDueTail ==
  ASSUME Wheel!IInv, tDue # <<>>, tDue' = Tail(tDue)
  PROVE  /\ tDue' \in Seq(Wheel!TimerIds) /\ Head(tDue) \in Wheel!TimerIds /\ Head(tDue) = tDue[1] /\ 1 \in 1 .. Len(tDue)
         /\ \A k \in 1 .. Len(tDue') : k + 1 \in 1 .. Len(tDue) /\ tDue'[k] = tDue[k + 1]
         /\ \A k \in 1 .. Len(tDue) : k = 1 \/ (k - 1 \in 1 .. Len(tDue') /\ tDue'[k - 1] = tDue[k])
<1>1. tDue \in Seq(Wheel!TimerIds)
  BY DEF Wheel!IInv, Wheel!WellTyped
<1>2. tDue' \in Seq(Wheel!TimerIds) /\ Len(tDue') = Len(tDue) - 1 /\ \A k \in 1 .. Len(tDue) - 1 : tDue'[k] = tDue[k + 1]
  BY <1>1
<1>3. Head(tDue) = tDue[1] /\ 1 \in 1 .. Len(tDue) /\ Len(tDue) \in Nat
  BY <1>1
<1>. QED BY <1>1, <1>2, <1>3

(* A timer other than the head is in the tail.                             *)
LEMMA WheelTailCovers ==
  ASSUME Wheel!IInv, tDue # <<>>, tDue' = Tail(tDue), NEW i, i # Head(tDue), NEW k \in 1 .. Len(tDue), tDue[k] = i
  PROVE  \E j \in 1 .. Len(tDue') : tDue'[j] = i
<1>1. k = 1 \/ (k - 1 \in 1 .. Len(tDue') /\ tDue'[k - 1] = tDue[k])
  BY WheelDueTail
<1>. QED BY <1>1, WheelDueTail

(* A timer's callback is called.                                           *)
LEMMA WheelFireKeeps ==
  ASSUME Wheel!Sized, Wheel!IInv, Wheel!Fire
  PROVE  Wheel!IInv'
<1>. DEFINE h == Head(tDue)
<1>1. Wheel!WellTyped /\ Wheel!Settled /\ Wheel!Waiting
  BY DEF Wheel!IInv
<1>2. /\ tDue # <<>> /\ h \notin tDone /\ tPending' = tPending \ {h} /\ tDone' = tDone \cup {h}
      /\ tFired' = [tFired EXCEPT ![h] = @ + 1] /\ tPc' = "callback" /\ tDue' = Tail(tDue)
      /\ tNow' = tNow /\ tNextId' = tNextId /\ tPq' = tPq /\ tDeadline' = tDeadline /\ tCancelled' = tCancelled /\ tFresh' = tFresh
  BY DEF Wheel!Fire
<1>3. h \in Wheel!TimerIds /\ h = tDue[1] /\ 1 \in 1 .. Len(tDue) /\ tDue' \in Seq(Wheel!TimerIds)
  BY <1>2, WheelDueTail
<1>4. h \in Wheel!Scheduled /\ h \notin tPq /\ tDeadline[h] <= tNow
  BY <1>1, <1>3 DEF Wheel!Waiting
<1>. HIDE DEF h
<1>5. Wheel!WellTyped'
  <2>1. tFired' \in [Wheel!TimerIds -> Nat]
    BY <1>1, <1>2, <1>3 DEF Wheel!WellTyped
  <2>2. tPending' \subseteq Wheel!Scheduled' /\ tDone' \subseteq Wheel!Scheduled' /\ tPq' \subseteq Wheel!Scheduled'
    BY <1>1, <1>2, <1>4 DEF Wheel!WellTyped, Wheel!Scheduled
  <2>. QED BY <1>1, <1>2, <1>3, <2>1, <2>2 DEF Wheel!WellTyped
<1>6. Wheel!Settled'
  BY <1>1, <1>2, <1>3 DEF Wheel!Settled, Wheel!WellTyped
<1>7. Wheel!Waiting'
  <2>1. ASSUME NEW k \in 1 .. Len(tDue') PROVE tDue'[k] \in Wheel!Scheduled' /\ tDue'[k] \notin tPq' /\ tDeadline'[tDue'[k]] <= tNow'
    <3>1. k + 1 \in 1 .. Len(tDue) /\ tDue'[k] = tDue[k + 1]
      BY <1>2, WheelDueTail
    <3>. QED BY <3>1, <1>1, <1>2 DEF Wheel!Waiting, Wheel!Scheduled
  <2>2. ASSUME NEW i \in Wheel!Scheduled PROVE i \in tPq' \/ i \in tDone' \/ \E k \in 1 .. Len(tDue') : tDue'[k] = i
    <3>1. CASE \E k \in 1 .. Len(tDue) : tDue[k] = i
      BY <3>1, <1>2, WheelTailCovers DEF h
    <3>. QED BY <3>1, <1>1, <1>2 DEF Wheel!Waiting
  <2>. QED BY <2>1, <2>2, <1>1, <1>2, <1>4 DEF Wheel!Waiting, Wheel!Scheduled
<1>. QED BY <1>5, <1>6, <1>7 DEF Wheel!IInv

(* A timer that was cancelled meanwhile is passed over.                    *)
LEMMA WheelSkipKeeps ==
  ASSUME Wheel!Sized, Wheel!IInv, Wheel!Skip
  PROVE  Wheel!IInv'
<1>1. Wheel!WellTyped /\ Wheel!Settled /\ Wheel!Waiting
  BY DEF Wheel!IInv
<1>2. /\ tDue # <<>> /\ Head(tDue) \in tDone /\ tDue' = Tail(tDue) /\ tPc = "firing"
      /\ tNow' = tNow /\ tNextId' = tNextId /\ tPq' = tPq /\ tDeadline' = tDeadline /\ tCancelled' = tCancelled /\ tFresh' = tFresh
      /\ tPending' = tPending /\ tDone' = tDone /\ tPc' = tPc /\ tFired' = tFired
  BY DEF Wheel!Skip
<1>3. tDue' \in Seq(Wheel!TimerIds)
  BY <1>2, WheelDueTail
<1>4. Wheel!WellTyped'
  BY <1>1, <1>2, <1>3 DEF Wheel!WellTyped, Wheel!Scheduled
<1>5. Wheel!Settled'
  BY <1>1, <1>2 DEF Wheel!Settled
<1>6. Wheel!Waiting'
  <2>1. ASSUME NEW k \in 1 .. Len(tDue') PROVE tDue'[k] \in Wheel!Scheduled' /\ tDue'[k] \notin tPq' /\ tDeadline'[tDue'[k]] <= tNow'
    <3>1. k + 1 \in 1 .. Len(tDue) /\ tDue'[k] = tDue[k + 1]
      BY <1>2, WheelDueTail
    <3>. QED BY <3>1, <1>1, <1>2 DEF Wheel!Waiting, Wheel!Scheduled
  <2>2. ASSUME NEW i \in Wheel!Scheduled PROVE i \in tPq' \/ i \in tDone' \/ \E k \in 1 .. Len(tDue') : tDue'[k] = i
    <3>1. CASE \E k \in 1 .. Len(tDue) : tDue[k] = i
      BY <3>1, <1>2, WheelTailCovers
    <3>. QED BY <3>1, <1>1, <1>2 DEF Wheel!Waiting
  <2>. QED BY <2>1, <2>2, <1>1, <1>2 DEF Wheel!Waiting, Wheel!Scheduled
<1>. QED BY <1>4, <1>5, <1>6 DEF Wheel!IInv

(* Every step keeps the invariant.                                         *)
LEMMA WheelInductive == Wheel!Sized /\ Wheel!IInv /\ [Wheel!Next]_Wheel!vars => Wheel!IInv'
<1>. SUFFICES ASSUME Wheel!Sized, Wheel!IInv, [Wheel!Next]_Wheel!vars PROVE Wheel!IInv'
  OBVIOUS
<1>1. CASE UNCHANGED Wheel!vars
  BY <1>1 DEF Wheel!vars, Wheel!IInv, Wheel!WellTyped, Wheel!Settled, Wheel!Waiting, Wheel!Scheduled
<1>2. ASSUME NEW d \in 0 .. MaxTicks, Wheel!schedule(d) PROVE Wheel!IInv'
  BY <1>2, WheelScheduleKeeps DEF Wheel!Sized
<1>3. ASSUME NEW id \in Wheel!TimerIds, Wheel!cancel(id) PROVE Wheel!IInv'
  BY <1>3, WheelCancelKeeps
<1>4. ASSUME NEW now \in 0 .. MaxTicks, Wheel!tick(now) PROVE Wheel!IInv'
  BY <1>4, WheelTickKeeps DEF Wheel!Sized
<1>5. CASE Wheel!Return
  <2>1. Wheel!WellTyped'
    BY <1>5 DEF Wheel!IInv, Wheel!WellTyped, Wheel!Return, Wheel!Scheduled
  <2>2. Wheel!Settled'
    BY <1>5 DEF Wheel!IInv, Wheel!Settled, Wheel!Return
  <2>3. Wheel!Waiting'
    BY <1>5 DEF Wheel!IInv, Wheel!Waiting, Wheel!Return, Wheel!Scheduled
  <2>. QED BY <2>1, <2>2, <2>3 DEF Wheel!IInv
<1>. QED BY <1>1, <1>2, <1>3, <1>4, <1>5, WheelFireKeeps, WheelSkipKeeps DEF Wheel!Next

-----------------------------------------------------------------------------
(* MarketDataFeed.                                                         *)

Feed == INSTANCE MarketDataFeed WITH Symbols <- FeedSymbols,
        MaxIds <- MaxObservers, slots_ <- fSlots, next_id_ <- fNextId,
        pc <- fPc, event <- fEvent, snapshot <- fSnapshot,
        started <- fStarted, gone <- fGone, notified <- fNotified

(* The least of a set of numbers is one of them.                           *)
LEMMA FeedFirstIn ==
  ASSUME NEW T, T \subseteq Nat, T # {}
  PROVE  Feed!Min(T) \in T
BY LeastIn DEF Feed!Min

(* A sequence without its i-th element.                                    *)
LEMMA FeedRemoved ==
  ASSUME NEW S, NEW s \in Seq(S), NEW i \in 1 .. Len(s)
  PROVE  /\ Feed!RemoveAt(s, i) \in Seq(S)
         /\ Len(Feed!RemoveAt(s, i)) = Len(s) - 1
         /\ \A k \in 1 .. Len(s) - 1 : Feed!RemoveAt(s, i)[k] = IF k < i THEN s[k] ELSE s[k + 1]
BY Spliced DEF Feed!RemoveAt

(* A new feed.                                                             *)
LEMMA FeedInit == Feed!Sized /\ Feed!Init => Feed!IInv
BY DEF Feed!Sized, Feed!Init, Feed!IInv, Feed!Typed, Feed!SlotsOk, Feed!CopyOk, Feed!Owed, Feed!Ordered, Feed!Increasing, Feed!Slot, Feed!Event, Feed!AnySymbols, Feed!Forever, Feed!ObserverIds

(* What the invariant promises: an event calls its observers in order and  *)
(* once, none that was removed before or is there for another symbol, and  *)
(* in the end all that stayed.                                             *)
LEMMA FeedImplied == Feed!Sized /\ Feed!IInv /\ Feed!Filtered => Feed!FanOut
<1> SUFFICES ASSUME Feed!Sized, Feed!IInv, Feed!Filtered, NEW p \in Publishers
             PROVE  /\ Feed!Increasing(fNotified[p])
                    /\ \A id \in Feed!ToSet(fNotified[p]) : fGone[id] > fEvent[p].number
                    /\ \A slot \in Feed!ToSet(fSlots) : slot.id \in Feed!ToSet(fNotified[p]) => Feed!Wants(slot, p)
                    /\ (fPc[p] = "calling" /\ fSnapshot[p] = <<>>) =>
                           \A slot \in Feed!ToSet(fSlots) :
                              (slot.id < fEvent[p].bound /\ Feed!Wants(slot, p))
                                 => slot.id \in Feed!ToSet(fNotified[p])
  BY DEF Feed!FanOut
<1>1. Feed!Typed /\ Feed!CopyOk(p) /\ Feed!Owed(p)
  BY DEF Feed!IInv
<1>2. fNotified[p] \in Seq(Feed!ObserverIds) /\ fSlots \in Seq(Feed!Slot)
  BY <1>1 DEF Feed!Typed
<1>3. \A id \in Feed!ToSet(fNotified[p]) : fGone[id] > fEvent[p].number
  BY <1>1, <1>2 DEF Feed!ToSet, Feed!CopyOk
<1>4. ASSUME fPc[p] = "calling", fSnapshot[p] = <<>>, NEW slot \in Feed!ToSet(fSlots),
             slot.id < fEvent[p].bound, Feed!Wants(slot, p)
      PROVE  slot.id \in Feed!ToSet(fNotified[p])
  <2>1. PICK j \in 1 .. Len(fSlots) : slot = fSlots[j]
    BY <1>2 DEF Feed!ToSet
  <2>2. PICK k \in 1 .. Len(fNotified[p]) : fNotified[p][k] = slot.id
    BY <1>1, <1>4, <2>1 DEF Feed!Owed
  <2> QED BY <2>2, <1>2 DEF Feed!ToSet
<1>5. ASSUME NEW slot \in Feed!ToSet(fSlots), slot.id \in Feed!ToSet(fNotified[p]) PROVE Feed!Wants(slot, p)
  <2>1. PICK j \in 1 .. Len(fSlots) : slot = fSlots[j]
    BY <1>2 DEF Feed!ToSet
  <2>2. PICK k \in 1 .. Len(fNotified[p]) : fNotified[p][k] = slot.id
    BY <1>2, <1>5 DEF Feed!ToSet
  <2> QED BY <2>1, <2>2 DEF Feed!Filtered, Feed!FilterOk
<1> QED BY <1>1, <1>3, <1>4, <1>5 DEF Feed!CopyOk

(* The id of a slot.                                                       *)
LEMMA FeedSlotIds ==
  ASSUME Feed!Sized, NEW s \in Seq(Feed!Slot), NEW k \in 1 .. Len(s)
  PROVE  s[k] \in Feed!Slot /\ s[k].id \in Feed!ObserverIds /\ s[k].id \in Nat
<1>1. s[k] \in Feed!Slot
  OBVIOUS
<1>. QED BY <1>1 DEF Feed!Slot, Feed!ObserverIds, Feed!Sized

(* What erase() leaves.                                                    *)
LEMMA FeedErases ==
  ASSUME Feed!Sized, Feed!IInv, NEW id \in Feed!ObserverIds, Feed!Erase(id)
  PROVE  /\ fSlots' \in Seq(Feed!Slot) /\ fGone' \in [Feed!ObserverIds -> Nat] /\ fNextId' = fNextId
         /\ \A j \in 1 .. Len(fSlots') : \E k \in 1 .. Len(fSlots) : fSlots'[j] = fSlots[k] /\ fGone'[fSlots[k].id] = fGone[fSlots[k].id]
         /\ Feed!Ordered(fSlots')
         /\ \A i \in Feed!ObserverIds : fGone'[i] = fGone[i] \/ (fGone'[i] = fStarted /\ i < fNextId)
<1>. DEFINE T == {k \in 1 .. Len(fSlots) : fSlots[k].id = id}
<1>1. fSlots \in Seq(Feed!Slot) /\ fGone \in [Feed!ObserverIds -> Nat] /\ fStarted \in Nat /\ fNextId' = fNextId
  BY DEF Feed!IInv, Feed!Typed, Feed!Erase, Feed!Sized
<1>2. CASE T = {}
  <2>1. fSlots' = fSlots
    BY <1>2 DEF Feed!Erase, Feed!RemoveFirstMatch
  <2>2. fGone' = fGone
    BY <1>1, <1>2 DEF Feed!Erase, Feed!ToSet
  <2>. QED BY <1>1, <2>1, <2>2 DEF Feed!IInv, Feed!SlotsOk
<1>3. CASE T # {}
  <2>1. Feed!SelectInSeq(fSlots, LAMBDA x : x.id = id) = Feed!Min(T)
    BY <1>3 DEF Feed!SelectInSeq
  <2>. DEFINE i == Feed!Min(T)
  <2>2. i \in T
    <3>1. T \subseteq Nat /\ T # {}
      BY <1>3
    <3>. HIDE DEF T
    <3>. QED BY <3>1, FeedFirstIn
  <2>3. fSlots' = Feed!RemoveAt(fSlots, i)
    BY <2>1, <1>3 DEF Feed!Erase, Feed!RemoveFirstMatch
  <2>4. fGone' = [fGone EXCEPT ![id] = fStarted]
    BY <1>1, <1>3 DEF Feed!Erase, Feed!ToSet
  <2>. HIDE DEF i
  <2>5. i \in 1 .. Len(fSlots) /\ fSlots[i].id = id
    BY <2>2
  <2>6. fSlots' \in Seq(Feed!Slot) /\ Len(fSlots') = Len(fSlots) - 1
    BY <1>1, <2>5, <2>3, FeedRemoved
  <2>7. \A k \in 1 .. Len(fSlots') : fSlots'[k] = IF k < i THEN fSlots[k] ELSE fSlots[k + 1]
    BY <1>1, <2>5, <2>3, <2>6, FeedRemoved
  <2>8. Feed!Ordered(fSlots)
    BY DEF Feed!IInv, Feed!SlotsOk
  <2>12. \A k \in 1 .. Len(fSlots) : fSlots[k].id \in Nat
    BY <1>1, FeedSlotIds
  <2>9. Feed!Ordered(fSlots')
    <3> SUFFICES ASSUME NEW j \in 1 .. Len(fSlots'), NEW k \in 1 .. Len(fSlots'), j < k
                 PROVE  fSlots'[j].id < fSlots'[k].id
      BY DEF Feed!Ordered
    <3>. DEFINE a == IF j < i THEN j ELSE j + 1
                b == IF k < i THEN k ELSE k + 1
    <3>1. a \in 1 .. Len(fSlots) /\ b \in 1 .. Len(fSlots) /\ a < b
      BY <1>1, <2>5, <2>6
    <3>2. fSlots'[j] = fSlots[a] /\ fSlots'[k] = fSlots[b]
      BY <2>7
    <3>. QED BY <3>1, <3>2, <2>8 DEF Feed!Ordered
  <2>10. ASSUME NEW j \in 1 .. Len(fSlots')
         PROVE  \E k \in 1 .. Len(fSlots) : fSlots'[j] = fSlots[k] /\ fGone'[fSlots[k].id] = fGone[fSlots[k].id]
    <3>. DEFINE k == IF j < i THEN j ELSE j + 1
    <3>1. k \in 1 .. Len(fSlots) /\ k # i /\ fSlots'[j] = fSlots[k]
      BY <1>1, <2>5, <2>6, <2>7
    <3>2. fSlots[k].id # fSlots[i].id
      <4>. HIDE DEF k
      <4>1. fSlots[k].id < fSlots[i].id \/ fSlots[i].id < fSlots[k].id
        BY <3>1, <2>5, <2>8 DEF Feed!Ordered
      <4>. QED BY <4>1, <3>1, <2>5, <2>12
    <3>. QED BY <3>1, <3>2, <2>4, <2>5, <1>1 DEF Feed!Slot
  <2>11. id < fNextId
    BY <2>5 DEF Feed!IInv, Feed!SlotsOk
  <2>. QED BY <1>1, <2>4, <2>6, <2>9, <2>10, <2>11
<1>. QED BY <1>2, <1>3

(* unsubscribe(): the slot leaves the list, and no copy.                   *)
LEMMA FeedEraseKeeps ==
  ASSUME Feed!Sized, Feed!IInv, NEW id \in Feed!ObserverIds, Feed!Erase(id), UNCHANGED <<fPc, fEvent, fStarted>>,
         fSnapshot' \in [Publishers -> Seq(Feed!Slot)], fNotified' \in [Publishers -> Seq(Feed!ObserverIds)]
  PROVE  /\ Feed!Typed' /\ Feed!SlotsOk'
         /\ \A p \in Publishers : fSnapshot'[p] = fSnapshot[p] /\ fNotified'[p] = fNotified[p] => Feed!CopyOk(p)' /\ Feed!Owed(p)'
<1>1. Feed!Typed /\ Feed!SlotsOk
  BY DEF Feed!IInv
<1>2. Feed!Typed'
  BY <1>1, FeedErases DEF Feed!Typed
<1>3. Feed!SlotsOk'
  <2>1. Feed!Ordered(fSlots')
    BY FeedErases
  <2>2. ASSUME NEW j \in 1 .. Len(fSlots')
        PROVE  fSlots'[j].id < fNextId' /\ fGone'[fSlots'[j].id] = Feed!Forever
    <3>1. PICK k \in 1 .. Len(fSlots) : fSlots'[j] = fSlots[k] /\ fGone'[fSlots[k].id] = fGone[fSlots[k].id]
      BY FeedErases
    <3>. QED BY <3>1, <1>1, FeedErases DEF Feed!SlotsOk
  <2>3. ASSUME NEW i \in Feed!ObserverIds, i >= fNextId' PROVE fGone'[i] = Feed!Forever
    <3>1. fNextId' = fNextId /\ (fGone'[i] = fGone[i] \/ i < fNextId)
      BY FeedErases
    <3>2. i \in Nat /\ fNextId \in Nat
      BY <1>1 DEF Feed!ObserverIds, Feed!Sized, Feed!Typed
    <3>. QED BY <2>3, <3>1, <3>2, <1>1 DEF Feed!SlotsOk
  <2>. QED BY <2>1, <2>2, <2>3 DEF Feed!SlotsOk, Feed!Forever
<1>4. ASSUME NEW p \in Publishers, fSnapshot'[p] = fSnapshot[p], fNotified'[p] = fNotified[p]
      PROVE  Feed!CopyOk(p)' /\ Feed!Owed(p)'
  <2>1. Feed!CopyOk(p) /\ Feed!Owed(p)
    BY DEF Feed!IInv
  <2>. DEFINE n == fNotified[p]
              s == fSnapshot[p]
              e == fEvent[p].number
  <2>2. n \in Seq(Feed!ObserverIds) /\ s \in Seq(Feed!Slot) /\ fEvent[p] \in Feed!Event
    BY <1>1 DEF Feed!Typed
  <2>3. e \in Nat /\ fStarted \in Nat
    BY <2>2, <1>1 DEF Feed!Event, Feed!Typed, Feed!Sized
  <2>. HIDE DEF n, s, e
  <2>4. e < fStarted \/ (n = <<>> /\ s = <<>>)
    BY <2>1 DEF Feed!CopyOk, n, s, e
  <2>5. ASSUME NEW j \in 1 .. Len(n) PROVE fGone'[n[j]] > e
    <3>1. fGone[n[j]] > e
      BY <2>1 DEF Feed!CopyOk, n, e
    <3>2. n[j] \in Feed!ObserverIds
      BY <2>2
    <3>3. fGone'[n[j]] = fGone[n[j]] \/ fGone'[n[j]] = fStarted
      BY <3>2, FeedErases
    <3>. QED BY <3>1, <3>3, <2>3, <2>4, <2>2
  <2>6. ASSUME NEW j \in 1 .. Len(s) PROVE fGone'[s[j].id] > e
    <3>1. fGone[s[j].id] > e
      BY <2>1 DEF Feed!CopyOk, s, e
    <3>2. s[j].id \in Feed!ObserverIds
      BY <2>2, FeedSlotIds
    <3>3. fGone'[s[j].id] = fGone[s[j].id] \/ fGone'[s[j].id] = fStarted
      BY <3>2, FeedErases
    <3>. QED BY <3>1, <3>3, <2>3, <2>4, <2>2
  <2>7. fNextId' = fNextId
    BY FeedErases
  <2>8. Feed!CopyOk(p)'
    BY <1>4, <2>1, <2>5, <2>6, <2>7 DEF Feed!CopyOk, Feed!Ordered, Feed!Increasing, n, s, e
  <2>9. ASSUME fPc[p] = "calling", NEW j \in 1 .. Len(fSlots'), fSlots'[j].id < fEvent[p].bound
        PROVE  \/ \E k \in 1 .. Len(s) : s[k] = fSlots'[j]
               \/ Feed!Wants(fSlots'[j], p) => \E k \in 1 .. Len(n) : n[k] = fSlots'[j].id
    <3>1. PICK k \in 1 .. Len(fSlots) : fSlots'[j] = fSlots[k]
      BY FeedErases
    <3>. QED BY <3>1, <2>1, <2>9 DEF Feed!Owed, n, s
  <2>10. Feed!Owed(p)'
    BY <1>4, <2>9 DEF Feed!Owed, n, s, Feed!Wants
  <2>. QED BY <2>8, <2>10
<1>. QED BY <1>2, <1>3, <1>4

(* subscribe() appends a slot with a new id.                               *)
LEMMA FeedSubscribeKeeps ==
  ASSUME Feed!Sized, Feed!IInv, NEW c \in Feed!AnySymbols, Feed!subscribe(c)
  PROVE  Feed!IInv'
<1>1. Feed!Typed /\ Feed!SlotsOk
  BY DEF Feed!IInv
<1>2. PICK x : x = [id |-> fNextId, symbol |-> c]
  OBVIOUS
<1>3. x \in Feed!Slot /\ x.id = fNextId
  BY <1>2 DEF Feed!Slot, Feed!subscribe
<1>4. fSlots' = Append(fSlots, x) /\ fNextId \in Feed!ObserverIds
  BY <1>2 DEF Feed!subscribe
<1>5. /\ fSlots' \in Seq(Feed!Slot) /\ Len(fSlots') = Len(fSlots) + 1
      /\ \A j \in 1 .. Len(fSlots) : fSlots'[j] = fSlots[j]
      /\ fSlots'[Len(fSlots) + 1] = x
  BY <1>1, <1>3, <1>4 DEF Feed!Typed
<1>6. Len(fSlots) \in Nat /\ fNextId' = fNextId + 1 /\ fNextId \in Nat
  BY <1>1 DEF Feed!subscribe, Feed!Typed
<1>7. Feed!Typed'
  BY <1>1, <1>5, <1>6 DEF Feed!Typed, Feed!subscribe
<1>8. \A j \in 1 .. Len(fSlots) : fSlots[j].id \in Nat
  BY <1>1, FeedSlotIds DEF Feed!Typed
<1>9. Feed!SlotsOk'
  <2>1. Feed!Ordered(fSlots')
    <3>1. \A j, k \in 1 .. Len(fSlots) : j < k => fSlots[j].id < fSlots[k].id
      BY <1>1 DEF Feed!Ordered, Feed!SlotsOk
    <3>2. \A j \in 1 .. Len(fSlots) : fSlots[j].id < fNextId
      BY <1>1 DEF Feed!SlotsOk
    <3>3. ASSUME NEW j \in 1 .. Len(fSlots'), NEW k \in 1 .. Len(fSlots'), j < k
          PROVE  fSlots'[j].id < fSlots'[k].id
      <4>1. j \in 1 .. Len(fSlots) /\ fSlots'[j] = fSlots[j]
        BY <1>5, <1>6, <3>3
      <4>2. CASE k = Len(fSlots) + 1
        BY <1>3, <1>5, <3>2, <4>1, <4>2
      <4>3. CASE k # Len(fSlots) + 1
        <5>1. k \in 1 .. Len(fSlots) /\ fSlots'[k] = fSlots[k]
          BY <1>5, <1>6, <4>3
        <5>. QED BY <3>1, <3>3, <4>1, <5>1
      <4>. QED BY <4>2, <4>3
    <3>. QED BY <3>3 DEF Feed!Ordered
  <2>2. ASSUME NEW j \in 1 .. Len(fSlots') PROVE fSlots'[j].id < fNextId' /\ fGone[fSlots'[j].id] = Feed!Forever
    BY <1>1, <1>3, <1>4, <1>5, <1>6, <1>8 DEF Feed!SlotsOk
  <2>3. ASSUME NEW i \in Feed!ObserverIds, i >= fNextId' PROVE fGone[i] = Feed!Forever
    BY <2>3, <1>1, <1>6 DEF Feed!SlotsOk, Feed!ObserverIds, Feed!Sized
  <2>. QED BY <2>1, <2>2, <2>3 DEF Feed!SlotsOk, Feed!Forever, Feed!subscribe
<1>10. ASSUME NEW p \in Publishers PROVE Feed!CopyOk(p)' /\ Feed!Owed(p)'
  <2>1. Feed!CopyOk(p) /\ Feed!Owed(p) /\ fEvent[p] \in Feed!Event
    BY <1>1 DEF Feed!IInv, Feed!Typed
  <2>2. fEvent[p].bound \in Nat
    BY <2>1 DEF Feed!Event
  <2>3. Feed!CopyOk(p)'
    <3>1. /\ fSnapshot' = fSnapshot /\ fNotified' = fNotified /\ fGone' = fGone
          /\ fEvent' = fEvent /\ fStarted' = fStarted /\ fPc' = fPc
      BY DEF Feed!subscribe
    <3>2. fEvent[p].bound <= fNextId => fEvent[p].bound <= fNextId'
      BY <2>2, <1>6
    <3>. QED BY <2>1, <3>1, <3>2 DEF Feed!CopyOk, Feed!Ordered, Feed!Increasing
  <2>4. ASSUME fPc[p] = "calling", NEW j \in 1 .. Len(fSlots'), fSlots'[j].id < fEvent[p].bound
        PROVE  \/ \E k \in 1 .. Len(fSnapshot[p]) : fSnapshot[p][k] = fSlots'[j]
               \/ Feed!Wants(fSlots'[j], p) => \E k \in 1 .. Len(fNotified[p]) : fNotified[p][k] = fSlots'[j].id
    <3>1. j \in 1 .. Len(fSlots)
      BY <2>1, <2>2, <2>4, <1>3, <1>5, <1>6 DEF Feed!CopyOk
    <3>. QED BY <3>1, <2>1, <2>4, <1>5 DEF Feed!Owed
  <2>5. Feed!Owed(p)'
    BY <2>4 DEF Feed!Owed, Feed!Wants, Feed!subscribe
  <2>. QED BY <2>3, <2>5
<1>. QED BY <1>7, <1>9, <1>10 DEF Feed!IInv

(* publish() copies the list.                                              *)
LEMMA FeedPublishKeeps ==
  ASSUME Feed!Sized, Feed!IInv, NEW p \in Publishers, NEW c \in FeedSymbols, Feed!Publish(p, c)
  PROVE  Feed!IInv'
<1>1. Feed!Typed /\ Feed!SlotsOk
  BY DEF Feed!IInv
<1>2. PICK e : e = [symbol |-> c, number |-> fStarted, bound |-> fNextId]
  OBVIOUS
<1>3. e \in Feed!Event /\ e.number = fStarted /\ e.bound = fNextId
  BY <1>1, <1>2 DEF Feed!Event, Feed!Typed, Feed!AnySymbols, Feed!Sized
<1>4. /\ fEvent' = [fEvent EXCEPT ![p] = e] /\ fSnapshot' = [fSnapshot EXCEPT ![p] = fSlots]
      /\ fNotified' = [fNotified EXCEPT ![p] = <<>>] /\ fPc' = [fPc EXCEPT ![p] = "calling"]
      /\ fStarted' = fStarted + 1 /\ fStarted < MaxEvents /\ fSlots' = fSlots /\ fNextId' = fNextId /\ fGone' = fGone
  BY <1>2 DEF Feed!Publish, Feed!feed
<1>5. fStarted \in Nat /\ MaxEvents \in Nat
  BY <1>1 DEF Feed!Typed, Feed!Sized
<1>6. Feed!Typed'
  BY <1>1, <1>3, <1>4, <1>5 DEF Feed!Typed
<1>7. Feed!SlotsOk'
  BY <1>1, <1>4 DEF Feed!SlotsOk, Feed!Forever
<1>8. ASSUME NEW o \in Publishers, o # p PROVE Feed!CopyOk(o)' /\ Feed!Owed(o)'
  <2>1. Feed!CopyOk(o) /\ Feed!Owed(o) /\ fEvent[o] \in Feed!Event
    BY <1>1 DEF Feed!IInv, Feed!Typed
  <2>2. fEvent[o].number \in Nat
    BY <2>1 DEF Feed!Event
  <2>3. fEvent'[o] = fEvent[o] /\ fSnapshot'[o] = fSnapshot[o] /\ fNotified'[o] = fNotified[o] /\ fPc'[o] = fPc[o]
    BY <1>8, <1>1, <1>4 DEF Feed!Typed
  <2>4. Feed!CopyOk(o)'
    BY <2>1, <2>2, <2>3, <1>4, <1>5 DEF Feed!CopyOk, Feed!Ordered, Feed!Increasing
  <2>5. Feed!Owed(o)'
    BY <2>1, <2>3, <1>4 DEF Feed!Owed, Feed!Wants
  <2>. QED BY <2>4, <2>5
<1>9. Feed!CopyOk(p)' /\ Feed!Owed(p)'
  <2>1. fEvent'[p] = e /\ fSnapshot'[p] = fSlots /\ fNotified'[p] = <<>> /\ fPc'[p] = "calling"
    BY <1>1, <1>4 DEF Feed!Typed
  <2>2. fNextId <= fNextId /\ \A j \in 1 .. Len(fSlots) : fGone[fSlots[j].id] > fStarted
    BY <1>1, <1>4, <1>5 DEF Feed!SlotsOk, Feed!Forever, Feed!Typed
  <2>3. Feed!CopyOk(p)'
    BY <2>1, <2>2, <1>1, <1>3, <1>4, <1>5 DEF Feed!CopyOk, Feed!Ordered, Feed!Increasing, Feed!SlotsOk
  <2>4. Feed!Owed(p)'
    BY <2>1, <1>4 DEF Feed!Owed
  <2>. QED BY <2>3, <2>4
<1>. QED BY <1>6, <1>7, <1>8, <1>9 DEF Feed!IInv

\* Of the list of slots some may be removed now.
FeedShrinks ==
  /\ fNextId' = fNextId
  /\ \A j \in 1 .. Len(fSlots') : \E k \in 1 .. Len(fSlots) : fSlots'[j] = fSlots[k]
  /\ \A i \in Feed!ObserverIds : fGone'[i] = fGone[i] \/ fGone'[i] = fStarted

(* A callback on the copy: what was the head of the copy has been called   *)
(* if it wanted the event.                                                 *)
LEMMA FeedCallKeeps ==
  ASSUME Feed!Sized, Feed!IInv, NEW p \in Publishers, fPc[p] = "calling", fSnapshot[p] # <<>>,
         Feed!Call(p, Head(fSnapshot[p])), fSnapshot' = [fSnapshot EXCEPT ![p] = Tail(@)],
         UNCHANGED <<fPc, fEvent, fStarted>>, FeedShrinks
  PROVE  /\ fSnapshot' \in [Publishers -> Seq(Feed!Slot)] /\ fNotified' \in [Publishers -> Seq(Feed!ObserverIds)]
         /\ \A o \in Publishers : o # p => fSnapshot'[o] = fSnapshot[o] /\ fNotified'[o] = fNotified[o]
         /\ Feed!CopyOk(p)' /\ Feed!Owed(p)'
<1>1. Feed!Typed /\ Feed!CopyOk(p) /\ Feed!Owed(p)
  BY DEF Feed!IInv
<1>. DEFINE n == fNotified[p]
            s == fSnapshot[p]
            e == fEvent[p].number
            h == Head(fSnapshot[p])
<1>2. n \in Seq(Feed!ObserverIds) /\ s \in Seq(Feed!Slot) /\ fEvent[p] \in Feed!Event /\ s # <<>>
  BY <1>1 DEF Feed!Typed
<1>3. e \in Nat /\ fStarted \in Nat
  BY <1>2, <1>1 DEF Feed!Event, Feed!Typed, Feed!Sized
<1>4. fSnapshot'[p] = Tail(s) /\ \A o \in Publishers : o # p => fSnapshot'[o] = fSnapshot[o]
  BY <1>1 DEF Feed!Typed
<1>5. h = s[1] /\ Len(s) \in Nat /\ Len(s) > 0
  BY <1>2
<1>6. Tail(s) \in Seq(Feed!Slot) /\ Len(Tail(s)) = Len(s) - 1 /\ \A k \in 1 .. Len(s) - 1 : Tail(s)[k] = s[k + 1]
  BY <1>2
<1>7. h \in Feed!Slot /\ h.id \in Feed!ObserverIds /\ h.id \in Nat
  BY <1>2, <1>5, FeedSlotIds
<1>8. fSnapshot' \in [Publishers -> Seq(Feed!Slot)]
  BY <1>1, <1>6 DEF Feed!Typed
<1>9. fNotified' = IF Feed!Wants(h, p) THEN [fNotified EXCEPT ![p] = Append(n, h.id)] ELSE fNotified
  BY DEF Feed!Call
<1>. HIDE DEF n, s, e, h
<1>10. n \in Seq(Nat)
  BY <1>2 DEF Feed!ObserverIds, Feed!Sized
<1>11. /\ \A j, k \in 1 .. Len(n) : j < k => n[j] < n[k]
       /\ \A j \in 1 .. Len(n) : fGone[n[j]] > e /\ \A k \in 1 .. Len(s) : n[j] < s[k].id
       /\ \A j, k \in 1 .. Len(s) : j < k => s[j].id < s[k].id
       /\ \A k \in 1 .. Len(s) : fGone[s[k].id] > e
       /\ e < fStarted /\ fEvent[p].bound <= fNextId /\ e <= MaxEvents
  <2>1. DOMAIN n = 1 .. Len(n)
    BY <1>2
  <2>2. \A j, k \in 1 .. Len(n) : j < k => n[j] < n[k]
    BY <1>1, <2>1 DEF Feed!CopyOk, Feed!Increasing, n
  <2>3. \A j \in 1 .. Len(n) : fGone[n[j]] > e /\ \A k \in 1 .. Len(s) : n[j] < s[k].id
    BY <1>1 DEF Feed!CopyOk, n, s, e
  <2>4. /\ \A j, k \in 1 .. Len(s) : j < k => s[j].id < s[k].id
        /\ \A k \in 1 .. Len(s) : fGone[s[k].id] > e
    BY <1>1 DEF Feed!CopyOk, Feed!Ordered, s, e
  <2>5. e < fStarted /\ fEvent[p].bound <= fNextId /\ e <= MaxEvents
    BY <1>1 DEF Feed!CopyOk, s, e
  <2>. QED BY <2>2, <2>3, <2>4, <2>5
<1>12. fNotified' \in [Publishers -> Seq(Feed!ObserverIds)] /\ \A o \in Publishers : o # p => fNotified'[o] = fNotified[o]
  <2>1. CASE Feed!Wants(h, p)
    <3>1. Append(n, h.id) \in Seq(Feed!ObserverIds)
      BY <1>2, <1>7
    <3>. QED BY <2>1, <3>1, <1>1, <1>9 DEF Feed!Typed
  <2>2. CASE ~Feed!Wants(h, p)
    BY <2>2, <1>1, <1>9 DEF Feed!Typed
  <2>. QED BY <2>1, <2>2
<1>. DEFINE m == fNotified'[p]
<1>13. m = IF Feed!Wants(h, p) THEN Append(n, h.id) ELSE n
  BY <1>1, <1>9 DEF Feed!Typed, n
<1>14. /\ Len(n) \in Nat /\ Len(m) = IF Feed!Wants(h, p) THEN Len(n) + 1 ELSE Len(n)
       /\ \A j \in 1 .. Len(n) : m[j] = n[j]
       /\ Feed!Wants(h, p) => m[Len(n) + 1] = h.id
  BY <1>2, <1>7, <1>13
<1>. HIDE DEF m
<1>15. \A j \in 1 .. Len(m) : (j \in 1 .. Len(n) /\ m[j] = n[j]) \/ (j = Len(n) + 1 /\ m[j] = h.id)
  BY <1>14
<1>16. ASSUME NEW j \in 1 .. Len(m), NEW k \in 1 .. Len(m), j < k PROVE m[j] < m[k]
  <2>1. j \in 1 .. Len(n) /\ m[j] = n[j]
    BY ONLY <1>14, <1>16, j \in 1 .. Len(m), k \in 1 .. Len(m)
  <2>2. CASE k \in 1 .. Len(n) /\ m[k] = n[k]
    BY ONLY <2>1, <2>2, <1>11, <1>16
  <2>3. CASE k = Len(n) + 1 /\ m[k] = h.id
    <3>1. 1 \in 1 .. Len(s) /\ s[1].id = h.id
      BY ONLY <1>5
    <3>. QED BY ONLY <2>1, <2>3, <3>1, <1>11
  <2>. QED BY ONLY <2>2, <2>3, <1>15, k \in 1 .. Len(m)
<1>17. \A i \in Feed!ObserverIds : fGone[i] > e => fGone'[i] > e
  BY <1>1, <1>3, <1>11 DEF FeedShrinks, Feed!Typed
<1>18. ASSUME NEW j \in 1 .. Len(m) PROVE fGone'[m[j]] > e
  <2>1. m[j] \in Feed!ObserverIds /\ fGone[m[j]] > e
    <3>1. CASE j \in 1 .. Len(n) /\ m[j] = n[j]
      BY ONLY <3>1, <1>2, <1>11
    <3>2. CASE m[j] = h.id
      <4>1. 1 \in 1 .. Len(s) /\ s[1].id = h.id
        BY ONLY <1>5
      <4>. QED BY ONLY <3>2, <4>1, <1>7, <1>11
    <3>. QED BY ONLY <3>1, <3>2, <1>15, j \in 1 .. Len(m)
  <2>. QED BY <2>1, <1>17
<1>19. ASSUME NEW j \in 1 .. Len(m), NEW k \in 1 .. Len(Tail(s)) PROVE m[j] < Tail(s)[k].id
  <2>1. k + 1 \in 1 .. Len(s) /\ Tail(s)[k] = s[k + 1] /\ 1 \in 1 .. Len(s) /\ 1 < k + 1
    BY <1>5, <1>6
  <2>2. s[1].id < s[k + 1].id
    BY <2>1, <1>11
  <2>3. m[j] = h.id \/ \E i \in 1 .. Len(n) : m[j] = n[i]
    BY <1>15
  <2>. QED BY <2>1, <2>2, <2>3, <1>5, <1>11
<1>20. ASSUME NEW k \in 1 .. Len(Tail(s)) PROVE fGone'[Tail(s)[k].id] > e
  <2>1. k + 1 \in 1 .. Len(s) /\ Tail(s)[k] = s[k + 1]
    BY <1>5, <1>6
  <2>2. s[k + 1].id \in Feed!ObserverIds
    BY <2>1, <1>2, FeedSlotIds
  <2>. QED BY <2>1, <2>2, <1>11, <1>17
<1>21. Feed!Ordered(Tail(s))
  BY <1>5, <1>6, <1>11 DEF Feed!Ordered
<1>22. DOMAIN m = 1 .. Len(m)
  BY <1>12 DEF m
<1>23. Feed!Increasing(m)
  BY <1>16, <1>22 DEF Feed!Increasing
<1>24. Feed!CopyOk(p)'
  BY <1>4, <1>11, <1>18, <1>19, <1>20, <1>21, <1>23 DEF Feed!CopyOk, FeedShrinks, m, e, Feed!Ordered, Feed!Increasing
<1>25. ASSUME NEW j \in 1 .. Len(fSlots'), fSlots'[j].id < fEvent[p].bound
       PROVE  \/ \E k \in 1 .. Len(Tail(s)) : Tail(s)[k] = fSlots'[j]
              \/ Feed!Wants(fSlots'[j], p) => \E k \in 1 .. Len(m) : m[k] = fSlots'[j].id
  <2>1. PICK i \in 1 .. Len(fSlots) : fSlots'[j] = fSlots[i]
    BY DEF FeedShrinks
  <2>2. CASE \E k \in 1 .. Len(s) : s[k] = fSlots[i]
    <3>1. PICK k \in 1 .. Len(s) : s[k] = fSlots[i]
      BY <2>2
    <3>2. CASE k = 1
      BY <3>1, <3>2, <2>1, <1>5, <1>14
    <3>3. CASE k # 1
      <4>1. k - 1 \in 1 .. Len(Tail(s)) /\ Tail(s)[k - 1] = s[k]
        BY <3>3, <1>5, <1>6
      <4>. QED BY <4>1, <3>1, <2>1
    <3>. QED BY <3>2, <3>3
  <2>3. CASE Feed!Wants(fSlots[i], p) => \E k \in 1 .. Len(n) : n[k] = fSlots[i].id
    BY <2>1, <2>3, <1>14
  <2>. QED BY <2>1, <2>2, <2>3, <1>1, <1>25 DEF Feed!Owed, n, s
<1>26. Feed!Owed(p)'
  BY <1>4, <1>25 DEF Feed!Owed, Feed!Wants, m
<1>. QED BY <1>8, <1>4, <1>12, <1>24, <1>26

(* The callback may unsubscribe an observer.                               *)
LEMMA FeedNotifyKeeps ==
  ASSUME Feed!Sized, Feed!IInv, NEW p \in Publishers, Feed!Notify(p)
  PROVE  Feed!IInv'
<1>1. Feed!Typed /\ Feed!SlotsOk
  BY DEF Feed!IInv
<1>2. /\ fPc[p] = "calling" /\ fSnapshot[p] # <<>> /\ Feed!Call(p, Head(fSnapshot[p]))
      /\ fSnapshot' = [fSnapshot EXCEPT ![p] = Tail(@)] /\ UNCHANGED <<fPc, fEvent, fStarted>>
      /\ fSlots' = fSlots /\ fNextId' = fNextId /\ fGone' = fGone
  BY DEF Feed!Notify, Feed!feed
<1>3. FeedShrinks
  BY <1>2 DEF FeedShrinks
<1>4. /\ fSnapshot' \in [Publishers -> Seq(Feed!Slot)] /\ fNotified' \in [Publishers -> Seq(Feed!ObserverIds)]
      /\ \A o \in Publishers : o # p => fSnapshot'[o] = fSnapshot[o] /\ fNotified'[o] = fNotified[o]
      /\ Feed!CopyOk(p)' /\ Feed!Owed(p)'
  BY <1>2, <1>3, FeedCallKeeps
<1>5. Feed!Typed'
  BY <1>1, <1>2, <1>4 DEF Feed!Typed
<1>6. Feed!SlotsOk'
  BY <1>1, <1>2 DEF Feed!SlotsOk, Feed!Forever
<1>7. ASSUME NEW o \in Publishers, o # p PROVE Feed!CopyOk(o)' /\ Feed!Owed(o)'
  <2>1. Feed!CopyOk(o) /\ Feed!Owed(o)
    BY DEF Feed!IInv
  <2>2. fSnapshot'[o] = fSnapshot[o] /\ fNotified'[o] = fNotified[o]
    BY <1>4, <1>7
  <2>3. Feed!CopyOk(o)'
    BY <2>1, <2>2, <1>2 DEF Feed!CopyOk, Feed!Ordered, Feed!Increasing
  <2>4. Feed!Owed(o)'
    BY <2>1, <2>2, <1>2 DEF Feed!Owed, Feed!Wants
  <2>. QED BY <2>3, <2>4
<1>. QED BY <1>4, <1>5, <1>6, <1>7 DEF Feed!IInv

(* The callback throws, and the loop goes on.                              *)
LEMMA FeedNotifyThrowsKeeps ==
  ASSUME Feed!Sized, Feed!IInv, NEW p \in Publishers, Feed!NotifyThrows(p)
  PROVE  Feed!IInv'
<1>1. Feed!Typed /\ fSnapshot[p] \in Seq(Feed!Slot)
  BY DEF Feed!IInv, Feed!Typed
<1>2. /\ fPc[p] = "calling" /\ fSnapshot[p] # <<>> /\ Feed!Call(p, Head(fSnapshot[p]))
      /\ fSnapshot' = [fSnapshot EXCEPT ![p] = Tail(@)] /\ UNCHANGED <<fPc, fEvent, fStarted>>
      /\ Feed!Erase(Head(fSnapshot[p]).id)
  BY DEF Feed!NotifyThrows
<1>3. Head(fSnapshot[p]) = fSnapshot[p][1] /\ 1 \in 1 .. Len(fSnapshot[p])
  BY <1>1, <1>2
<1>4. PICK id \in Feed!ObserverIds : id = Head(fSnapshot[p]).id
  BY <1>1, <1>3, FeedSlotIds
<1>5. Feed!Erase(id)
  BY <1>2, <1>4
<1>6. FeedShrinks
  BY <1>5, FeedErases DEF FeedShrinks
<1>7. /\ fSnapshot' \in [Publishers -> Seq(Feed!Slot)] /\ fNotified' \in [Publishers -> Seq(Feed!ObserverIds)]
      /\ \A o \in Publishers : o # p => fSnapshot'[o] = fSnapshot[o] /\ fNotified'[o] = fNotified[o]
      /\ Feed!CopyOk(p)' /\ Feed!Owed(p)'
  BY <1>2, <1>6, FeedCallKeeps
<1>8. /\ Feed!Typed' /\ Feed!SlotsOk'
      /\ \A o \in Publishers : fSnapshot'[o] = fSnapshot[o] /\ fNotified'[o] = fNotified[o] => Feed!CopyOk(o)' /\ Feed!Owed(o)'
  BY <1>2, <1>5, <1>7, FeedEraseKeeps
<1>. QED BY <1>7, <1>8 DEF Feed!IInv

(* publish() returns.                                                      *)
LEMMA FeedReturnKeeps ==
  ASSUME Feed!Sized, Feed!IInv, NEW p \in Publishers, Feed!Return(p)
  PROVE  Feed!IInv'
<1>1. Feed!Typed /\ Feed!SlotsOk
  BY DEF Feed!IInv
<1>2. /\ fSnapshot[p] = <<>> /\ fPc[p] = "calling" /\ fPc' = [fPc EXCEPT ![p] = "idle"]
      /\ fSlots' = fSlots /\ fNextId' = fNextId /\ fGone' = fGone
      /\ fEvent' = fEvent /\ fSnapshot' = fSnapshot /\ fStarted' = fStarted /\ fNotified' = fNotified
  BY DEF Feed!Return, Feed!feed
<1>3. Feed!Typed'
  BY <1>1, <1>2 DEF Feed!Typed
<1>4. Feed!SlotsOk'
  BY <1>1, <1>2 DEF Feed!SlotsOk, Feed!Forever
<1>5. ASSUME NEW o \in Publishers PROVE Feed!CopyOk(o)' /\ Feed!Owed(o)'
  <2>1. Feed!CopyOk(o) /\ Feed!Owed(o)
    BY DEF Feed!IInv
  <2>2. fPc'[o] = IF o = p THEN "idle" ELSE fPc[o]
    BY <1>1, <1>2 DEF Feed!Typed
  <2>3. Feed!CopyOk(o)'
    BY <2>1, <2>2, <1>2 DEF Feed!CopyOk, Feed!Ordered, Feed!Increasing
  <2>4. Feed!Owed(o)'
    BY <2>1, <2>2, <1>2 DEF Feed!Owed, Feed!Wants
  <2>. QED BY <2>3, <2>4
<1>. QED BY <1>3, <1>4, <1>5 DEF Feed!IInv

(* Every step of every publisher and of the callbacks keeps the invariant. *)
LEMMA FeedInductive == Feed!Sized /\ Feed!IInv /\ [Feed!Next]_Feed!vars => Feed!IInv'
<1>. SUFFICES ASSUME Feed!Sized, Feed!IInv, [Feed!Next]_Feed!vars PROVE Feed!IInv'
  OBVIOUS
<1>1. CASE UNCHANGED Feed!vars
  BY <1>1 DEF Feed!vars, Feed!IInv, Feed!Typed, Feed!SlotsOk, Feed!CopyOk, Feed!Owed, Feed!Ordered, Feed!Increasing, Feed!Wants, Feed!Forever
<1>2. ASSUME NEW c \in Feed!AnySymbols, Feed!subscribe(c) PROVE Feed!IInv'
  BY <1>2, FeedSubscribeKeeps
<1>3. ASSUME NEW id \in Feed!ObserverIds, Feed!unsubscribe(id) PROVE Feed!IInv'
  <2>1. Feed!Typed
    BY DEF Feed!IInv
  <2>2. Feed!Erase(id) /\ UNCHANGED <<fPc, fEvent, fStarted>> /\ fSnapshot' = fSnapshot /\ fNotified' = fNotified
    BY <1>3 DEF Feed!unsubscribe
  <2>3. fSnapshot' \in [Publishers -> Seq(Feed!Slot)] /\ fNotified' \in [Publishers -> Seq(Feed!ObserverIds)]
    BY <2>1, <2>2 DEF Feed!Typed
  <2>. QED BY <2>2, <2>3, FeedEraseKeeps DEF Feed!IInv
<1>4. ASSUME NEW p \in Publishers, NEW c \in FeedSymbols, Feed!Publish(p, c) PROVE Feed!IInv'
  BY <1>4, FeedPublishKeeps
<1>5. ASSUME NEW p \in Publishers, Feed!Notify(p) \/ Feed!NotifyThrows(p) \/ Feed!Return(p) PROVE Feed!IInv'
  BY <1>5, FeedNotifyKeeps, FeedNotifyThrowsKeeps, FeedReturnKeeps
<1>. QED BY <1>1, <1>2, <1>3, <1>4, <1>5 DEF Feed!Next, Feed!AnySymbols

(* Initially nobody has been called.                                       *)
LEMMA FeedFilteredInit == Feed!Init => Feed!Filtered
BY DEF Feed!Init, Feed!Filtered, Feed!FilterOk

(* A step that is not o's publish(): a slot is an old one or has a new id, *)
(* and o goes on with its copy.                                            *)
LEMMA FeedFilterKeeps ==
  ASSUME Feed!Sized, Feed!IInv, Feed!Filtered, NEW o \in Publishers, fEvent'[o] = fEvent[o],
         fNextId' = fNextId \/ fNextId' = fNextId + 1,
         \A j \in 1 .. Len(fSlots') : fSlots'[j].id = fNextId \/ \E i \in 1 .. Len(fSlots) : fSlots'[j] = fSlots[i],
         \A k \in 1 .. Len(fSnapshot'[o]) : \E i \in 1 .. Len(fSnapshot[o]) : fSnapshot'[o][k] = fSnapshot[o][i],
         \A k \in 1 .. Len(fNotified'[o]) :
            \/ \E i \in 1 .. Len(fNotified[o]) : fNotified'[o][k] = fNotified[o][i]
            \/ \E i \in 1 .. Len(fSnapshot[o]) : fNotified'[o][k] = fSnapshot[o][i].id /\ Feed!Wants(fSnapshot[o][i], o)
  PROVE  Feed!FilterOk(o)'
<1>1. Feed!FilterOk(o) /\ fNextId \in Nat /\ fSnapshot[o] \in Seq(Feed!Slot) /\ fNotified[o] \in Seq(Feed!ObserverIds)
  BY DEF Feed!Filtered, Feed!IInv, Feed!Typed
<1>2. ASSUME NEW k \in 1 .. Len(fSnapshot'[o])
      PROVE  /\ fSnapshot'[o][k].id < fNextId'
             /\ \A j \in 1 .. Len(fSlots') : fSlots'[j].id = fSnapshot'[o][k].id => fSlots'[j] = fSnapshot'[o][k]
  <2>1. PICK i \in 1 .. Len(fSnapshot[o]) : fSnapshot'[o][k] = fSnapshot[o][i]
    OBVIOUS
  <2>2. fSnapshot[o][i].id < fNextId /\ fSnapshot[o][i].id \in Nat
    BY <1>1, FeedSlotIds DEF Feed!FilterOk
  <2>3. \A j \in 1 .. Len(fSlots) : fSlots[j].id = fSnapshot[o][i].id => fSlots[j] = fSnapshot[o][i]
    BY <1>1 DEF Feed!FilterOk
  <2>4. fSnapshot[o][i].id # fNextId /\ fSnapshot[o][i].id < fNextId'
    <3>1. PICK d \in Nat : d = fSnapshot[o][i].id
      BY <2>2
    <3>2. d < fNextId
      BY <2>2, <3>1
    <3>3. d # fNextId /\ d < fNextId'
      BY ONLY <1>1, <3>2, d \in Nat, fNextId' = fNextId \/ fNextId' = fNextId + 1
    <3> QED BY <3>1, <3>3
  <2> QED BY <2>1, <2>3, <2>4
<1>3. ASSUME NEW k \in 1 .. Len(fNotified'[o])
      PROVE  /\ fNotified'[o][k] < fNextId'
             /\ \A j \in 1 .. Len(fSlots') : fSlots'[j].id = fNotified'[o][k] => Feed!Wants(fSlots'[j], o)
  <2>1. PICK n : n = fNotified'[o][k]
    OBVIOUS
  <2>2. n \in Nat /\ n < fNextId /\ \A j \in 1 .. Len(fSlots) : fSlots[j].id = n => Feed!Wants(fSlots[j], o)
    <3>1. ASSUME NEW i \in 1 .. Len(fNotified[o]), n = fNotified[o][i]
          PROVE  n \in Nat /\ n < fNextId /\ \A j \in 1 .. Len(fSlots) : fSlots[j].id = n => Feed!Wants(fSlots[j], o)
      <4>1. fNotified[o][i] \in Nat
        BY <1>1 DEF Feed!ObserverIds, Feed!Sized
      <4> QED BY <1>1, <3>1, <4>1 DEF Feed!FilterOk
    <3>2. ASSUME NEW i \in 1 .. Len(fSnapshot[o]), n = fSnapshot[o][i].id, Feed!Wants(fSnapshot[o][i], o)
          PROVE  n \in Nat /\ n < fNextId /\ \A j \in 1 .. Len(fSlots) : fSlots[j].id = n => Feed!Wants(fSlots[j], o)
      BY <1>1, <3>2, FeedSlotIds DEF Feed!FilterOk
    <3> QED BY <2>1, <3>1, <3>2
  <2>3. n # fNextId /\ n < fNextId'
    BY <1>1, <2>2
  <2> QED BY <2>1, <2>2, <2>3
<1> QED BY <1>2, <1>3 DEF Feed!FilterOk, Feed!Wants

(* Nor does any step call an observer of another symbol.                   *)
LEMMA FeedFilters == Feed!Sized /\ Feed!IInv /\ Feed!Filtered /\ [Feed!Next]_Feed!vars => Feed!Filtered'
<1> SUFFICES ASSUME Feed!Sized, Feed!IInv, Feed!Filtered, [Feed!Next]_Feed!vars, NEW o \in Publishers
             PROVE  Feed!FilterOk(o)'
  BY DEF Feed!Filtered
<1>0. /\ Feed!Typed /\ fSnapshot[o] \in Seq(Feed!Slot) /\ fSlots \in Seq(Feed!Slot)
      /\ fNotified[o] \in Seq(Feed!ObserverIds)
  BY DEF Feed!IInv, Feed!Typed
<1>1. CASE UNCHANGED Feed!vars
  BY <1>1, FeedFilterKeeps DEF Feed!vars
<1>2. ASSUME NEW c \in Feed!AnySymbols, Feed!subscribe(c) PROVE Feed!FilterOk(o)'
  <2>1. PICK x : x = [id |-> fNextId, symbol |-> c]
    OBVIOUS
  <2>2. x \in Feed!Slot /\ x.id = fNextId /\ fSlots' = Append(fSlots, x)
    BY <1>2, <2>1 DEF Feed!subscribe, Feed!Slot
  <2>3. ASSUME NEW j \in 1 .. Len(fSlots')
        PROVE  fSlots'[j].id = fNextId \/ \E i \in 1 .. Len(fSlots) : fSlots'[j] = fSlots[i]
    BY <1>0, <2>2
  <2> QED BY <1>2, <2>3, FeedFilterKeeps DEF Feed!subscribe
<1>3. ASSUME NEW id \in Feed!ObserverIds, Feed!unsubscribe(id) PROVE Feed!FilterOk(o)'
  <2>1. Feed!Erase(id) /\ fSnapshot' = fSnapshot /\ fNotified' = fNotified /\ fEvent' = fEvent
    BY <1>3 DEF Feed!unsubscribe
  <2> QED BY <2>1, FeedErases, FeedFilterKeeps
<1>4. ASSUME NEW p \in Publishers, NEW c \in FeedSymbols, Feed!Publish(p, c) PROVE Feed!FilterOk(o)'
  <2>1. /\ fSlots' = fSlots /\ fNextId' = fNextId
        /\ fSnapshot' = [fSnapshot EXCEPT ![p] = fSlots] /\ fNotified' = [fNotified EXCEPT ![p] = <<>>]
        /\ o # p => fEvent'[o] = fEvent[o]
    BY <1>0, <1>4 DEF Feed!Publish, Feed!feed, Feed!Typed
  <2>2. CASE o # p
    <3>1. fSnapshot'[o] = fSnapshot[o] /\ fNotified'[o] = fNotified[o]
      BY <1>0, <2>1, <2>2 DEF Feed!Typed
    <3> QED BY <2>1, <2>2, <3>1, FeedFilterKeeps
  <2>3. CASE o = p
    <3>1. fSnapshot'[o] = fSlots /\ fNotified'[o] = <<>>
      BY <1>0, <2>1, <2>3 DEF Feed!Typed
    <3>2. \A k, j \in 1 .. Len(fSlots) : fSlots[k].id < fNextId /\ (fSlots[j].id = fSlots[k].id => j = k)
      <4>1. \A k \in 1 .. Len(fSlots) : fSlots[k].id \in Nat
        BY <1>0, FeedSlotIds
      <4> QED BY <1>0, <4>1 DEF Feed!IInv, Feed!SlotsOk, Feed!Ordered
    <3> QED BY <2>1, <3>1, <3>2 DEF Feed!FilterOk
  <2> QED BY <2>2, <2>3
<1>5. ASSUME NEW p \in Publishers, Feed!Notify(p) \/ Feed!NotifyThrows(p) PROVE Feed!FilterOk(o)'
  <2>1. /\ fSnapshot[p] # <<>> /\ fEvent' = fEvent /\ fSnapshot' = [fSnapshot EXCEPT ![p] = Tail(@)]
        /\ fNotified' = IF Feed!Wants(Head(fSnapshot[p]), p) THEN [fNotified EXCEPT ![p] = Append(@, Head(fSnapshot[p]).id)] ELSE fNotified
    BY <1>5 DEF Feed!Notify, Feed!NotifyThrows, Feed!Call
  <2>2. fSnapshot[p] \in Seq(Feed!Slot) /\ fNotified[p] \in Seq(Feed!ObserverIds)
    BY <1>0 DEF Feed!Typed
  <2>3h. Head(fSnapshot[p]) = fSnapshot[p][1] /\ 1 \in 1 .. Len(fSnapshot[p])
    BY <2>1, <2>2
  <2>3. PICK h : h = Head(fSnapshot[p]) /\ h = fSnapshot[p][1] /\ 1 \in 1 .. Len(fSnapshot[p])
    BY ONLY <2>3h
  <2>4. h \in Feed!Slot /\ h.id \in Feed!ObserverIds
    BY <2>2, <2>3, FeedSlotIds
  <2>5. fNextId' = fNextId /\ \A j \in 1 .. Len(fSlots') : \E i \in 1 .. Len(fSlots) : fSlots'[j] = fSlots[i]
    <3>1. CASE Feed!Notify(p)
      BY <3>1 DEF Feed!Notify, Feed!feed
    <3>2. CASE Feed!NotifyThrows(p)
      <4>1. Feed!Erase(h.id)
        BY <2>3, <3>2 DEF Feed!NotifyThrows
      <4> QED BY <2>4, <4>1, FeedErases
    <3> QED BY <1>5, <3>1, <3>2
  <2>6. \A k \in 1 .. Len(fSnapshot'[o]) : \E i \in 1 .. Len(fSnapshot[o]) : fSnapshot'[o][k] = fSnapshot[o][i]
    <3>1. CASE o # p
      BY <1>0, <2>1, <3>1 DEF Feed!Typed
    <3>2. CASE o = p
      <4>1. fSnapshot'[o] = Tail(fSnapshot[o])
        BY <1>0, <2>1, <3>2 DEF Feed!Typed
      <4>2. /\ Len(fSnapshot[o]) \in Nat /\ Len(Tail(fSnapshot[o])) = Len(fSnapshot[o]) - 1
            /\ \A k \in 1 .. Len(fSnapshot[o]) - 1 : Tail(fSnapshot[o])[k] = fSnapshot[o][k + 1]
        BY <1>0, <2>1, <3>2
      <4> QED BY <4>1, <4>2
    <3> QED BY <3>1, <3>2
  <2>7. ASSUME NEW k \in 1 .. Len(fNotified'[o])
        PROVE  \/ \E i \in 1 .. Len(fNotified[o]) : fNotified'[o][k] = fNotified[o][i]
               \/ \E i \in 1 .. Len(fSnapshot[o]) : fNotified'[o][k] = fSnapshot[o][i].id /\ Feed!Wants(fSnapshot[o][i], o)
    <3>1. CASE o # p \/ ~Feed!Wants(h, p)
      <4>1. fNotified'[o] = fNotified[o]
        BY <1>0, <2>1, <2>3, <3>1 DEF Feed!Typed
      <4> QED BY <4>1
    <3>2. CASE o = p /\ Feed!Wants(h, p)
      <4>1. fNotified'[o] = Append(fNotified[o], h.id)
        BY <1>0, <2>1, <2>3, <3>2 DEF Feed!Typed
      <4>2. \/ k \in 1 .. Len(fNotified[o]) /\ fNotified'[o][k] = fNotified[o][k]
            \/ fNotified'[o][k] = h.id
        BY <1>0, <2>4, <4>1
      <4> QED BY <2>3, <3>2, <4>2
    <3> QED BY <3>1, <3>2
  <2> QED BY <2>1, <2>5, <2>6, <2>7, FeedFilterKeeps
<1>6. ASSUME NEW p \in Publishers, Feed!Return(p) PROVE Feed!FilterOk(o)'
  BY <1>6, FeedFilterKeeps DEF Feed!Return, Feed!feed
<1> QED BY <1>1, <1>2, <1>3, <1>4, <1>5, <1>6 DEF Feed!Next, Feed!AnySymbols

-----------------------------------------------------------------------------
(* LruCache.                                                               *)

Lru == INSTANCE LruCache WITH capacity_ <- CacheSize, Keys <- CacheKeys,
        Values <- CacheValues, Null <- NoNode, order_ <- lruOrder,
        item <- lruItem, map_ <- lruMap, recent <- lruRecent,
        newest <- lruNewest

(* The least of a set of numbers is one of them.                           *)
LEMMA LruFirstIn ==
  ASSUME NEW T, T \subseteq Nat, T # {}
  PROVE  Lru!Min(T) \in T
BY LeastIn DEF Lru!Min

(* A sequence without its i-th element.                                    *)
LEMMA LruRemoved ==
  ASSUME NEW S, NEW s \in Seq(S), NEW i \in 1 .. Len(s)
  PROVE  /\ Lru!RemoveAt(s, i) \in Seq(S)
         /\ Len(Lru!RemoveAt(s, i)) = Len(s) - 1
         /\ \A k \in 1 .. Len(s) - 1 : Lru!RemoveAt(s, i)[k] = IF k < i THEN s[k] ELSE s[k + 1]
BY Spliced DEF Lru!RemoveAt

(* A new cache.                                                            *)
LEMMA LruInit == Lru!Sized /\ Lru!Init => Lru!IInv
BY DEF Lru!Sized, Lru!Init, Lru!IInv, Lru!WellTyped, Lru!OneToOne, Lru!Aligned, Lru!Mapped, Lru!Item, Lru!NoItem

(* What the invariant promises: the cache holds the keys that were used    *)
(* last, in that order, with the value put last.                           *)
LEMMA LruImplied == Lru!Sized /\ Lru!IInv => Lru!KeepsRecent
<1>. SUFFICES ASSUME Lru!Sized, Lru!IInv PROVE Lru!KeepsRecent
  OBVIOUS
<1>. DEFINE size == IF Len(lruRecent) < CacheSize THEN Len(lruRecent) ELSE CacheSize
            cached == [i \in DOMAIN lruOrder |-> lruItem[lruOrder[i]]]
<1>1. Lru!WellTyped /\ Lru!Aligned /\ Lru!Mapped
  BY DEF Lru!IInv
<1>2. DOMAIN lruOrder = 1 .. Len(lruOrder) /\ Len(lruOrder) \in Nat /\ Len(lruRecent) \in Nat
  BY <1>1 DEF Lru!WellTyped
<1>3. Len(lruOrder) = size
  <2>1. CacheSize \in Nat
    BY DEF Lru!Sized
  <2>2. /\ Len(lruOrder) <= CacheSize /\ Len(lruOrder) <= Len(lruRecent)
        /\ Len(lruOrder) < CacheSize => Len(lruOrder) = Len(lruRecent)
    BY <1>1 DEF Lru!Aligned
  <2>3. PICK a, b, c \in Nat : a = Len(lruOrder) /\ b = Len(lruRecent) /\ c = CacheSize
    BY <1>2, <2>1
  <2>4. a <= c /\ a <= b /\ (a < c => a = b)
    BY <2>2, <2>3
  <2>5. a = IF b < c THEN b ELSE c
    BY <2>4
  <2>. QED BY <2>3, <2>5
<1>4. ASSUME NEW i \in DOMAIN lruOrder
      PROVE  /\ cached[i].key = lruRecent[Len(lruRecent) - size + i]
             /\ cached[i].value = lruNewest[cached[i].key]
             /\ lruMap[cached[i].key] = lruOrder[i]
  BY <1>1, <1>2, <1>3 DEF Lru!Aligned
<1>5. \A k \in CacheKeys : lruMap[k] # NoNode => lruMap[k] \in Lru!ToSet(lruOrder)
  BY <1>1, <1>2 DEF Lru!Mapped, Lru!ToSet
<1>. QED BY <1>3, <1>4, <1>5 DEF Lru!KeepsRecent

(* A key that is not in the list goes to its end.                          *)
LEMMA LruAbsent ==
  ASSUME NEW S, NEW s \in Seq(S), NEW x \in S, \A k \in 1 .. Len(s) : s[k] # x
  PROVE  Lru!ToBack(s, x) = Append(s, x)
BY DEF Lru!ToBack, Lru!RemoveFirst

(* What splicing the element at i to the end makes of s.                   *)
LEMMA LruToBackAt ==
  ASSUME NEW S, NEW s \in Seq(S), Lru!OneToOne(s), NEW i \in 1 .. Len(s)
  PROVE  /\ Lru!ToBack(s, s[i]) \in Seq(S) /\ Len(Lru!ToBack(s, s[i])) = Len(s)
         /\ Lru!OneToOne(Lru!ToBack(s, s[i]))
         /\ \A k \in 1 .. Len(s) : Lru!ToBack(s, s[i])[k] =
              IF k = Len(s) THEN s[i] ELSE IF k < i THEN s[k] ELSE s[k + 1]
<1>. DEFINE T == {k \in 1 .. Len(s) : s[k] = s[i]}
            r == Lru!RemoveAt(s, i)
            t == Lru!ToBack(s, s[i])
<1>1. T = {i}
  BY DEF Lru!OneToOne
<1>2. Lru!Min(T) = i
  <2>1. T \subseteq Nat /\ T # {}
    BY <1>1
  <2>. QED BY <1>1, <2>1, LruFirstIn
<1>3. Lru!SelectInSeq(s, LAMBDA v : v = s[i]) = i
  BY <1>1, <1>2 DEF Lru!SelectInSeq
<1>4. t = Append(r, s[i])
  BY <1>3 DEF Lru!ToBack, Lru!RemoveFirst
<1>5. r \in Seq(S) /\ Len(r) = Len(s) - 1 /\ \A k \in 1 .. Len(s) - 1 : r[k] = IF k < i THEN s[k] ELSE s[k + 1]
  BY LruRemoved
<1>. HIDE DEF t, r
<1>6. s[i] \in S /\ Len(s) \in Nat
  OBVIOUS
<1>7. t \in Seq(S) /\ Len(t) = Len(s) /\ t[Len(s)] = s[i] /\ \A k \in 1 .. Len(s) - 1 : t[k] = r[k]
  BY <1>4, <1>5, <1>6
<1>. DEFINE f(k) == IF k = Len(s) THEN i ELSE IF k < i THEN k ELSE k + 1
<1>8. \A k \in 1 .. Len(s) : f(k) \in 1 .. Len(s) /\ t[k] = s[f(k)]
  BY <1>5, <1>6, <1>7
<1>9. \A j, k \in 1 .. Len(s) : f(j) = f(k) => j = k
  BY <1>6
<1>10. Lru!OneToOne(t)
  <2>. SUFFICES ASSUME NEW j \in 1 .. Len(t), NEW k \in 1 .. Len(t), t[j] = t[k] PROVE j = k
    BY DEF Lru!OneToOne
  <2>1. s[f(j)] = s[f(k)] /\ f(j) \in 1 .. Len(s) /\ f(k) \in 1 .. Len(s)
    BY <1>7, <1>8
  <2>2. f(j) = f(k)
    BY <2>1 DEF Lru!OneToOne
  <2>. QED BY <2>2, <1>9, <1>7
<1>11. \A k \in 1 .. Len(s) : t[k] = IF k = Len(s) THEN s[i] ELSE IF k < i THEN s[k] ELSE s[k + 1]
  BY <1>8
<1>. QED BY <1>7, <1>10, <1>11 DEF t

(* get(), or put() of a cached key, splices its node to the end of the     *)
(* list.                                                                   *)
LEMMA LruRefreshKeeps ==
  ASSUME Lru!Sized, Lru!IInv, NEW k \in CacheKeys, lruMap[k] # NoNode,
         lruOrder' = Lru!ToBack(lruOrder, lruMap[k]), lruRecent' = Lru!ToBack(lruRecent, k), lruMap' = lruMap,
         lruItem' \in [Lru!Nodes -> Lru!Item], lruNewest' \in [CacheKeys -> CacheValues \cup {NoNode}],
         \A n \in Lru!Nodes : lruItem'[n].key = lruItem[n].key,
         \A i \in 1 .. Len(lruOrder) : lruItem'[lruOrder[i]].value = lruNewest'[lruItem[lruOrder[i]].key]
  PROVE  Lru!IInv'
<1>1. Lru!WellTyped /\ Lru!OneToOne(lruOrder) /\ Lru!OneToOne(lruRecent) /\ Lru!Aligned /\ Lru!Mapped
  BY DEF Lru!IInv
<1>2. lruOrder \in Seq(Lru!Nodes) /\ lruRecent \in Seq(CacheKeys) /\ Len(lruOrder) \in Nat /\ Len(lruRecent) \in Nat
  BY <1>1 DEF Lru!WellTyped
<1>3. PICK i \in 1 .. Len(lruOrder) : lruOrder[i] = lruMap[k] /\ lruItem[lruOrder[i]].key = k
  BY <1>1 DEF Lru!Mapped
<1>. DEFINE off == Len(lruRecent) - Len(lruOrder)
            g(j) == IF j = Len(lruOrder) THEN i ELSE IF j < i THEN j ELSE j + 1
<1>4. off \in Nat /\ lruRecent[off + i] = k /\ off + i \in 1 .. Len(lruRecent)
  BY <1>1, <1>2, <1>3 DEF Lru!Aligned
<1>5. lruOrder' = Lru!ToBack(lruOrder, lruOrder[i])
  BY <1>3
<1>6. /\ lruOrder' \in Seq(Lru!Nodes) /\ Len(lruOrder') = Len(lruOrder) /\ Lru!OneToOne(lruOrder')
      /\ \A j \in 1 .. Len(lruOrder) : lruOrder'[j] =
              IF j = Len(lruOrder) THEN lruOrder[i] ELSE IF j < i THEN lruOrder[j] ELSE lruOrder[j + 1]
  <2>1. lruOrder \in Seq(Lru!Nodes) /\ Lru!OneToOne(lruOrder) /\ i \in 1 .. Len(lruOrder)
    BY <1>1, <1>2
  <2>. QED BY ONLY <2>1, <1>5, LruToBackAt
<1>7. lruRecent' = Lru!ToBack(lruRecent, lruRecent[off + i])
  BY <1>4
<1>8. /\ lruRecent' \in Seq(CacheKeys) /\ Len(lruRecent') = Len(lruRecent) /\ Lru!OneToOne(lruRecent')
      /\ \A j \in 1 .. Len(lruRecent) : lruRecent'[j] =
              IF j = Len(lruRecent) THEN lruRecent[off + i] ELSE IF j < off + i THEN lruRecent[j] ELSE lruRecent[j + 1]
  <2>1. PICK x \in 1 .. Len(lruRecent) : x = off + i
    BY <1>4
  <2>2. lruRecent' = Lru!ToBack(lruRecent, lruRecent[x])
    BY <2>1, <1>7
  <2>3. /\ lruRecent' \in Seq(CacheKeys) /\ Len(lruRecent') = Len(lruRecent) /\ Lru!OneToOne(lruRecent')
        /\ \A j \in 1 .. Len(lruRecent) : lruRecent'[j] =
                IF j = Len(lruRecent) THEN lruRecent[x] ELSE IF j < x THEN lruRecent[j] ELSE lruRecent[j + 1]
    <3>1. lruRecent \in Seq(CacheKeys) /\ Lru!OneToOne(lruRecent)
      BY <1>1, <1>2
    <3>. DEFINE t == Lru!ToBack(lruRecent, lruRecent[x])
    <3>2. /\ t \in Seq(CacheKeys) /\ Len(t) = Len(lruRecent) /\ Lru!OneToOne(t)
          /\ \A j \in 1 .. Len(lruRecent) : t[j] =
                IF j = Len(lruRecent) THEN lruRecent[x] ELSE IF j < x THEN lruRecent[j] ELSE lruRecent[j + 1]
      BY ONLY <3>1, x \in 1 .. Len(lruRecent), LruToBackAt
    <3>. HIDE DEF t
    <3>3. lruRecent' = t
      BY <2>2 DEF t
    <3>. QED BY <3>2, <3>3, Zenon
  <2>. QED BY <2>1, <2>3
<1>9. \A j \in 1 .. Len(lruOrder) : g(j) \in 1 .. Len(lruOrder) /\ lruOrder'[j] = lruOrder[g(j)]
  BY <1>2, <1>6
<1>10. ASSUME NEW j \in 1 .. Len(lruOrder) PROVE lruRecent'[off + j] = lruRecent[off + g(j)]
  <2>1. off + j \in 1 .. Len(lruRecent) /\ (off + j = Len(lruRecent) <=> j = Len(lruOrder)) /\ (off + j < off + i <=> j < i)
    BY <1>2, <1>4
  <2>2. lruRecent'[off + j] = IF off + j = Len(lruRecent) THEN lruRecent[off + i] ELSE IF off + j < off + i THEN lruRecent[off + j] ELSE lruRecent[off + j + 1]
    BY <2>1, <1>8
  <2>3. off + (j + 1) = off + j + 1
    BY <1>4
  <2>. QED BY <2>1, <2>2, <2>3
<1>11. \A j \in 1 .. Len(lruOrder) : \E a \in 1 .. Len(lruOrder) : lruOrder'[j] = lruOrder[a] /\ lruRecent'[off + j] = lruRecent[off + a]
  BY <1>9, <1>10
<1>12. \A a \in 1 .. Len(lruOrder) : \E j \in 1 .. Len(lruOrder) : lruOrder'[j] = lruOrder[a]
  <2>. SUFFICES ASSUME NEW a \in 1 .. Len(lruOrder) PROVE \E j \in 1 .. Len(lruOrder) : lruOrder'[j] = lruOrder[a]
    OBVIOUS
  <2>. DEFINE j == IF a = i THEN Len(lruOrder) ELSE IF a < i THEN a ELSE a - 1
  <2>1. j \in 1 .. Len(lruOrder) /\ g(j) = a
    BY <1>2
  <2>2. lruOrder'[j] = lruOrder[g(j)]
    BY <2>1, <1>9
  <2>. QED BY <2>1, <2>2
<1>13. Lru!WellTyped'
  BY <1>1, <1>6, <1>8 DEF Lru!WellTyped
<1>. HIDE DEF off, g
<1>14. \A a \in 1 .. Len(lruOrder) : lruOrder[a] \in Lru!Nodes
  BY <1>2
<1>15. ASSUME NEW j \in 1 .. Len(lruOrder')
       PROVE  /\ lruItem'[lruOrder'[j]].key = lruRecent'[Len(lruRecent') - Len(lruOrder') + j]
              /\ lruItem'[lruOrder'[j]].value = lruNewest'[lruItem'[lruOrder'[j]].key]
              /\ lruMap'[lruItem'[lruOrder'[j]].key] = lruOrder'[j]
  <2>1. PICK a \in 1 .. Len(lruOrder) : lruOrder'[j] = lruOrder[a] /\ lruRecent'[off + j] = lruRecent[off + a]
    BY <1>6, <1>11
  <2>2. lruItem[lruOrder[a]].key = lruRecent[off + a] /\ lruMap[lruItem[lruOrder[a]].key] = lruOrder[a]
    BY <1>1 DEF Lru!Aligned, off
  <2>3. lruItem'[lruOrder[a]].key = lruItem[lruOrder[a]].key
    BY <1>14
  <2>. QED BY <2>1, <2>2, <2>3, <1>6, <1>8 DEF off
<1>16. Lru!Aligned'
  BY <1>1, <1>6, <1>8, <1>15 DEF Lru!Aligned
<1>17. ASSUME NEW x \in CacheKeys, lruMap'[x] # NoNode
       PROVE  \E j \in 1 .. Len(lruOrder') : lruOrder'[j] = lruMap'[x] /\ lruItem'[lruOrder'[j]].key = x
  <2>1. PICK a \in 1 .. Len(lruOrder) : lruOrder[a] = lruMap[x] /\ lruItem[lruOrder[a]].key = x
    BY <1>1, <1>17 DEF Lru!Mapped
  <2>2. PICK j \in 1 .. Len(lruOrder) : lruOrder'[j] = lruOrder[a]
    BY <1>12
  <2>. QED BY <2>1, <2>2, <1>6, <1>14
<1>. QED BY <1>6, <1>8, <1>13, <1>16, <1>17 DEF Lru!IInv, Lru!Mapped

(* Among the nodes one is free when fewer are in use.                      *)
LEMMA LruSomeNodeFree ==
  ASSUME Lru!Sized, NEW s \in Seq(Lru!Nodes), Len(s) < CacheSize
  PROVE  \E m \in Lru!Nodes : m \notin Lru!ToSet(s)
<1>. SUFFICES ASSUME Lru!Nodes \subseteq Lru!ToSet(s) PROVE FALSE
  OBVIOUS
<1>1. CacheSize \in Nat /\ Len(s) \in Nat
  BY DEF Lru!Sized
<1>2. IsFiniteSet(1 .. Len(s)) /\ Cardinality(1 .. Len(s)) = Len(s)
  <2>1. PICK n \in Nat : n = Len(s)
    BY <1>1
  <2>2. IsFiniteSet(1 .. n) /\ Cardinality(1 .. n) = n
    BY FS_Interval
  <2>. QED BY <2>1, <2>2
<1>3. IsFiniteSet(Lru!ToSet(s)) /\ Cardinality(Lru!ToSet(s)) <= Len(s)
  <2>1. Lru!ToSet(s) = {s[x] : x \in 1 .. Len(s)}
    BY DEF Lru!ToSet
  <2>2. s \in Surjection(1 .. Len(s), Lru!ToSet(s))
    BY <2>1 DEF Surjection
  <2>. QED BY <2>2, <1>2, FS_Surjection
<1>4. IsFiniteSet(Lru!Nodes) /\ Cardinality(Lru!Nodes) = CacheSize
  BY <1>1, FS_Interval DEF Lru!Nodes
<1>5. Cardinality(Lru!Nodes) <= Cardinality(Lru!ToSet(s))
  BY <1>3, FS_Subset
<1>6. Cardinality(Lru!ToSet(s)) \in Nat
  BY <1>3, FS_CardinalityType
<1>. QED BY <1>1, <1>3, <1>4, <1>5, <1>6

(* The ideal order after a use of a key that is not cached.                *)
LEMMA LruRecentAfter ==
  ASSUME Lru!Sized, Lru!IInv, NEW k \in CacheKeys, lruMap[k] = NoNode, NEW f \in {0, 1},
         f = 1 <=> Len(lruOrder) = CacheSize, lruRecent' = Lru!ToBack(lruRecent, k)
  PROVE  /\ lruRecent' \in Seq(CacheKeys) /\ Lru!OneToOne(lruRecent') /\ Len(lruRecent') >= 1
         /\ lruRecent'[Len(lruRecent')] = k
         /\ Len(lruOrder) - f + 1 <= Len(lruRecent')
         /\ Len(lruOrder) - f + 1 < CacheSize => Len(lruOrder) - f + 1 = Len(lruRecent')
         /\ \A j \in 1 .. Len(lruOrder) - f :
              lruRecent'[Len(lruRecent') - (Len(lruOrder) - f + 1) + j] = lruRecent[Len(lruRecent) - Len(lruOrder) + (j + f)]
<1>1. Lru!WellTyped /\ Lru!OneToOne(lruOrder) /\ Lru!OneToOne(lruRecent) /\ Lru!Aligned
  BY DEF Lru!IInv
<1>2. lruRecent \in Seq(CacheKeys) /\ Len(lruOrder) \in Nat /\ Len(lruRecent) \in Nat /\ lruOrder \in Seq(Lru!Nodes)
  BY <1>1 DEF Lru!WellTyped
<1>3. PICK L, R, c \in Nat : L = Len(lruOrder) /\ R = Len(lruRecent) /\ c = CacheSize
  BY <1>2 DEF Lru!Sized
<1>4. L <= c /\ L <= R /\ (L < c => L = R) /\ c > 0 /\ (f = 1 <=> L = c)
  BY <1>1, <1>3 DEF Lru!Aligned, Lru!Sized
<1>5. \A j \in 1 .. L : lruRecent[R - L + j] # k
  <2>. SUFFICES ASSUME NEW j \in 1 .. L, lruRecent[R - L + j] = k PROVE FALSE
    OBVIOUS
  <2>1. lruMap[k] = lruOrder[j] /\ lruOrder[j] \in Lru!Nodes
    BY <1>1, <1>2, <1>3 DEF Lru!Aligned
  <2>. QED BY <2>1 DEF Lru!Sized
<1>6. CASE \A i \in 1 .. R : lruRecent[i] # k
  <2>1. lruRecent' = Append(lruRecent, k)
    BY <1>2, <1>3, <1>6, LruAbsent
  <2>2. /\ lruRecent' \in Seq(CacheKeys) /\ Len(lruRecent') = R + 1 /\ lruRecent'[R + 1] = k
        /\ \A i \in 1 .. R : lruRecent'[i] = lruRecent[i]
    BY <1>2, <1>3, <2>1
  <2>3. Lru!OneToOne(lruRecent')
    BY <1>1, <1>3, <1>6, <2>2 DEF Lru!OneToOne
  <2>4. ASSUME NEW j \in 1 .. L - f PROVE lruRecent'[R + 1 - (L - f + 1) + j] = lruRecent[R - L + (j + f)]
    <3>1. R + 1 - (L - f + 1) + j = R - L + (j + f) /\ R - L + (j + f) \in 1 .. R
      BY <1>4
    <3>. QED BY <3>1, <2>2
  <2>5. L - f + 1 <= R + 1 /\ (L - f + 1 < c => L - f + 1 = R + 1) /\ R + 1 >= 1
    BY <1>4
  <2>. QED BY <2>2, <2>3, <2>4, <2>5, <1>3
<1>7. CASE \E i \in 1 .. R : lruRecent[i] = k
  <2>1. PICK i \in 1 .. Len(lruRecent) : lruRecent[i] = k
    BY <1>7, <1>3
  <2>2. i \in Nat /\ i <= R - L
    <3>1. CASE i > R - L
      <4>1. i - (R - L) \in 1 .. L /\ R - L + (i - (R - L)) = i
        BY <3>1, <2>1, <1>3, <1>4
      <4>. QED BY <4>1, <2>1, <1>5
    <3>. QED BY <3>1, <1>3, <1>4, <2>1
  <2>3. f = 1 /\ L = c /\ L > 0 /\ L < R
    BY <2>1, <2>2, <1>3, <1>4
  <2>. DEFINE t == Lru!ToBack(lruRecent, lruRecent[i])
  <2>4. /\ t \in Seq(CacheKeys) /\ Len(t) = Len(lruRecent) /\ Lru!OneToOne(t)
        /\ \A j \in 1 .. Len(lruRecent) : t[j] =
              IF j = Len(lruRecent) THEN lruRecent[i] ELSE IF j < i THEN lruRecent[j] ELSE lruRecent[j + 1]
    <3>1. lruRecent \in Seq(CacheKeys) /\ Lru!OneToOne(lruRecent)
      BY <1>1, <1>2
    <3>. QED BY ONLY <3>1, i \in 1 .. Len(lruRecent), LruToBackAt
  <2>. HIDE DEF t
  <2>5. lruRecent' = t
    BY <2>1 DEF t
  <2>6. t[R] = k
    BY <2>1, <2>3, <2>4, <1>3
  <2>7. ASSUME NEW j \in 1 .. L - f PROVE t[R - (L - f + 1) + j] = lruRecent[R - L + (j + f)]
    <3>1. /\ R - (L - f + 1) + j \in 1 .. R /\ R - (L - f + 1) + j # R /\ ~(R - (L - f + 1) + j < i)
          /\ R - (L - f + 1) + j + 1 = R - L + (j + f)
      BY <2>2, <2>3
    <3>. QED BY <3>1, <2>4, <1>3
  <2>8. L - f + 1 <= R /\ (L - f + 1 < c => L - f + 1 = R) /\ R >= 1
    BY <2>3
  <2>. QED BY <2>4, <2>5, <2>6, <2>7, <2>8, <1>3
<1>. QED BY <1>6, <1>7

(* put() of a new key evicts the head of a full list and reuses its node.  *)
LEMMA LruPutNewKeeps ==
  ASSUME Lru!Sized, Lru!IInv, NEW k \in CacheKeys, NEW v \in CacheValues, lruMap[k] = NoNode, Lru!put(k, v)
  PROVE  Lru!IInv'
<1>. DEFINE full == Len(lruOrder) = CacheSize
            kept == IF full THEN Tail(lruOrder) ELSE lruOrder
            left == IF full THEN [lruMap EXCEPT ![lruItem[Head(lruOrder)].key] = NoNode] ELSE lruMap
<1>1. Lru!WellTyped /\ Lru!OneToOne(lruOrder) /\ Lru!OneToOne(lruRecent) /\ Lru!Aligned /\ Lru!Mapped
  BY DEF Lru!IInv
<1>2. lruOrder \in Seq(Lru!Nodes) /\ Len(lruOrder) \in Nat /\ CacheSize \in Nat /\ CacheSize > 0 /\ Len(lruOrder) <= CacheSize
  BY <1>1 DEF Lru!WellTyped, Lru!Sized, Lru!Aligned
<1>3. PICK f \in {0, 1} : f = 1 <=> Len(lruOrder) = CacheSize
  BY <1>2
<1>4. /\ kept \in Seq(Lru!Nodes) /\ Len(kept) = Len(lruOrder) - f
      /\ \A j \in 1 .. Len(kept) : j + f \in 1 .. Len(lruOrder) /\ kept[j] = lruOrder[j + f]
  <2>1. CASE f = 1
    <3>1. kept = Tail(lruOrder) /\ lruOrder # <<>>
      BY <2>1, <1>2, <1>3
    <3>2. Tail(lruOrder) \in Seq(Lru!Nodes) /\ Len(Tail(lruOrder)) = Len(lruOrder) - 1 /\ \A j \in 1 .. Len(lruOrder) - 1 : Tail(lruOrder)[j] = lruOrder[j + 1]
      BY <1>2, <3>1
    <3>. HIDE DEF kept
    <3>3. kept \in Seq(Lru!Nodes) /\ Len(kept) = Len(lruOrder) - 1 /\ \A j \in 1 .. Len(lruOrder) - 1 : kept[j] = lruOrder[j + 1]
      BY <3>1, <3>2
    <3>4. \A j \in 1 .. Len(lruOrder) - 1 : j + 1 \in 1 .. Len(lruOrder)
      BY <1>2
    <3>. QED BY <3>3, <3>4, <2>1
  <2>2. CASE f = 0
    BY <2>2, <1>2, <1>3
  <2>. QED BY <2>1, <2>2
<1>5. Len(kept) < CacheSize
  BY <1>2, <1>3, <1>4
<1>. DEFINE n == CHOOSE m \in Lru!Nodes : m \notin Lru!ToSet(kept)
<1>6. n \in Lru!Nodes /\ n \notin Lru!ToSet(kept)
  BY <1>4, <1>5, LruSomeNodeFree
<1>7. /\ lruOrder' = Append(kept, n)
      /\ lruItem' = [lruItem EXCEPT ![n] = [key |-> k, value |-> v]]
      /\ lruMap' = [left EXCEPT ![k] = n]
      /\ lruRecent' = Lru!ToBack(lruRecent, k) /\ lruNewest' = [lruNewest EXCEPT ![k] = v]
  BY DEF Lru!put
<1>. HIDE DEF n, kept
<1>8. \A j \in 1 .. Len(kept) : kept[j] # n
  BY <1>4, <1>6 DEF Lru!ToSet
<1>9. /\ lruOrder' \in Seq(Lru!Nodes) /\ Len(lruOrder') = Len(lruOrder) - f + 1
      /\ \A j \in 1 .. Len(lruOrder) - f : lruOrder'[j] = lruOrder[j + f] /\ lruOrder[j + f] # n /\ j + f \in 1 .. Len(lruOrder)
      /\ lruOrder'[Len(lruOrder) - f + 1] = n
  BY <1>2, <1>4, <1>6, <1>7, <1>8
<1>10. Lru!OneToOne(lruOrder')
  <2>. SUFFICES ASSUME NEW j \in 1 .. Len(lruOrder'), NEW i \in 1 .. Len(lruOrder'), lruOrder'[j] = lruOrder'[i] PROVE j = i
    BY DEF Lru!OneToOne
  <2>0. \A a \in 1 .. Len(lruOrder') : a \in 1 .. Len(lruOrder) - f \/ a = Len(lruOrder) - f + 1
    <3>1. Len(lruOrder') = Len(lruOrder) - f + 1 /\ Len(lruOrder) \in Nat
      BY <1>2, <1>9
    <3>. QED BY ONLY <3>1, f \in {0, 1}
  <2>1. CASE j = Len(lruOrder) - f + 1
    BY <2>0, <2>1, <1>9
  <2>2. CASE i = Len(lruOrder) - f + 1
    BY <2>0, <2>2, <1>9
  <2>3. CASE j # Len(lruOrder) - f + 1 /\ i # Len(lruOrder) - f + 1
    <3>1. j \in 1 .. Len(lruOrder) - f /\ i \in 1 .. Len(lruOrder) - f
      BY <2>0, <2>3
    <3>2. lruOrder[j + f] = lruOrder[i + f] /\ j + f \in 1 .. Len(lruOrder) /\ i + f \in 1 .. Len(lruOrder)
      BY <3>1, <1>9
    <3>3. Lru!OneToOne(lruOrder)
      BY <1>1
    <3>4. j + f = i + f
      BY ONLY <3>2, <3>3 DEF Lru!OneToOne
    <3>. QED BY <3>1, <3>4, <1>2
  <2>. QED BY <2>1, <2>2, <2>3
<1>11. PICK r \in Lru!Item : r.key = k /\ r.value = v /\ lruItem' = [lruItem EXCEPT ![n] = r]
  <2>1. [key |-> k, value |-> v] \in Lru!Item
    BY DEF Lru!Item
  <2>. QED BY <2>1, <1>7
<1>12. lruItem' \in [Lru!Nodes -> Lru!Item] /\ lruItem'[n] = r /\ \A m \in Lru!Nodes : m # n => lruItem'[m] = lruItem[m]
  BY <1>1, <1>6, <1>11 DEF Lru!WellTyped
<1>13. lruNewest' \in [CacheKeys -> CacheValues \cup {NoNode}] /\ lruNewest'[k] = v /\ \A x \in CacheKeys : x # k => lruNewest'[x] = lruNewest[x]
  BY <1>1, <1>7 DEF Lru!WellTyped
<1>14. /\ lruRecent' \in Seq(CacheKeys) /\ Lru!OneToOne(lruRecent') /\ Len(lruRecent') >= 1
       /\ lruRecent'[Len(lruRecent')] = k
       /\ Len(lruOrder) - f + 1 <= Len(lruRecent')
       /\ Len(lruOrder) - f + 1 < CacheSize => Len(lruOrder) - f + 1 = Len(lruRecent')
       /\ \A j \in 1 .. Len(lruOrder) - f :
            lruRecent'[Len(lruRecent') - (Len(lruOrder) - f + 1) + j] = lruRecent[Len(lruRecent) - Len(lruOrder) + (j + f)]
  BY <1>3, <1>7, LruRecentAfter
<1>15. \A i \in 1 .. Len(lruOrder) : /\ lruOrder[i] \in Lru!Nodes /\ lruItem[lruOrder[i]].key \in CacheKeys /\ lruItem[lruOrder[i]].key # k
                                     /\ lruItem[lruOrder[i]].key = lruRecent[Len(lruRecent) - Len(lruOrder) + i]
                                     /\ lruItem[lruOrder[i]].value = lruNewest[lruItem[lruOrder[i]].key]
                                     /\ lruMap[lruItem[lruOrder[i]].key] = lruOrder[i]
  <2>. SUFFICES ASSUME NEW i \in 1 .. Len(lruOrder)
                PROVE  /\ lruOrder[i] \in Lru!Nodes /\ lruItem[lruOrder[i]].key \in CacheKeys /\ lruItem[lruOrder[i]].key # k
                       /\ lruItem[lruOrder[i]].key = lruRecent[Len(lruRecent) - Len(lruOrder) + i]
                       /\ lruItem[lruOrder[i]].value = lruNewest[lruItem[lruOrder[i]].key]
                       /\ lruMap[lruItem[lruOrder[i]].key] = lruOrder[i]
    OBVIOUS
  <2>1. /\ lruItem[lruOrder[i]].key = lruRecent[Len(lruRecent) - Len(lruOrder) + i]
        /\ lruItem[lruOrder[i]].value = lruNewest[lruItem[lruOrder[i]].key]
        /\ lruMap[lruItem[lruOrder[i]].key] = lruOrder[i]
    BY <1>1 DEF Lru!Aligned
  <2>2. lruOrder[i] \in Lru!Nodes
    BY <1>2
  <2>3. Len(lruRecent) - Len(lruOrder) + i \in 1 .. Len(lruRecent) /\ lruRecent \in Seq(CacheKeys)
    BY <1>1, <1>2 DEF Lru!Aligned, Lru!WellTyped
  <2>4. lruItem[lruOrder[i]].key \in CacheKeys
    BY <2>1, <2>3
  <2>5. lruItem[lruOrder[i]].key # k
    BY <2>1, <2>2 DEF Lru!Sized
  <2>. QED BY <2>1, <2>2, <2>4, <2>5
<1>16. \A i, j \in 1 .. Len(lruOrder) : lruItem[lruOrder[i]].key = lruItem[lruOrder[j]].key => i = j
  BY <1>1, <1>15 DEF Lru!OneToOne
<1>17. /\ lruMap' \in [CacheKeys -> Lru!Nodes \cup {NoNode}] /\ lruMap'[k] = n
       /\ f = 0 => \A x \in CacheKeys : x # k => lruMap'[x] = lruMap[x]
       /\ f = 1 => \A x \in CacheKeys : x # k => lruMap'[x] = IF x = lruItem[lruOrder[1]].key THEN NoNode ELSE lruMap[x]
  <2>1. CASE f = 0
    <3>1. left = lruMap
      BY <2>1, <1>3
    <3>. HIDE DEF left
    <3>2. lruMap' = [lruMap EXCEPT ![k] = n] /\ lruMap \in [CacheKeys -> Lru!Nodes \cup {NoNode}]
      BY <3>1, <1>1, <1>7 DEF Lru!WellTyped
    <3>3. /\ lruMap' \in [CacheKeys -> Lru!Nodes \cup {NoNode}] /\ lruMap'[k] = n
          /\ \A x \in CacheKeys : x # k => lruMap'[x] = lruMap[x]
      BY <3>2, <1>6
    <3>. QED BY <3>3, <2>1
  <2>2. CASE f = 1
    <3>1. lruOrder # <<>> /\ Head(lruOrder) = lruOrder[1] /\ 1 \in 1 .. Len(lruOrder)
      BY <2>2, <1>2, <1>3
    <3>2. PICK e \in CacheKeys : e = lruItem[lruOrder[1]].key
      BY <3>1, <1>15
    <3>3. left = [lruMap EXCEPT ![e] = NoNode]
      BY <2>2, <1>3, <3>1, <3>2
    <3>4. left \in [CacheKeys -> Lru!Nodes \cup {NoNode}] /\ \A x \in CacheKeys : left[x] = IF x = e THEN NoNode ELSE lruMap[x]
      BY <3>3, <1>1 DEF Lru!WellTyped
    <3>. HIDE DEF left
    <3>5. /\ lruMap' \in [CacheKeys -> Lru!Nodes \cup {NoNode}] /\ lruMap'[k] = n
          /\ \A x \in CacheKeys : x # k => lruMap'[x] = left[x]
      BY <3>4, <1>6, <1>7
    <3>. QED BY <3>2, <3>4, <3>5, <2>2
  <2>. QED BY <2>1, <2>2
<1>18. Lru!WellTyped'
  BY <1>9, <1>12, <1>13, <1>14, <1>17 DEF Lru!WellTyped
<1>19. ASSUME NEW j \in 1 .. Len(lruOrder')
       PROVE  /\ lruItem'[lruOrder'[j]].key = lruRecent'[Len(lruRecent') - Len(lruOrder') + j]
              /\ lruItem'[lruOrder'[j]].value = lruNewest'[lruItem'[lruOrder'[j]].key]
              /\ lruMap'[lruItem'[lruOrder'[j]].key] = lruOrder'[j]
  <2>1. CASE j = Len(lruOrder) - f + 1
    <3>1. Len(lruRecent') - Len(lruOrder') + j = Len(lruRecent')
      BY <2>1, <1>2, <1>9, <1>14
    <3>. QED BY <3>1, <2>1, <1>9, <1>11, <1>12, <1>13, <1>14, <1>17
  <2>2. CASE j # Len(lruOrder) - f + 1
    <3>1. j \in 1 .. Len(lruOrder) - f
      BY <2>2, <1>2, <1>9
    <3>2. PICK i \in 1 .. Len(lruOrder) : i = j + f
      BY <3>1, <1>9
    <3>3. lruOrder'[j] = lruOrder[i] /\ lruOrder[i] # n
      BY <3>1, <3>2, <1>9
    <3>4. lruItem'[lruOrder'[j]] = lruItem[lruOrder[i]]
      BY <3>3, <1>12, <1>15
    <3>5. lruRecent'[Len(lruRecent') - Len(lruOrder') + j] = lruRecent[Len(lruRecent) - Len(lruOrder) + i]
      BY <3>1, <3>2, <1>9, <1>14
    <3>6. PICK x \in CacheKeys : x = lruItem[lruOrder[i]].key /\ x # k
      BY <1>15
    <3>7. lruNewest'[x] = lruNewest[x]
      BY <3>6, <1>13
    <3>8. lruMap'[x] = lruMap[x]
      <4>1. CASE f = 0
        BY <4>1, <3>6, <1>17
      <4>2. CASE f = 1
        <5>1. i # 1 /\ 1 \in 1 .. Len(lruOrder)
          BY <4>2, <3>1, <3>2
        <5>2. x # lruItem[lruOrder[1]].key
          BY <5>1, <3>6, <1>16
        <5>. QED BY <5>2, <4>2, <3>6, <1>17
      <4>. QED BY <4>1, <4>2
    <3>. QED BY <3>3, <3>4, <3>5, <3>6, <3>7, <3>8, <1>15
  <2>. QED BY <2>1, <2>2
<1>20. Lru!Aligned'
  BY <1>2, <1>3, <1>9, <1>14, <1>19 DEF Lru!Aligned
<1>21. ASSUME NEW x \in CacheKeys, lruMap'[x] # NoNode
       PROVE  \E j \in 1 .. Len(lruOrder') : lruOrder'[j] = lruMap'[x] /\ lruItem'[lruOrder'[j]].key = x
  <2>1. CASE x = k
    <3>1. Len(lruOrder') \in 1 .. Len(lruOrder') /\ lruOrder'[Len(lruOrder')] = n
      BY <1>2, <1>3, <1>9
    <3>. QED BY <3>1, <2>1, <1>11, <1>12, <1>17
  <2>2. CASE x # k
    <3>1. lruMap'[x] = lruMap[x]
      BY <2>2, <1>17, <1>21
    <3>2. PICK i \in 1 .. Len(lruOrder) : lruOrder[i] = lruMap[x] /\ lruItem[lruOrder[i]].key = x
      BY <3>1, <1>1, <1>21 DEF Lru!Mapped
    <3>3. f = 1 => i # 1
      BY <3>2, <2>2, <1>17, <1>21
    <3>4. i - f \in 1 .. Len(lruOrder) - f /\ (i - f) + f = i
      BY <3>3, <1>2
    <3>5. lruOrder'[i - f] = lruOrder[i] /\ lruOrder[i] # n /\ i - f \in 1 .. Len(lruOrder')
      BY <3>4, <1>2, <1>9
    <3>6. lruItem'[lruOrder[i]] = lruItem[lruOrder[i]]
      BY <3>5, <1>12, <1>15
    <3>. QED BY <3>1, <3>2, <3>5, <3>6
  <2>. QED BY <2>1, <2>2
<1>. QED BY <1>10, <1>14, <1>18, <1>20, <1>21 DEF Lru!IInv, Lru!Mapped

(* Every step keeps the invariant.                                         *)
LEMMA LruInductive == Lru!Sized /\ Lru!IInv /\ [Lru!Next]_Lru!vars => Lru!IInv'
<1>. SUFFICES ASSUME Lru!Sized, Lru!IInv, [Lru!Next]_Lru!vars PROVE Lru!IInv'
  OBVIOUS
<1>0. Lru!WellTyped /\ Lru!Mapped
  BY DEF Lru!IInv
<1>1. CASE UNCHANGED Lru!vars
  BY <1>1 DEF Lru!vars, Lru!IInv, Lru!WellTyped, Lru!OneToOne, Lru!Aligned, Lru!Mapped
<1>2. ASSUME NEW k \in CacheKeys, Lru!get(k) PROVE Lru!IInv'
  <2>1. /\ lruMap[k] # NoNode /\ lruOrder' = Lru!ToBack(lruOrder, lruMap[k]) /\ lruRecent' = Lru!ToBack(lruRecent, k)
        /\ lruItem' = lruItem /\ lruMap' = lruMap /\ lruNewest' = lruNewest
    BY <1>2 DEF Lru!get
  <2>2. lruItem' \in [Lru!Nodes -> Lru!Item] /\ lruNewest' \in [CacheKeys -> CacheValues \cup {NoNode}]
    BY <2>1, <1>0 DEF Lru!WellTyped
  <2>3. \A i \in 1 .. Len(lruOrder) : lruItem'[lruOrder[i]].value = lruNewest'[lruItem[lruOrder[i]].key]
    BY <2>1 DEF Lru!IInv, Lru!Aligned
  <2>. QED BY <2>1, <2>2, <2>3, LruRefreshKeeps
<1>3. ASSUME NEW k \in CacheKeys, NEW v \in CacheValues, Lru!put(k, v), lruMap[k] # NoNode PROVE Lru!IInv'
  <2>1. /\ lruOrder' = Lru!ToBack(lruOrder, lruMap[k]) /\ lruRecent' = Lru!ToBack(lruRecent, k)
        /\ lruItem' = [lruItem EXCEPT ![lruMap[k]].value = v] /\ lruMap' = lruMap /\ lruNewest' = [lruNewest EXCEPT ![k] = v]
    BY <1>3 DEF Lru!put
  <2>2. PICK n \in Lru!Nodes : n = lruMap[k]
    BY <1>0, <1>3 DEF Lru!WellTyped
  <2>3. lruItem[n] \in Lru!Item
    BY <1>0 DEF Lru!WellTyped
  <2>4. PICK r \in Lru!Item : r = [lruItem[n] EXCEPT !.value = v] /\ r.key = lruItem[n].key /\ r.value = v
    <3>. DEFINE q == [lruItem[n] EXCEPT !.value = v]
    <3>1. PICK o \in Lru!Item : o = lruItem[n]
      BY <2>3
    <3>2. [o EXCEPT !.value = v] \in Lru!Item
      BY DEF Lru!Item
    <3>3. [o EXCEPT !.value = v].key = o.key
      BY DEF Lru!Item
    <3>4. [o EXCEPT !.value = v].value = v
      BY DEF Lru!Item
    <3>. QED BY <3>1, <3>2, <3>3, <3>4
  <2>5. lruItem' = [lruItem EXCEPT ![n] = r]
    BY <2>1, <2>2, <2>4
  <2>6. lruItem' \in [Lru!Nodes -> Lru!Item] /\ lruItem'[n] = r /\ \A m \in Lru!Nodes : m # n => lruItem'[m] = lruItem[m]
    BY <2>5, <1>0 DEF Lru!WellTyped
  <2>7. lruNewest' \in [CacheKeys -> CacheValues \cup {NoNode}] /\ lruNewest'[k] = v /\ \A x \in CacheKeys : x # k => lruNewest'[x] = lruNewest[x]
    BY <2>1, <1>0 DEF Lru!WellTyped
  <2>8. \A m \in Lru!Nodes : lruItem'[m].key = lruItem[m].key
    BY <2>4, <2>6
  <2>9. ASSUME NEW i \in 1 .. Len(lruOrder) PROVE lruItem'[lruOrder[i]].value = lruNewest'[lruItem[lruOrder[i]].key]
    <3>1. lruOrder[i] \in Lru!Nodes /\ Len(lruRecent) - Len(lruOrder) + i \in 1 .. Len(lruRecent) /\ lruRecent \in Seq(CacheKeys)
      BY <1>0 DEF Lru!WellTyped, Lru!IInv, Lru!Aligned
    <3>2. /\ lruItem[lruOrder[i]].key = lruRecent[Len(lruRecent) - Len(lruOrder) + i]
          /\ lruItem[lruOrder[i]].value = lruNewest[lruItem[lruOrder[i]].key]
          /\ lruMap[lruItem[lruOrder[i]].key] = lruOrder[i]
      BY DEF Lru!IInv, Lru!Aligned
    <3>3. PICK x \in CacheKeys : x = lruItem[lruOrder[i]].key
      BY <3>1, <3>2
    <3>4. CASE x = k
      <4>1. lruMap[k] = lruOrder[i]
        BY ONLY <3>4, <3>2, <3>3
      <4>. QED BY <3>4, <3>3, <4>1, <2>2, <2>4, <2>6, <2>7
    <3>5. CASE x # k
      <4>1. lruOrder[i] # n
        <5>1. PICK j \in 1 .. Len(lruOrder) : lruOrder[j] = n /\ lruItem[lruOrder[j]].key = k
          BY <1>0, <1>3, <2>2 DEF Lru!Mapped
        <5>. QED BY <5>1, <3>3, <3>5
      <4>. QED BY <4>1, <3>1, <3>2, <3>3, <3>5, <2>6, <2>7
    <3>. QED BY <3>4, <3>5
  <2>. QED BY <1>3, <2>1, <2>6, <2>7, <2>8, <2>9, LruRefreshKeeps
<1>. QED BY <1>1, <1>2, <1>3, LruPutNewKeeps DEF Lru!Next
=============================================================================
