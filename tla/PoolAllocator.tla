--------------------------- MODULE PoolAllocator ----------------------------
(***************************************************************************)
(* The fixed-slot pool of memory/02_pool_allocator: the free list is       *)
(* threaded through the slots, and an object written over its slot's link. *)
(***************************************************************************)
EXTENDS Naturals

CONSTANTS
  capacity_,
  kSentinel, Overwritten  \* the end of the list; a link under an object

Slots == 0 .. capacity_ - 1

VARIABLES
  head_, link,
  live,                   \* the objects the callers hold
  destroyed               \* what ~PoolAllocator() has destroyed

vars == <<head_, link, live, destroyed>>

Init ==
  /\ head_ = 0
  /\ link = [i \in Slots |-> IF i + 1 < capacity_ THEN i + 1 ELSE kSentinel]
  /\ live = {} /\ destroyed = {}

allocate ==
  /\ head_ # kSentinel
  /\ head_' = link[head_]
  /\ link' = [link EXCEPT ![head_] = Overwritten]
  /\ live' = live \cup {head_}
  /\ UNCHANGED destroyed

\* Mutant: the head moves before the slot is linked to the old one.
DeallocateSwapped(i) ==
  /\ i \in live
  /\ head_' = i
  /\ link' = [link EXCEPT ![i] = i]
  /\ live' = live \ {i}
  /\ UNCHANGED destroyed

deallocate(i) ==
  /\ i \in live
  /\ link' = [link EXCEPT ![i] = head_]
  /\ head_' = i
  /\ live' = live \ {i}
  /\ UNCHANGED destroyed

\* The slots on the free list: what n links from the head lead to.
walk[n \in 0 .. capacity_] ==
  IF n = 0 THEN head_
  ELSE IF walk[n - 1] \in Slots THEN link[walk[n - 1]] ELSE walk[n - 1]

Marked == {walk[n] : n \in 0 .. capacity_} \ {kSentinel}

\* ~PoolAllocator(), and a new pool.
Destroy ==
  /\ destroyed' = Slots \ Marked
  /\ head_' = 0
  /\ link' = [i \in Slots |-> IF i + 1 < capacity_ THEN i + 1 ELSE kSentinel]
  /\ live' = {}

Next ==
  \/ allocate
  \/ \E i \in Slots : deallocate(i)
  \/ Destroy

Spec == Init /\ [][Next]_vars

-----------------------------------------------------------------------------
TypeOK ==
  /\ head_ \in Slots \cup {kSentinel}
  /\ link \in [Slots -> Slots \cup {kSentinel, Overwritten}]
  /\ live \subseteq Slots /\ destroyed \subseteq Slots

(* PoolAllocator: whatever the order of the frees, the list threaded       *)
(* through the slots holds the free slots, so none is lost or handed out   *)
(* twice, and the destructor destroys the objects that are alive and no    *)
(* other.                                                                  *)
FreeListExact == Marked = Slots \ live

\* ~PoolAllocator() destroys the objects that are alive.
DestroysLive == destroyed' # destroyed => destroyed' = live

-----------------------------------------------------------------------------
\* The end of the list is no slot.
Sized == kSentinel \notin Slots /\ capacity_ \in Nat \ {0}
=============================================================================
