--------------------------- MODULE SpscRingBuffer ---------------------------
(***************************************************************************)
(* SpscRingBuffer of exercises/concurrency/03_ring_buffer_spsc: one        *)
(* producer, one consumer, one action per access to shared memory.  head_  *)
(* and tail_ are monotone counters (uint64_t, which do not wrap in the     *)
(* life of a program); the slot of a counter value is its remainder by N,  *)
(* which `& (N - 1)` computes for a power of two.                          *)
(***************************************************************************)
EXTENDS Integers, Sequences

CONSTANTS
  N,            \* the size of buffer_
  Values, NoValue,
  MaxPush       \* bound: how many values are ever pushed

ASSUME SizeAssumption == N \in Nat \ {0}
ASSUME ValuesAssumption == NoValue \notin Values
ASSUME MaxPushAssumption == MaxPush \in Nat

kCapacity == N - 1

Index(i) == i % N

VARIABLES
  head_, tail_, buffer_,
  ppc, item,      \* the producer: where it is, the value it pushes
  cpc, out,       \* the consumer: where it is, the value it has read
  delivered,      \* the value that try_pop() returned last
  peek            \* an observer's two loads, one slot per thread

vars == <<head_, tail_, buffer_, ppc, item, cpc, out, delivered, peek>>

NoPeek == [head |-> -1, tail |-> -1]

Init ==
  /\ head_ = 0
  /\ tail_ = 0
  /\ buffer_ = [i \in 0 .. N - 1 |-> NoValue]
  /\ ppc = "idle" /\ item = NoValue
  /\ cpc = "idle" /\ out = NoValue
  /\ delivered = NoValue
  /\ peek = [r \in {"producer", "consumer"} |-> NoPeek]

-----------------------------------------------------------------------------
(* try_push(): only the producer writes tail_, so its own load of it is    *)
(* always current.                                                         *)

PushCall(v) ==
  /\ ppc = "idle" /\ peek["producer"] = NoPeek
  /\ tail_ < MaxPush
  /\ item' = v
  /\ ppc' = "head"
  /\ UNCHANGED <<head_, tail_, buffer_, cpc, out, delivered, peek>>

\* Mutant: the check is made against N, and off by one.
PushLoadHeadFull ==
  /\ ppc = "head"
  /\ ppc' = IF tail_ - head_ > N THEN "idle" ELSE "write"
  /\ UNCHANGED <<head_, tail_, buffer_, item, cpc, out, delivered, peek>>

\* h = head_.load(); full: return false.
PushLoadHead ==
  /\ ppc = "head"
  /\ ppc' = IF tail_ - head_ >= kCapacity THEN "idle" ELSE "write"
  /\ UNCHANGED <<head_, tail_, buffer_, item, cpc, out, delivered, peek>>

PushWrite ==
  /\ ppc = "write"
  /\ buffer_' = [buffer_ EXCEPT ![Index(tail_)] = item]
  /\ ppc' = "publish"
  /\ UNCHANGED <<head_, tail_, item, cpc, out, delivered, peek>>

PushPublish ==
  /\ ppc = "publish"
  /\ tail_' = tail_ + 1
  /\ ppc' = "idle"
  /\ UNCHANGED <<head_, buffer_, item, cpc, out, delivered, peek>>

-----------------------------------------------------------------------------
(* try_pop(): only the consumer writes head_. *)

\* Mutant: the empty test is left out.
PopLoadTailUnchecked ==
  /\ cpc = "idle" /\ peek["consumer"] = NoPeek
  /\ cpc' = "read"
  /\ UNCHANGED <<head_, tail_, buffer_, ppc, item, out, delivered, peek>>

\* t = tail_.load(); empty: return false.
PopLoadTail ==
  /\ cpc = "idle" /\ peek["consumer"] = NoPeek
  /\ cpc' = IF head_ = tail_ THEN "idle" ELSE "read"
  /\ UNCHANGED <<head_, tail_, buffer_, ppc, item, out, delivered, peek>>

PopRead ==
  /\ cpc = "read"
  /\ out' = buffer_[Index(head_)]
  /\ cpc' = "retire"
  /\ UNCHANGED <<head_, tail_, buffer_, ppc, item, delivered, peek>>

PopRetire ==
  /\ cpc = "retire"
  /\ head_' = head_ + 1
  /\ delivered' = out
  /\ cpc' = "idle"
  /\ UNCHANGED <<tail_, buffer_, ppc, item, out, peek>>

-----------------------------------------------------------------------------
(* size(), and empty() and full() that compare the same two loads: called  *)
(* by the producer or the consumer between two operations.  C++ leaves the *)
(* order of the loads open.                                                *)

Idle(r) == IF r = "producer" THEN ppc = "idle" ELSE cpc = "idle"

PeekHead(r) ==
  /\ Idle(r) /\ peek[r].head = -1
  /\ peek' = [peek EXCEPT ![r].head = head_]
  /\ UNCHANGED <<head_, tail_, buffer_, ppc, item, cpc, out, delivered>>

PeekTail(r) ==
  /\ Idle(r) /\ peek[r].tail = -1
  /\ peek' = [peek EXCEPT ![r].tail = tail_]
  /\ UNCHANGED <<head_, tail_, buffer_, ppc, item, cpc, out, delivered>>

PeekDone(r) ==
  /\ peek[r].head # -1 /\ peek[r].tail # -1
  /\ peek' = [peek EXCEPT ![r] = NoPeek]
  /\ UNCHANGED <<head_, tail_, buffer_, ppc, item, cpc, out, delivered>>

-----------------------------------------------------------------------------
PushStep == PushLoadHead \/ PushWrite \/ PushPublish
PopStep == PopLoadTail \/ PopRead \/ PopRetire

Next ==
  \/ (\E v \in Values : PushCall(v)) \/ PushStep
  \/ PopStep
  \/ \E r \in {"producer", "consumer"} : PeekHead(r) \/ PeekTail(r) \/ PeekDone(r)

Spec == Init /\ [][Next]_vars

-----------------------------------------------------------------------------
TypeOK ==
  /\ head_ \in Nat /\ tail_ \in Nat
  /\ buffer_ \in [0 .. N - 1 -> Values \cup {NoValue}]
  /\ ppc \in {"idle", "head", "write", "publish"}
  /\ item \in Values \cup {NoValue}
  /\ cpc \in {"idle", "read", "retire"}
  /\ out \in Values \cup {NoValue}
  /\ delivered \in Values \cup {NoValue}
  /\ peek \in [{"producer", "consumer"} ->
                 [head : Nat \cup {-1}, tail : Nat \cup {-1}]]

(* The inductive invariant of the refinement proof.                        *)

\* Counters: a thread past its check has room, or something to read.
Window ==
  /\ head_ <= tail_ /\ tail_ - head_ <= kCapacity
  /\ ppc \in {"write", "publish"} => tail_ - head_ < kCapacity
  /\ cpc \in {"read", "retire"} => head_ < tail_

\* Contents: what is about to be published or returned is in its slot.
Payload ==
  /\ ppc # "idle" => item \in Values
  /\ ppc = "publish" => buffer_[Index(tail_)] = item
  /\ cpc = "retire" => out = buffer_[Index(head_)]

\* An observer's own counter stands still between its loads.
Peeks ==
  LET p == peek["producer"]  c == peek["consumer"] IN
  /\ p # NoPeek => ppc = "idle"
  /\ p.tail # -1 => p.tail = tail_
  /\ p.head # -1 => p.head <= head_ /\ tail_ - p.head <= kCapacity
  /\ c # NoPeek => cpc = "idle"
  /\ c.head # -1 => c.head = head_
  /\ c.tail # -1 => head_ <= c.tail /\ c.tail <= tail_

IInv == TypeOK /\ Window /\ Payload /\ Peeks

(* The ring implements a FIFO of at most N - 1 values: the queue is what   *)
(* lies in the slots from head_ to tail_, a push takes effect when tail_   *)
(* is stored, a pop when head_ is, and the value popped is the oldest.     *)
Contents == [i \in 1 .. tail_ - head_ |-> buffer_[Index(head_ + i - 1)]]

Fifo == INSTANCE BoundedFifo WITH q <- Contents, Limit <- kCapacity

ImplementsFifo == Fifo!QSpec

(* Producer and consumer never touch one slot at a time, so that the plain *)
(* accesses to buffer_ do not race.                                        *)
SlotsDisjoint ==
  ppc = "write" /\ cpc = "read" => Index(tail_) # Index(head_)

(* size() called by either thread is between 0 and the capacity, though    *)
(* its two loads are not atomic and the subtraction is unsigned.           *)
SizeInRange ==
  \A r \in {"producer", "consumer"} :
    peek[r].head # -1 /\ peek[r].tail # -1
      => peek[r].tail - peek[r].head \in 0 .. kCapacity
=============================================================================
