------------------------------- MODULE McsLock -------------------------------
(***************************************************************************)
(* The MCS queue lock of exercises/concurrency/11_mcs_lock: the reference  *)
(* lock() and unlock() of SOLUTION.md, one action per atomic operation.    *)
(* Every thread owns one Waiter node and reuses it on every round, so a    *)
(* thread stands for its node too; Null is nullptr.                        *)
(*                                                                         *)
(* WeakCasFails says whether compare_exchange_weak may fail although the   *)
(* comparison holds: the C++ standard allows it, LL/SC machines do it, and *)
(* on x86 it never happens.                                                *)
(***************************************************************************)


CONSTANTS Threads, Null, WeakCasFails

ASSUME ThreadsAssumption == Null \notin Threads
ASSUME WeakCasAssumption == WeakCasFails \in BOOLEAN

VARIABLES
  tail_,      \* last queued Waiter, or Null
  next_,      \* next_[t]: the Waiter that linked itself behind t's
  locked_,    \* locked_[t]: the flag that t spins on
  prev,       \* prev[t]: what lock() got from the exchange (a local)
  pc,         \* the next atomic operation of each thread
  ahead       \* history: the threads that exchanged before t and still hold
              \* a place; read by no action, it states the FIFO contract

vars == <<tail_, next_, locked_, prev, pc, ahead>>

Locations ==
  {"idle", "exchange", "link", "spin", "cs", "cas", "await", "handoff"}

\* The threads between their exchange in lock() and the end of unlock().
Queued == {t \in Threads : pc[t] \notin {"idle", "exchange"}}

Goto(t, l) == pc' = [pc EXCEPT ![t] = l]

\* t gives up its place: the history variable's part of a return of unlock().
Depart(t) == ahead' = [u \in Threads |-> ahead[u] \ {t}]

Init ==
  /\ tail_ = Null
  /\ next_ = [t \in Threads |-> Null]
  /\ locked_ = [t \in Threads |-> TRUE]
  /\ prev = [t \in Threads |-> Null]
  /\ pc = [t \in Threads |-> "idle"]
  /\ ahead = [t \in Threads |-> {}]

-----------------------------------------------------------------------------
(* lock(w) *)

\* Mutant: the flag of the last round stays cleared.
ArmKeepsFlag(t) ==
  /\ pc[t] = "idle"
  /\ next_' = [next_ EXCEPT ![t] = Null]
  /\ Goto(t, "exchange")
  /\ UNCHANGED <<tail_, locked_, prev, ahead>>

\* Mutant: the successor of the last round stays linked.
ArmKeepsLink(t) ==
  /\ pc[t] = "idle"
  /\ locked_' = [locked_ EXCEPT ![t] = TRUE]
  /\ Goto(t, "exchange")
  /\ UNCHANGED <<tail_, next_, prev, ahead>>

\* w.next_ and w.locked_ are reset while the node is still private.
Arm(t) ==
  /\ pc[t] = "idle"
  /\ next_' = [next_ EXCEPT ![t] = Null]
  /\ locked_' = [locked_ EXCEPT ![t] = TRUE]
  /\ Goto(t, "exchange")
  /\ UNCHANGED <<tail_, prev, ahead>>

\* prev = tail_.exchange(&w); a null prev is an immediate acquisition.
Exchange(t) ==
  /\ pc[t] = "exchange"
  /\ prev' = [prev EXCEPT ![t] = tail_]
  /\ tail_' = t
  /\ ahead' = [ahead EXCEPT ![t] = Queued]
  /\ Goto(t, IF tail_ = Null THEN "cs" ELSE "link")
  /\ UNCHANGED <<next_, locked_>>

\* Mutant: the predecessor is never told.
LinkForgets(t) ==
  /\ pc[t] = "link"
  /\ Goto(t, "spin")
  /\ UNCHANGED <<tail_, next_, locked_, prev, ahead>>

\* prev->next_.store(&w)
Link(t) ==
  /\ pc[t] = "link"
  /\ next_' = [next_ EXCEPT ![prev[t]] = t]
  /\ Goto(t, "spin")
  /\ UNCHANGED <<tail_, locked_, prev, ahead>>

\* Mutant: the flag is not waited for.
SpinNot(t) ==
  /\ pc[t] = "spin"
  /\ Goto(t, "cs")
  /\ UNCHANGED <<tail_, next_, locked_, prev, ahead>>

\* while (w.locked_) yield(): the step that leaves the loop.
Spin(t) ==
  /\ pc[t] = "spin"
  /\ ~locked_[t]
  /\ Goto(t, "cs")
  /\ UNCHANGED <<tail_, next_, locked_, prev, ahead>>

-----------------------------------------------------------------------------
(* unlock(w) *)

\* The critical section ends: if (w.next_ == nullptr)
CheckNext(t) ==
  /\ pc[t] = "cs"
  /\ Goto(t, IF next_[t] = Null THEN "cas" ELSE "handoff")
  /\ UNCHANGED <<tail_, next_, locked_, prev, ahead>>

\* tail_.compare_exchange_weak(&w, nullptr) succeeds: the queue is empty.
CasEmpties(t) ==
  /\ pc[t] = "cas"
  /\ tail_ = t
  /\ tail_' = Null
  /\ Depart(t)
  /\ Goto(t, "idle")
  /\ UNCHANGED <<next_, locked_, prev>>

\* Mutant: a lost CAS returns without waiting for the successor's link.
CasFailsReturns(t) ==
  /\ pc[t] = "cas"
  /\ tail_ # t
  /\ Depart(t)
  /\ Goto(t, "idle")
  /\ UNCHANGED <<tail_, next_, locked_, prev>>

\* It fails: somebody else is the tail, or spuriously.
CasFails(t) ==
  /\ pc[t] = "cas"
  /\ tail_ # t \/ WeakCasFails
  /\ Goto(t, "await")
  /\ UNCHANGED <<tail_, next_, locked_, prev, ahead>>

\* while (w.next_ == nullptr) yield(): the step that leaves the loop.
AwaitNext(t) ==
  /\ pc[t] = "await"
  /\ next_[t] # Null
  /\ Goto(t, "handoff")
  /\ UNCHANGED <<tail_, next_, locked_, prev, ahead>>

\* w.next_->locked_.store(false)
HandOff(t) ==
  /\ pc[t] = "handoff"
  /\ locked_' = [locked_ EXCEPT ![next_[t]] = FALSE]
  /\ Depart(t)
  /\ Goto(t, "idle")
  /\ UNCHANGED <<tail_, next_, prev>>

-----------------------------------------------------------------------------
\* What a thread does once it is inside lock() or unlock().
Step(t) ==
  \/ Exchange(t) \/ Link(t) \/ Spin(t)
  \/ CheckNext(t) \/ CasEmpties(t) \/ CasFails(t) \/ AwaitNext(t) \/ HandOff(t)

Next == \E t \in Threads : Arm(t) \/ Step(t)

Spec == Init /\ [][Next]_vars

\* The scheduler runs every thread and critical sections end; whether a
\* thread asks for the lock again is its own business (no fairness on Arm).
Fairness == \A t \in Threads : WF_vars(Step(t))
FairSpec == Spec /\ Fairness

-----------------------------------------------------------------------------
(* Types of the lock's and the nodes' fields.                              *)
TypeOK ==
  /\ tail_ \in Threads \cup {Null}
  /\ next_ \in [Threads -> Threads \cup {Null}]
  /\ locked_ \in [Threads -> BOOLEAN]
  /\ prev \in [Threads -> Threads \cup {Null}]
  /\ pc \in [Threads -> Locations]
  /\ ahead \in [Threads -> SUBSET Threads]

\* The threads that own the lock: in the critical section or in unlock().
Holding == {t \in Threads : pc[t] \in {"cs", "cas", "await", "handoff"}}

(* The inductive invariant: what makes the properties below hold.          *)

\* ahead orders the queued threads linearly.
QueueOrder ==
  /\ \A t \in Threads : ahead[t] \subseteq Queued \ {t}
  /\ \A t \in Threads : t \notin Queued => ahead[t] = {}
  /\ \A t, u \in Queued : t # u => t \in ahead[u] \/ u \in ahead[t]
  /\ \A t, u \in Queued : t \in ahead[u] => ahead[t] \subseteq ahead[u] \ {u}

\* tail_ is the last of them.
TailIsLast ==
  /\ tail_ = Null => Queued = {}
  /\ tail_ # Null => tail_ \in Queued /\ Queued \subseteq ahead[tail_] \cup {tail_}

\* A link that exists, or that lock() is about to write, joins neighbours.
LinksNeighbours ==
  /\ \A t \in Queued : next_[t] # Null =>
       /\ pc[next_[t]] = "spin"
       /\ ahead[next_[t]] = ahead[t] \cup {t}
  /\ \A t \in Threads : pc[t] = "link" =>
       /\ prev[t] \in Queued
       /\ next_[prev[t]] = Null
       /\ ahead[t] = ahead[prev[t]] \cup {prev[t]}

\* Nobody owns the lock, or has been handed it, behind somebody else.
OwnerIsFirst ==
  /\ \A t \in Holding : ahead[t] = {}
  /\ \A t \in Threads : pc[t] = "spin" /\ ~locked_[t] => ahead[t] = {}

\* A node is armed before it is published; a hand-off has a successor.
NodeReady ==
  /\ \A t \in Threads : pc[t] = "exchange" => next_[t] = Null
  /\ \A t \in Threads : pc[t] \in {"exchange", "link"} => locked_[t]
  /\ \A t \in Threads : pc[t] = "handoff" => next_[t] # Null

(* Tail, links, flags and owner describe one and the same queue.           *)
IInv == /\ TypeOK
        /\ QueueOrder
        /\ TailIsLast
        /\ LinksNeighbours
        /\ OwnerIsFirst
        /\ NodeReady

-----------------------------------------------------------------------------
(* lock() never returns to two threads at once, from the exchange of the   *)
(* one until the last store of unlock() of the other.                      *)
MutualExclusion == \A t, u \in Holding : t = u

(* When unlock() has returned, nobody refers to the node any more: it is   *)
(* not the tail, no predecessor is about to clear its flag and no          *)
(* successor is about to write its next_.  This is what makes reusing or   *)
(* destroying a Waiter after unlock() safe.                                *)
NodeReusable ==
  \A t \in Threads : pc[t] = "idle" =>
    /\ tail_ # t
    /\ \A u \in Queued : next_[u] # t
    /\ \A u \in Threads : pc[u] = "link" => prev[u] # t

(* The lock implements the abstract FIFO lock: threads enter in the order  *)
(* of their exchanges on tail_.                                            *)
Phase(t) == IF t \in Holding THEN "in"
            ELSE IF t \in Queued THEN "line" ELSE "out"

Fifo == INSTANCE FifoLock WITH phase <- [t \in Threads |-> Phase(t)]

FifoHandOff == Fifo!FSpec

(* No starvation: a thread that calls lock() gets the lock.                *)
LockAcquires == \A t \in Threads : pc[t] = "exchange" ~> pc[t] = "cs"

(* unlock() returns, whoever else comes or stays away.                     *)
UnlockReturns == \A t \in Threads : pc[t] = "cas" ~> pc[t] = "idle"
=============================================================================
