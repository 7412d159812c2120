------------------------------ MODULE SharedPtr ------------------------------
(***************************************************************************)
(* SharedPtr, WeakPtr and their control block (memory/04_shared_ptr).      *)
(* Every thread has a SharedPtr and a WeakPtr of its own and may copy or   *)
(* move from another's; the threads race on the two counts of a block,     *)
(* one atomic access per step.  A handle is the block its ctrl_ points to. *)
(* Where ptr_ points plays no part, so an aliasing copy is a copy.         *)
(***************************************************************************)
EXTENDS Naturals, FiniteSets

CONSTANTS Threads, Blocks, Null

VARIABLES
  shared_,    \* of each block
  weak_,
  disposals,  \* how often the object of a block was destroyed
  block,      \* "unused", "live" or "deleted"
  sp, wp,     \* the SharedPtr and the WeakPtr of each thread
  pc, tmp,    \* the step of a thread, the block of its temporary
  cur         \* what try_add_shared() read

vars == <<shared_, weak_, disposals, block, sp, wp, pc, tmp, cur>>

Init ==
  /\ shared_ = [b \in Blocks |-> 0]
  /\ weak_ = [b \in Blocks |-> 0]
  /\ disposals = [b \in Blocks |-> 0]
  /\ block = [b \in Blocks |-> "unused"]
  /\ sp = [t \in Threads |-> Null]
  /\ wp = [t \in Threads |-> Null]
  /\ pc = [t \in Threads |-> "idle"]
  /\ tmp = [t \in Threads |-> Null]
  /\ cur = [t \in Threads |-> 0]

\* The temporary that copy-and-swap left with handle h dies: at is where
\* its destructor starts, unless it is empty.
Drop(t, h, at) ==
  /\ tmp' = [tmp EXCEPT ![t] = h]
  /\ pc' = [pc EXCEPT ![t] = IF h = Null THEN "idle" ELSE at]

Plus(count, b) == IF b = Null THEN count ELSE [count EXCEPT ![b] = @ + 1]

-----------------------------------------------------------------------------
\* SharedPtr.

\* sp = SharedPtr(new T), MakeShared() or reset(p): a block of counts 1, 1.
\* (A constructor that throws in MakeShared() has its block deleted before any
\* handle has it.)
Make(t) == \E b \in Blocks :
  /\ pc[t] = "idle" /\ block[b] = "unused"
  /\ block' = [block EXCEPT ![b] = "live"]
  /\ shared_' = [shared_ EXCEPT ![b] = 1]
  /\ weak_' = [weak_ EXCEPT ![b] = 1]
  /\ sp' = [sp EXCEPT ![t] = b]
  /\ Drop(t, sp[t], "release")
  /\ UNCHANGED <<disposals, wp, cur>>

CopyAssign(t, u) ==
  /\ pc[t] = "idle"
  /\ shared_' = Plus(shared_, sp[u])
  /\ sp' = [sp EXCEPT ![t] = sp[u]]
  /\ Drop(t, sp[t], "release")
  /\ UNCHANGED <<weak_, disposals, block, wp, cur>>

\* Steal, then swap: a self-move gets its own block back.
MoveAssign(t, u) ==
  /\ pc[t] = "idle"
  /\ LET stolen == [sp EXCEPT ![u] = Null] IN
       /\ sp' = [stolen EXCEPT ![t] = sp[u]]
       /\ Drop(t, stolen[t], "release")
  /\ UNCHANGED <<shared_, weak_, disposals, block, wp, cur>>

Swap(t, u) ==
  /\ pc[t] = "idle"
  /\ sp' = [sp EXCEPT ![t] = sp[u], ![u] = sp[t]]
  /\ UNCHANGED <<shared_, weak_, disposals, block, wp, pc, tmp, cur>>

Reset(t) ==
  /\ pc[t] = "idle"
  /\ sp' = [sp EXCEPT ![t] = Null]
  /\ Drop(t, sp[t], "release")
  /\ UNCHANGED <<shared_, weak_, disposals, block, wp, cur>>

SharedOps(t) ==
  \/ Make(t) \/ Reset(t)
  \/ \E u \in Threads : CopyAssign(t, u) \/ MoveAssign(t, u) \/ Swap(t, u)

-----------------------------------------------------------------------------
\* WeakPtr.

\* wp = h, where h is a SharedPtr or a WeakPtr.
Observe(t, h) ==
  /\ pc[t] = "idle"
  /\ weak_' = Plus(weak_, h)
  /\ wp' = [wp EXCEPT ![t] = h]
  /\ Drop(t, wp[t], "releaseWeak")
  /\ UNCHANGED <<shared_, disposals, block, sp, cur>>

\* Nobody moves from a WeakPtr while its thread is in lock().
WeakMove(t, u) ==
  /\ pc[t] = "idle" /\ pc[u] # "upgrade"
  /\ LET stolen == [wp EXCEPT ![u] = Null] IN
       /\ wp' = [stolen EXCEPT ![t] = wp[u]]
       /\ Drop(t, stolen[t], "releaseWeak")
  /\ UNCHANGED <<shared_, weak_, disposals, block, sp, cur>>

\* sp = wp.lock() of a WeakPtr that has a block: the load that starts
\* try_add_shared().
Lock(t) ==
  /\ pc[t] = "idle" /\ wp[t] # Null
  /\ cur' = [cur EXCEPT ![t] = shared_[wp[t]]]
  /\ pc' = [pc EXCEPT ![t] = "upgrade"]
  /\ UNCHANGED <<shared_, weak_, disposals, block, sp, wp, tmp>>

\* The object is gone, or the WeakPtr was empty: lock() gives nullptr.
LockFails(t) ==
  /\ \/ pc[t] = "upgrade" /\ cur[t] = 0
     \/ pc[t] = "idle" /\ wp[t] = Null
  /\ sp' = [sp EXCEPT ![t] = Null]
  /\ Drop(t, sp[t], "release")
  /\ UNCHANGED <<shared_, weak_, disposals, block, wp, cur>>

WeakOps(t) ==
  \/ Lock(t) \/ LockFails(t) \/ Observe(t, Null)
  \/ \E u \in Threads : Observe(t, sp[u]) \/ Observe(t, wp[u]) \/ WeakMove(t, u)

-----------------------------------------------------------------------------
\* The control block.

\* Mutant: the upgrade does not check that the object is still there.
CasBlindly(t) ==
  /\ pc[t] = "upgrade"
  /\ shared_' = [shared_ EXCEPT ![wp[t]] = @ + 1]
  /\ sp' = [sp EXCEPT ![t] = wp[t]]
  /\ Drop(t, sp[t], "release")
  /\ cur' = [cur EXCEPT ![t] = 0]
  /\ UNCHANGED <<weak_, disposals, block, wp>>

CasUpgrades(t) ==
  /\ pc[t] = "upgrade" /\ cur[t] # 0 /\ shared_[wp[t]] = cur[t]
  /\ shared_' = [shared_ EXCEPT ![wp[t]] = cur[t] + 1]
  /\ sp' = [sp EXCEPT ![t] = wp[t]]
  /\ Drop(t, sp[t], "release")
  /\ cur' = [cur EXCEPT ![t] = 0]
  /\ UNCHANGED <<weak_, disposals, block, wp>>

\* The weak CAS fails, spuriously or not, and refreshes cur.
CasFails(t) ==
  /\ pc[t] = "upgrade" /\ cur[t] # 0
  /\ cur' = [cur EXCEPT ![t] = shared_[wp[t]]]
  /\ UNCHANGED <<shared_, weak_, disposals, block, sp, wp, pc, tmp>>

ReleaseShared(t) ==
  /\ pc[t] = "release"
  /\ shared_' = [shared_ EXCEPT ![tmp[t]] = @ - 1]
  /\ IF shared_[tmp[t]] = 1
       THEN pc' = [pc EXCEPT ![t] = "dispose"] /\ UNCHANGED tmp
       ELSE Drop(t, Null, "idle")
  /\ UNCHANGED <<weak_, disposals, block, sp, wp, cur>>

Dispose(t) ==
  /\ pc[t] = "dispose"
  /\ disposals' = [disposals EXCEPT ![tmp[t]] = @ + 1]
  /\ pc' = [pc EXCEPT ![t] = "releaseWeak"]
  /\ UNCHANGED <<shared_, weak_, block, sp, wp, tmp, cur>>

\* The last weak reference deletes the block.
ReleaseWeak(t) ==
  /\ pc[t] = "releaseWeak"
  /\ weak_' = [weak_ EXCEPT ![tmp[t]] = @ - 1]
  /\ block' = IF weak_[tmp[t]] = 1
                THEN [block EXCEPT ![tmp[t]] = "deleted"] ELSE block
  /\ Drop(t, Null, "idle")
  /\ UNCHANGED <<shared_, disposals, sp, wp, cur>>

ControlOps(t) ==
  \/ CasUpgrades(t) \/ CasFails(t)
  \/ ReleaseShared(t) \/ Dispose(t) \/ ReleaseWeak(t)

Next == \E t \in Threads : SharedOps(t) \/ WeakOps(t) \/ ControlOps(t)

Spec == Init /\ [][Next]_vars

-----------------------------------------------------------------------------
Owners(b) == {t \in Threads : sp[t] = b}
Releasing(b) == {t \in Threads : pc[t] = "release" /\ tmp[t] = b}

\* The threads whose next step reads or writes block b, and the handles on it.
Touching(b) == {t \in Threads :
  \/ b \in {sp[t], wp[t]}
  \/ pc[t] \in {"release", "dispose", "releaseWeak"} /\ tmp[t] = b}

TypeOK ==
  /\ shared_ \in [Blocks -> Nat] /\ weak_ \in [Blocks -> Nat]
  /\ disposals \in [Blocks -> Nat]
  /\ block \in [Blocks -> {"unused", "live", "deleted"}]
  /\ sp \in [Threads -> Blocks \cup {Null}]
  /\ wp \in [Threads -> Blocks \cup {Null}]
  /\ pc \in [Threads -> {"idle", "upgrade", "release", "dispose", "releaseWeak"}]
  /\ tmp \in [Threads -> Blocks \cup {Null}] /\ cur \in [Threads -> Nat]

(* SharedPtr and WeakPtr, whichever threads race: an owned object was not  *)
(* destroyed, none is destroyed twice, a block that a handle or a running  *)
(* release still refers to was not deleted, the count is the number of     *)
(* owners, and what nobody refers to any more is gone, block and object.   *)
OwnershipShared == \A b \in Blocks :
  /\ Owners(b) # {} => disposals[b] = 0
  /\ disposals[b] <= 1
  /\ Touching(b) # {} => block[b] = "live"
  /\ shared_[b] = Cardinality(Owners(b)) + Cardinality(Releasing(b))
  /\ block[b] = "live" => Touching(b) # {}
  /\ block[b] = "deleted" => disposals[b] = 1

-----------------------------------------------------------------------------
Destroying == {"release", "dispose", "releaseWeak"}

\* Those that are at step l of the destruction of a handle on b.
Dropping(l, b) == {t \in Threads : pc[t] = l /\ tmp[t] = b}

Holders(f, b) == {t \in Threads : f[t] = b}

One(p) == IF p THEN 1 ELSE 0

\* How many handles on b there are, and how many being destroyed, by step.
nOwners(b) == Cardinality(Holders(sp, b))

nWatchers(b) == Cardinality(Holders(wp, b))

nReleasing(b) == Cardinality(Dropping("release", b))

nDisposing(b) == Cardinality(Dropping("dispose", b))

nForgetting(b) == Cardinality(Dropping("releaseWeak", b))

\* The weak reference that the SharedPtrs of b hold in common: whoever drops
\* the last of them drops it, after the object.
Common(b) == One(shared_[b] > 0) + nDisposing(b)

Types ==
  /\ TypeOK
  /\ \A t \in Threads : /\ pc[t] \in Destroying => tmp[t] \in Blocks
                        /\ pc[t] = "upgrade" => wp[t] \in Blocks

Counted(b) ==
  /\ shared_[b] = nOwners(b) + nReleasing(b)
  /\ weak_[b] = nWatchers(b) + nForgetting(b) + Common(b)
  /\ Common(b) <= 1
  /\ block[b] = "live" <=> weak_[b] > 0
  /\ disposals[b] = One(block[b] # "unused" /\ Common(b) = 0)

IInv == Types /\ \A b \in Blocks : Counted(b)
=============================================================================
