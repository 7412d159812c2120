------------------------------ MODULE MarkSweep ------------------------------
(***************************************************************************)
(* GcHeap with its root guards (memory/09_mark_sweep): objects are named   *)
(* by their address, which the allocator may give out again, and have one  *)
(* handle to another each.                                                 *)
(***************************************************************************)
EXTENDS Naturals, FiniteSets

CONSTANTS Addresses, Guards, Null

VARIABLES
  live_,
  child,   \* the handle in each object
  roots_,  \* how often each object is registered
  guard    \* the object of each GcRooted

vars == <<live_, child, roots_, guard>>

Init ==
  /\ live_ = {}
  /\ child = [a \in Addresses |-> Null]
  /\ roots_ = [a \in Addresses |-> 0]
  /\ guard = [g \in Guards |-> Null]

Allocate(a, c) ==
  /\ a \notin live_ /\ c \in live_ \cup {Null}
  /\ live_' = live_ \cup {a}
  /\ child' = [child EXCEPT ![a] = c]
  /\ UNCHANGED <<roots_, guard>>

Link(a, c) ==
  /\ a \in live_ /\ c \in live_ \cup {Null}
  /\ child' = [child EXCEPT ![a] = c]
  /\ UNCHANGED <<live_, roots_, guard>>

\* Mutant: every registration of the object goes.
UnrootAll(bag, a) == IF a = Null THEN bag ELSE [bag EXCEPT ![a] = 0]

\* unroot(): one registration, if there is one.
Unroot(bag, a) ==
  IF a = Null THEN bag ELSE [bag EXCEPT ![a] = IF @ = 0 THEN 0 ELSE @ - 1]

\* g = heap.root(h)
Root(g, a) ==
  /\ a \in live_
  /\ roots_' = Unroot([roots_ EXCEPT ![a] = @ + 1], guard[g])
  /\ guard' = [guard EXCEPT ![g] = a]
  /\ UNCHANGED <<live_, child>>

MoveGuard(g, k) ==
  /\ g # k
  /\ roots_' = Unroot(roots_, guard[g])
  /\ guard' = [guard EXCEPT ![g] = guard[k], ![k] = Null]
  /\ UNCHANGED <<live_, child>>

DropGuard(g) ==
  /\ roots_' = Unroot(roots_, guard[g])
  /\ guard' = [guard EXCEPT ![g] = Null]
  /\ UNCHANGED <<live_, child>>

\* The worklist of collect(): what the seeds and the handles of what was
\* found lead to, among the objects that are there.
Mark(seeds, child_, there) ==
  LET found[n \in 0..Cardinality(there)] ==
        IF n = 0 THEN seeds \cap there
        ELSE found[n - 1] \cup ({child_[x] : x \in found[n - 1]} \cap there)
  IN found[Cardinality(there)]

\* Mark from the roots, sweep the rest wherever it sits.
Collect ==
  /\ live_' = Mark({a \in Addresses : roots_[a] > 0}, child, live_)
  /\ child' = [a \in Addresses |-> IF a \in live_' THEN child[a] ELSE Null]
  /\ UNCHANGED <<roots_, guard>>

GuardOps(g) ==
  \/ DropGuard(g)
  \/ \E a \in Addresses : Root(g, a)
  \/ \E k \in Guards : MoveGuard(g, k)

Next ==
  \/ Collect
  \/ \E a \in Addresses, c \in Addresses \cup {Null} : Allocate(a, c) \/ Link(a, c)
  \/ \E g \in Guards : GuardOps(g)

Spec == Init /\ [][Next]_vars

-----------------------------------------------------------------------------
TypeOK ==
  /\ live_ \subseteq Addresses /\ child \in [Addresses -> Addresses \cup {Null}]
  /\ roots_ \in [Addresses -> Nat] /\ guard \in [Guards -> Addresses \cup {Null}]

Guarded == {guard[g] : g \in Guards} \ {Null}

\* Nothing a guard or an object holds is gone, so that an address that is
\* given out again is nobody's old handle.
HandlesHold ==
  /\ Guarded \subseteq live_
  /\ \A a \in live_ : child[a] \in live_ \cup {Null}

\* What is reachable: what every set has that holds the seeds and is closed.
Reachable(seeds, child_, there) ==
  {x \in there : \A S \in SUBSET there :
     (seeds \cap there \subseteq S
       /\ \A y \in S : child_[y] \in there => child_[y] \in S) => x \in S}

\* A sweep takes what no guard leads to, cycles too, and nothing else.
SweepsUnreachable ==
  ~(live_ \subseteq live_') => live_' = Reachable(Guarded, child, live_)

-----------------------------------------------------------------------------
\* Finitely many addresses and guards, and Null is no address.
Sized == IsFiniteSet(Addresses) /\ IsFiniteSet(Guards) /\ Null \notin Addresses

\* The guards of an object.
Holders(a) == {g \in Guards : guard[g] = a}

\* Every guard is registered once.
RootsCounted == \A a \in Addresses : roots_[a] = Cardinality(Holders(a))

\* What every step keeps.
IInv == TypeOK /\ RootsCounted /\ HandlesHold
=============================================================================
