------------------------------- MODULE ArenaGc -------------------------------
(***************************************************************************)
(* ArenaGcHeap with its root guards (memory/08_arena_gc): objects in bump  *)
(* order, named by their slot; collect() marks from the roots and pops the *)
(* dead tail.  An object has one handle to another, a slot too (0: none).  *)
(***************************************************************************)
EXTENDS Naturals, Sequences, FiniteSets

CONSTANTS
  capacity_, Guards,
  MaxObjects   \* bound: objects ever allocated

VARIABLES
  slots_,  \* id and child of the object in each slot
  roots_,  \* how often each slot is registered
  guard,   \* the slot of each ArenaRoot, and the object it was made for
  made,    \* objects allocated
  stale,   \* guards that hold an object of before the last reset()
  robbed   \* slots of which a stale guard took a registration since then

vars == <<slots_, roots_, guard, made, stale, robbed>>

Slots == 1..capacity_
Loose == [slot |-> 0, id |-> 0]

Init ==
  /\ slots_ = <<>>
  /\ roots_ = [s \in Slots |-> 0]
  /\ guard = [g \in Guards |-> Loose]
  /\ made = 0
  /\ stale = {} /\ robbed = {}

Children == [s \in 1..Len(slots_) |-> slots_[s].child]

\* With all slots taken allocate() gives a null handle.
Allocate(c) ==
  /\ Len(slots_) < capacity_ /\ made < MaxObjects /\ c <= Len(slots_)
  /\ slots_' = Append(slots_, [id |-> made + 1, child |-> c])
  /\ made' = made + 1
  /\ UNCHANGED <<roots_, guard, stale, robbed>>

\* The caller stores a handle in an object.
Link(s, c) ==
  /\ s <= Len(slots_) /\ c <= Len(slots_)
  /\ slots_' = [slots_ EXCEPT ![s].child = c]
  /\ UNCHANGED <<roots_, guard, made, stale, robbed>>

\* Mutant: all registrations of the slot go.
UnrootAll(bag, s) == IF s = 0 THEN bag ELSE [bag EXCEPT ![s] = 0]

\* unroot(): one registration, if there is one.
Unroot(bag, s) == IF s = 0 \/ bag[s] = 0 THEN bag ELSE [bag EXCEPT ![s] = @ - 1]

\* A stale guard has no registration of its own, and so takes another's.
Robbed(bag, g) ==
  robbed \cup {s \in Slots : g \in stale /\ s = guard[g].slot /\ bag[s] > 0}

\* g = heap.root(h).  With a null handle it is DropGuard(g): the registration
\* names no slot.
Root(g, s) ==
  LET bag == [roots_ EXCEPT ![s] = @ + 1] IN
  /\ s <= Len(slots_)
  /\ roots_' = Unroot(bag, guard[g].slot)
  /\ guard' = [guard EXCEPT ![g] = [slot |-> s, id |-> slots_[s].id]]
  /\ stale' = stale \ {g} /\ robbed' = Robbed(bag, g)
  /\ UNCHANGED <<slots_, made>>

MoveGuard(g, k) ==
  /\ g # k
  /\ roots_' = Unroot(roots_, guard[g].slot)
  /\ guard' = [guard EXCEPT ![g] = guard[k], ![k] = Loose]
  /\ stale' = (stale \ {g, k}) \cup {x \in {g} : k \in stale}
  /\ robbed' = Robbed(roots_, g)
  /\ UNCHANGED <<slots_, made>>

DropGuard(g) ==
  /\ roots_' = Unroot(roots_, guard[g].slot)
  /\ guard' = [guard EXCEPT ![g] = Loose]
  /\ stale' = stale \ {g} /\ robbed' = Robbed(roots_, g)
  /\ UNCHANGED <<slots_, made>>

\* The worklist of collect(): what the seeds and the handles of what was
\* found lead to, among the objects that are there.
Mark(seeds, child, there) ==
  LET found[n \in 0..Cardinality(there)] ==
        IF n = 0 THEN seeds \cap there
        ELSE found[n - 1] \cup ({child[x] : x \in found[n - 1]} \cap there)
  IN found[Cardinality(there)]

\* What collect() starts from.
Registered == {s \in Slots : roots_[s] > 0}

\* Mutant: what the roots lead to is not marked.
MarkedUntraced == {s \in 1..Len(slots_) : roots_[s] > 0}

Marked == Mark(Registered, Children, 1..Len(slots_))

\* The slots up to the last marked one.
Kept == CHOOSE n \in Marked \cup {0} : \A m \in Marked : m <= n

\* Mark, pop the dead tail, prune the roots past it.
Collect ==
  LET kept == Kept IN
  /\ slots_' = SubSeq(slots_, 1, kept)
  /\ roots_' = [s \in Slots |-> IF s <= kept THEN roots_[s] ELSE 0]
  /\ UNCHANGED <<guard, made, stale, robbed>>

\* Guards that hold an object stay as they are.
Reset ==
  /\ slots_' = <<>>
  /\ roots_' = [s \in Slots |-> 0]
  /\ stale' = {g \in Guards : guard[g].slot # 0} /\ robbed' = {}
  /\ UNCHANGED <<guard, made>>

GuardOps(g) ==
  \/ DropGuard(g)
  \/ \E s \in Slots : Root(g, s)
  \/ \E k \in Guards : MoveGuard(g, k)

Next ==
  \/ Collect \/ Reset
  \/ \E c \in 0..capacity_ : Allocate(c) \/ \E s \in Slots : Link(s, c)
  \/ \E g \in Guards : GuardOps(g)

Spec == Init /\ [][Next]_vars

-----------------------------------------------------------------------------
TypeOK ==
  /\ slots_ \in Seq([id : 1..MaxObjects, child : 0..capacity_]) /\ Len(slots_) <= capacity_
  /\ roots_ \in [Slots -> Nat] /\ made \in 0..MaxObjects
  /\ guard \in [Guards -> [slot : 0..capacity_, id : 0..MaxObjects]]
  /\ stale \subseteq Guards /\ robbed \subseteq Slots

\* Every guard made since the last reset() finds its object where it was,
\* unless a guard from before has taken a registration of that slot.
GuardsHold == \A g \in Guards \ stale : guard[g].slot \notin {0} \cup robbed =>
  /\ guard[g].slot <= Len(slots_)
  /\ slots_[guard[g].slot].id = guard[g].id

\* What is reachable: what every set has that holds the seeds and is closed.
Reachable(seeds, child, there) ==
  {x \in there : \A S \in SUBSET there :
     (seeds \cap there \subseteq S
       /\ \A y \in S : child[y] \in there => child[y] \in S) => x \in S}

\* Other than by reset(), what a registered slot leads to stays, and the tail
\* that none leads to goes.
PopsDeadTail ==
  LET reached == Reachable(Registered, Children, 1..Len(slots_)) IN
  Len(slots_') < Len(slots_) =>
    \/ Reset
    \/ /\ \A s \in reached : s <= Len(slots_')
       /\ slots_' # <<>> => Len(slots_') \in reached

-----------------------------------------------------------------------------
\* There are finitely many guards.
Sized == capacity_ \in Nat /\ MaxObjects \in Nat /\ IsFiniteSet(Guards)

\* The guards of a slot that were made since the last reset().
Holders(s) == {g \in Guards \ stale : guard[g].slot = s}

\* Each of them is registered once, where no registration was taken.
RootsCounted == \A s \in Slots \ robbed : roots_[s] = Cardinality(Holders(s))

\* What every step keeps.
IInv == TypeOK /\ RootsCounted /\ GuardsHold
=============================================================================
