------------------------------ MODULE HashMap -------------------------------
(***************************************************************************)
(* The open-addressing table of containers/04_hash_map: linear probing,    *)
(* tombstones, growth by doubling.  A slot is kEmpty, kTombstone or a pair *)
(* of a key and a value; keys are numbers and hash to themselves, as       *)
(* std::hash does for integers (external).                                 *)
(***************************************************************************)
EXTENDS Integers, FiniteSets, Functions

CONSTANTS
  Keys, Values,
  kEmpty, kTombstone,
  kInitialCapacity, MaxCapacity,  \* powers of two; MaxCapacity bounds growth
  Wrap,                           \* tombstones_ is a number modulo Wrap
  CopiesTombstones                \* whether a table that holds tombstones is copied

VARIABLES nodes_, size_, tombstones_

vars == <<nodes_, size_, tombstones_>>

NoNodes == [i \in {} |-> kEmpty]

alloc_empty(cap) == [i \in 0 .. cap - 1 |-> kEmpty]

Init == nodes_ = NoNodes /\ size_ = 0 /\ tombstones_ = 0

capacity(t) == Cardinality(DOMAIN t)
Filled(s) == s \notin {kEmpty, kTombstone}

\* The slot looked at after p others on the way of key k.
Probe(t, k, p) == (k + p) % capacity(t)
Probes(t) == DOMAIN t

\* How far the walk for key k goes before slots that satisfy Stop(_).
FirstProbe(t, k, Stop(_)) ==
  {p \in Probes(t) : Stop(t[Probe(t, k, p)])
                     /\ \A q \in Probes(t) : q < p => ~Stop(t[Probe(t, k, q)])}

\* find_node(): the slots, none or one, where the walk finds the key.
find_node(t, k) ==
  LET Stop(s) == s = kEmpty \/ (Filled(s) /\ s[1] = k)
  IN {i \in {Probe(t, k, p) : p \in FirstProbe(t, k, Stop)} : Filled(t[i])}

\* A pair into the first empty slot of its walk.
place(u, s) ==
  LET Stop(x) == x = kEmpty
  IN [u EXCEPT ![CHOOSE i \in {Probe(u, s[1], p) : p \in FirstProbe(u, s[1], Stop)} : TRUE] = s]

\* grow(): every pair of the old table, in slot order.
Rehashed(t, cap) ==
  LET moved[i \in 0 .. capacity(t)] ==
        IF i = 0 THEN alloc_empty(cap)
        ELSE IF Filled(t[i - 1]) THEN place(moved[i - 1], t[i - 1]) ELSE moved[i - 1]
  IN moved[capacity(t)]

Overloaded(t) == 10 * (size_ + 1) > 7 * capacity(t)

NextCapacity(t) == IF t = NoNodes THEN kInitialCapacity ELSE 2 * capacity(t)

\* The table that the last round of insert(), after growing, walks.
Table(k) ==
  LET grown == IF Overloaded(nodes_) THEN Rehashed(nodes_, NextCapacity(nodes_)) ELSE nodes_
      saturated == \A p \in Probes(grown) : grown[p] # kEmpty
  IN IF saturated /\ find_node(grown, k) = {}
     THEN Rehashed(grown, NextCapacity(grown)) ELSE grown

\* Mutant: the pair goes to the first tombstone or empty slot; the walk that
\* looks for the key ends there.
InsertFirstFree(k, v) ==
  LET t == Table(k)
      Stop(s) == ~Filled(s) \/ s[1] = k
      at == CHOOSE i \in {Probe(t, k, p) : p \in FirstProbe(t, k, Stop)} : TRUE IN
  /\ capacity(t) <= MaxCapacity
  /\ IF Filled(t[at]) THEN nodes_' = t /\ UNCHANGED <<size_, tombstones_>>
     ELSE nodes_' = [t EXCEPT ![at] = <<k, v>>] /\ size_' = size_ + 1 /\ UNCHANGED tombstones_

\* insert(): the first tombstone of the walk is used again, once the walk
\* has shown that the key is not behind it.
insert(k, v) ==
  LET t == Table(k)
      Free(s) == ~Filled(s)
      at == CHOOSE i \in {Probe(t, k, p) : p \in FirstProbe(t, k, Free)} : TRUE
      left == IF nodes_ = t THEN tombstones_ ELSE 0 IN
  /\ capacity(t) <= MaxCapacity
  /\ IF find_node(t, k) # {}
     THEN nodes_' = t /\ tombstones_' = left /\ UNCHANGED size_
     ELSE /\ nodes_' = [t EXCEPT ![at] = <<k, v>>]
          /\ size_' = size_ + 1
          /\ tombstones_' = IF t[at] = kTombstone THEN (left - 1) % Wrap ELSE left

\* A write through the reference that operator[] or at() returned.
Assign(k, v) ==
  /\ \E i \in find_node(nodes_, k) : nodes_' = [nodes_ EXCEPT ![i] = <<k, v>>]
  /\ UNCHANGED <<size_, tombstones_>>

\* Mutant: the slot is emptied.
EraseToEmpty(k) ==
  /\ \E i \in find_node(nodes_, k) : nodes_' = [nodes_ EXCEPT ![i] = kEmpty]
  /\ size_' = size_ - 1
  /\ UNCHANGED tombstones_

erase(k) ==
  /\ \E i \in find_node(nodes_, k) : nodes_' = [nodes_ EXCEPT ![i] = kTombstone]
  /\ size_' = size_ - 1
  /\ tombstones_' = (tombstones_ + 1) % Wrap

\* clear() empties the filled slots; tombstones stay in the table.
clear ==
  /\ nodes_' = [i \in DOMAIN nodes_ |-> IF Filled(nodes_[i]) THEN kEmpty ELSE nodes_[i]]
  /\ size_' = 0 /\ tombstones_' = 0

\* The capacities that doubling reaches.
Doublings == {kInitialCapacity * 2^i : i \in 0 .. MaxCapacity} \cap 1 .. MaxCapacity

reserve(n) ==
  /\ n > capacity(nodes_)
  /\ \E cap \in Doublings :
       /\ cap >= n /\ \A c \in Doublings : c >= n => c >= cap
       /\ nodes_' = Rehashed(nodes_, cap)
  /\ tombstones_' = 0
  /\ UNCHANGED size_

\* The map is moved away, and used again.
MovedFrom == nodes_' = NoNodes /\ size_' = 0 /\ tombstones_' = 0

\* The copy constructor; from here on the copy is used.
Copied ==
  /\ CopiesTombstones \/ \A i \in DOMAIN nodes_ : nodes_[i] # kTombstone
  /\ nodes_' = [i \in DOMAIN nodes_ |-> IF Filled(nodes_[i]) THEN nodes_[i] ELSE kEmpty]
  /\ tombstones_' = 0
  /\ UNCHANGED size_

Next ==
  \/ \E k \in Keys, v \in Values : insert(k, v) \/ Assign(k, v)
  \/ \E k \in Keys : erase(k)
  \/ clear
  \/ \E n \in 1 .. MaxCapacity : reserve(n)
  \/ MovedFrom
  \/ Copied

Spec == Init /\ [][Next]_vars

-----------------------------------------------------------------------------
Pairs == {nodes_[i] : i \in {j \in DOMAIN nodes_ : Filled(nodes_[j])}}

\* What find() tells of the map.
Found == [k \in {x \in Keys : find_node(nodes_, x) # {}} |->
            nodes_[CHOOSE i \in find_node(nodes_, k) : TRUE][2]]

Put(k, v) == Found' = [x \in DOMAIN Found \cup {k} |-> IF x = k THEN v ELSE Found[x]]
Drop(k) == Found' = Restrict(Found, DOMAIN Found \ {k})

(* The table is a map: what find() sees changes only as inserts, writes,   *)
(* erases and clear() say.                                                 *)
IsMap ==
  /\ DOMAIN Found = {}
  /\ [][\/ DOMAIN Found' = {}
        \/ \E k \in Keys : Drop(k) \/ \E v \in Values : Put(k, v)]_Found

(* Every probe chain is whole: begin() .. end() visits each pair that      *)
(* find() sees and no other, each key once, and size() counts them.        *)
ChainsWhole ==
  /\ Pairs = {<<k, Found[k]>> : k \in DOMAIN Found}
  /\ Cardinality({j \in DOMAIN nodes_ : Filled(nodes_[j])}) = size_
  /\ Cardinality(DOMAIN Found) = size_

-----------------------------------------------------------------------------
(* What keeps it so: no walk to a key meets an empty slot.                 *)

\* What the constants must be; and grow() leaves the tombstones behind.
Sized ==
  /\ Keys \in SUBSET Nat /\ kInitialCapacity \in Nat \ {0} /\ MaxCapacity \in Nat
  /\ kEmpty # kTombstone /\ kEmpty \notin Keys \X Values /\ kTombstone \notin Keys \X Values
  /\ ~CopiesTombstones

\* What a slot may hold.
Slots == {kEmpty, kTombstone} \cup (Keys \X Values)

\* The tables of capacity c.
Tab(c) == [0 .. c - 1 -> Slots]

\* The slots with a pair, the pairs and their keys.
FilledIn(t) == {j \in DOMAIN t : Filled(t[j])}

PairsOf(t) == {t[i] : i \in FilledIn(t)}

KeysOf(t) == {s[1] : s \in PairsOf(t)}

\* From the first slot of its walk to its pair a key passes no empty slot.
Reached(t, k, i) ==
  \E p \in DOMAIN t : Probe(t, k, p) = i /\ \A q \in DOMAIN t : q < p => t[Probe(t, k, q)] # kEmpty

\* So does every pair.
Chained(t) == \A i \in FilledIn(t) : Reached(t, t[i][1], i)

\* A key is in one slot.
Once(t) == \A i, j \in FilledIn(t) : t[i][1] = t[j][1] => i = j

\* Every key can be reached, and is there once.
Whole(t) == Chained(t) /\ Once(t)

\* A whole table with n keys.
Good(t, n) == \E c \in Nat : t \in Tab(c) /\ Whole(t) /\ n = Cardinality(KeysOf(t))

\* What every step keeps.
IInv == Good(nodes_, size_)
=============================================================================
