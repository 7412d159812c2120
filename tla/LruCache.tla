------------------------------ MODULE LruCache ------------------------------
(***************************************************************************)
(* containers/01_lru_cache: a recency list of nodes and a map of iterators *)
(* into it.  capacity_ is positive: evict_lru() of an empty list is        *)
(* undefined.                                                              *)
(***************************************************************************)
EXTENDS Naturals, Sequences, SequencesExt

CONSTANTS capacity_, Keys, Values, Null

VARIABLES
  order_,     \* the nodes, least recently used first
  item,       \* the pair of a node
  map_,       \* the node of a key, or Null
  recent,     \* every key put or hit so far, the latest last
  newest      \* the value last put under a key

vars == <<order_, item, map_, recent, newest>>

Nodes == 1 .. capacity_
NoItem == [key |-> Null, value |-> Null]

Init ==
  /\ order_ = <<>> /\ item = [n \in Nodes |-> NoItem]
  /\ map_ = [k \in Keys |-> Null]
  /\ recent = <<>> /\ newest = [k \in Keys |-> Null]

\* splice to the end; also of the key in the ideal order.
ToBack(s, x) == Append(RemoveFirst(s, x), x)

\* Mutant: a hit does not refresh the key.
GetInPlace(k) ==
  /\ map_[k] # Null
  /\ recent' = ToBack(recent, k)
  /\ UNCHANGED <<order_, item, map_, newest>>

get(k) ==
  /\ map_[k] # Null
  /\ order_' = ToBack(order_, map_[k])
  /\ recent' = ToBack(recent, k)
  /\ UNCHANGED <<item, map_, newest>>

put(k, v) ==
  /\ recent' = ToBack(recent, k) /\ newest' = [newest EXCEPT ![k] = v]
  /\ IF map_[k] # Null
     THEN /\ item' = [item EXCEPT ![map_[k]].value = v]
          /\ order_' = ToBack(order_, map_[k])
          /\ UNCHANGED map_
     ELSE LET full == Len(order_) = capacity_
              kept == IF full THEN Tail(order_) ELSE order_
              n == CHOOSE m \in Nodes : m \notin ToSet(kept)
              left == IF full THEN [map_ EXCEPT ![item[Head(order_)].key] = Null] ELSE map_
          IN /\ order_' = Append(kept, n)
             /\ item' = [item EXCEPT ![n] = [key |-> k, value |-> v]]
             /\ map_' = [left EXCEPT ![k] = n]

Next == \E k \in Keys : get(k) \/ \E v \in Values : put(k, v)

Spec == Init /\ [][Next]_vars

-----------------------------------------------------------------------------
(* LruCache: what is cached is what a list of all keys in order of use     *)
(* would keep at capacity_, each under its newest value, and map_ leads to *)
(* exactly the nodes of order_.                                            *)
KeepsRecent ==
  LET size == IF Len(recent) < capacity_ THEN Len(recent) ELSE capacity_
      cached == [i \in DOMAIN order_ |-> item[order_[i]]]
  IN /\ Len(order_) = size
     /\ \A i \in DOMAIN order_ :
          /\ cached[i].key = recent[Len(recent) - size + i]
          /\ cached[i].value = newest[cached[i].key]
          /\ map_[cached[i].key] = order_[i]
     /\ \A k \in Keys : map_[k] # Null => map_[k] \in ToSet(order_)

-----------------------------------------------------------------------------
(* What keeps it so: the list is the end of the order of use.              *)

\* What the constants must be.
Sized == capacity_ \in Nat \ {0} /\ Null \notin Nodes

\* A node of the list.
Item == [key : Keys \cup {Null}, value : Values \cup {Null}]

\* Types.
WellTyped ==
  /\ order_ \in Seq(Nodes) /\ item \in [Nodes -> Item]
  /\ map_ \in [Keys -> Nodes \cup {Null}]
  /\ recent \in Seq(Keys) /\ newest \in [Keys -> Values \cup {Null}]

\* No element of s is twice in it.
OneToOne(s) == \A j, k \in 1 .. Len(s) : s[j] = s[k] => j = k

\* The list is the end of the ideal order.
Aligned ==
  /\ Len(order_) <= capacity_ /\ Len(order_) <= Len(recent)
  /\ Len(order_) < capacity_ => Len(order_) = Len(recent)
  /\ \A i \in 1 .. Len(order_) :
       /\ item[order_[i]].key = recent[Len(recent) - Len(order_) + i]
       /\ item[order_[i]].value = newest[item[order_[i]].key]
       /\ map_[item[order_[i]].key] = order_[i]

\* The map leads to nodes of the list.
Mapped == \A k \in Keys : map_[k] # Null => \E i \in 1 .. Len(order_) : order_[i] = map_[k] /\ item[order_[i]].key = k

\* What every step keeps.
IInv == WellTyped /\ OneToOne(order_) /\ OneToOne(recent) /\ Aligned /\ Mapped
=============================================================================
