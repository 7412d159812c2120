----------------------------- MODULE RefcountGc -----------------------------
(***************************************************************************)
(* RcHeap with its counted handles and root guards (memory/10_refcount_gc).*)
(* A node has one RcPtr to another.  Dropping the last RcPtr to a node     *)
(* erases it from the vector nodes_; the erasure destroys the node, which  *)
(* drops its own RcPtr and may erase again, inside the first erasure.      *)
(* erasures holds the calls of vector::erase that are running, the         *)
(* innermost first; the caller goes on when there is none.                 *)
(***************************************************************************)
EXTENDS Naturals, Sequences, FiniteSets

CONSTANTS Nodes, Handles, Guards, Null

VARIABLES
  nodes_, size,  \* the vector's storage, and how much of it is in use
  live_, roots_,
  strong, next,  \* of each node
  handle,        \* the node of each RcPtr outside the heap
  guard,         \* the node of each RcRooted
  freed,         \* the nodes whose memory is gone
  erasures

vars == <<nodes_, size, live_, roots_, strong, next, handle, guard, freed, erasures>>

Init ==
  /\ nodes_ = [i \in 1..Cardinality(Nodes) |-> Null] /\ size = 0
  /\ live_ = {} /\ roots_ = [n \in Nodes |-> 0]
  /\ strong = [n \in Nodes |-> 0]
  /\ next = [n \in Nodes |-> Null]
  /\ handle = [h \in Handles |-> Null]
  /\ guard = [g \in Guards |-> Null]
  /\ freed = {} /\ erasures = <<>>

Bump(count, n) == IF n = Null THEN count ELSE [count EXCEPT ![n] = @ + 1]

\* drop() of an RcPtr to n, with the counts, the vector and the running
\* erasures as they are then.  destroy_now() looks for n in the vector and
\* erases it there: its successors move down by one.
Drop(n, count, storage, used, running) ==
  IF n = Null
  THEN strong' = count /\ erasures' = running /\ UNCHANGED live_
  ELSE LET places == {i \in 1..used : storage[i] = n}
           zero == count[n] = 1 /\ n \in live_
       IN /\ strong' = [count EXCEPT ![n] = @ - 1]
          /\ live_' = IF zero THEN live_ \ {n} ELSE live_
          /\ erasures' = IF zero /\ places # {}
               THEN LET i == CHOOSE i \in places : \A j \in places : i <= j
                    IN <<[to |-> i, left |-> used - i]>> \o running
               ELSE running

-----------------------------------------------------------------------------
\* The caller.

\* h = heap.make(), of an empty h.
Make(h) == \E n \in Nodes \ (live_ \cup freed) :
  /\ erasures = <<>> /\ handle[h] = Null
  /\ nodes_' = [nodes_ EXCEPT ![size + 1] = n] /\ size' = size + 1
  /\ live_' = live_ \cup {n}
  /\ strong' = [strong EXCEPT ![n] = 1]
  /\ handle' = [handle EXCEPT ![h] = n]
  /\ UNCHANGED <<roots_, next, guard, freed, erasures>>

\* h = k, and h.reset() when k is empty.
Assign(h, k) ==
  /\ erasures = <<>> /\ h # k
  /\ handle' = [handle EXCEPT ![h] = handle[k]]
  /\ Drop(handle[h], Bump(strong, handle[k]), nodes_, size, <<>>)
  /\ UNCHANGED <<nodes_, size, roots_, next, guard, freed>>

\* h = std::move(k)
Move(h, k) ==
  /\ erasures = <<>> /\ h # k
  /\ handle' = [handle EXCEPT ![h] = handle[k], ![k] = Null]
  /\ Drop(handle[h], strong, nodes_, size, <<>>)
  /\ UNCHANGED <<nodes_, size, roots_, next, guard, freed>>

Reset(h) ==
  /\ erasures = <<>>
  /\ handle' = [handle EXCEPT ![h] = Null]
  /\ Drop(handle[h], strong, nodes_, size, <<>>)
  /\ UNCHANGED <<nodes_, size, roots_, next, guard, freed>>

\* h->next = k
Link(h, k) ==
  /\ erasures = <<>> /\ handle[h] \in live_
  /\ next' = [next EXCEPT ![handle[h]] = handle[k]]
  /\ Drop(next[handle[h]], Bump(strong, handle[k]), nodes_, size, <<>>)
  /\ UNCHANGED <<nodes_, size, roots_, handle, guard, freed>>

Unroot(bag, n) ==
  IF n = Null THEN bag ELSE [bag EXCEPT ![n] = IF @ = 0 THEN 0 ELSE @ - 1]

\* g = heap.root(h), and the end of g when h is empty.
Root(g, h) ==
  /\ erasures = <<>>
  /\ roots_' = Unroot(Bump(roots_, handle[h]), guard[g])
  /\ guard' = [guard EXCEPT ![g] = handle[h]]
  /\ UNCHANGED <<nodes_, size, live_, strong, next, handle, freed, erasures>>

\* h = g.lock()
Lock(h, g) ==
  /\ erasures = <<>> /\ handle[h] = Null /\ guard[g] # Null
  /\ handle' = [handle EXCEPT ![h] = guard[g]]
  /\ strong' = Bump(strong, guard[g])
  /\ UNCHANGED <<nodes_, size, live_, roots_, next, guard, freed, erasures>>

\* The worklist of collect_cycles(): what the seeds and the handles of what was
\* found lead to, among the objects that are there.
Mark(seeds, child, there) ==
  LET found[n \in 0..Cardinality(there)] ==
        IF n = 0 THEN seeds \cap there
        ELSE found[n - 1] \cup ({child[x] : x \in found[n - 1]} \cap there)
  IN found[Cardinality(there)]

\* Seed with the roots and with what is counted from outside the heap, mark,
\* detach what is not marked; its drops destroy nothing more.
CollectCycles ==
  LET there == {nodes_[i] : i \in 1..size}
      internal(n) == Cardinality({m \in there : next[m] = n})
      seeds == {n \in Nodes : roots_[n] > 0}
                 \cup {n \in there : strong[n] > internal(n)}
      marked == Mark(seeds, next, there \cap live_)
      kept == SelectSeq(SubSeq(nodes_, 1, size), LAMBDA n : n \in marked)
      dead == there \ marked
  IN /\ erasures = <<>> /\ Null \notin there
     /\ live_' = live_ \ dead
     /\ nodes_' = [i \in DOMAIN nodes_ |-> IF i <= Len(kept) THEN kept[i] ELSE Null]
     /\ size' = Len(kept)
     /\ freed' = freed \cup dead
     /\ strong' = [n \in Nodes |-> strong[n] - Cardinality({m \in dead : next[m] = n})]
     /\ next' = [n \in Nodes |-> IF n \in dead THEN Null ELSE next[n]]
     /\ roots_' = [n \in Nodes |-> IF n \in live_' THEN roots_[n] ELSE 0]
     /\ UNCHANGED <<handle, guard, erasures>>

CallerOps ==
  \/ CollectCycles
  \/ \E h \in Handles : \/ Make(h) \/ Reset(h)
                        \/ \E k \in Handles : Assign(h, k) \/ Move(h, k) \/ Link(h, k)
                        \/ \E g \in Guards : Root(g, h) \/ Lock(h, g)

-----------------------------------------------------------------------------
\* vector::erase, in its innermost call.

\* Node n is destroyed with the unique_ptr that had it.
Destroy(n, storage, used, running) ==
  /\ freed' = IF n = Null THEN freed ELSE freed \cup {n}
  /\ next' = IF n = Null THEN next ELSE [next EXCEPT ![n] = Null]
  /\ Drop(IF n = Null THEN Null ELSE next[n], strong, storage, used, running)
  /\ UNCHANGED <<roots_, handle, guard>>

\* The next element moves down; what was there is destroyed.
ShiftDown ==
  /\ erasures # <<>>
  /\ LET e == Head(erasures)
         moved == [nodes_ EXCEPT ![e.to] = nodes_[e.to + 1], ![e.to + 1] = Null]
     IN /\ e.left > 0
        /\ nodes_' = moved
        /\ Destroy(nodes_[e.to], moved, size,
                   <<[to |-> e.to + 1, left |-> e.left - 1]>> \o Tail(erasures))
  /\ UNCHANGED size

\* The last element goes.
PopBack ==
  /\ erasures # <<>>
  /\ Head(erasures).left = 0
  /\ LET popped == [nodes_ EXCEPT ![size] = Null]
     IN /\ nodes_' = popped
        /\ Destroy(nodes_[size], popped, size - 1, Tail(erasures))
  /\ size' = size - 1

Next == CallerOps \/ ShiftDown \/ PopBack

Spec == Init /\ [][Next]_vars

-----------------------------------------------------------------------------
TypeOK ==
  /\ size \in 0..Cardinality(Nodes) /\ live_ \subseteq Nodes /\ freed \subseteq Nodes
  /\ handle \in [Handles -> Nodes \cup {Null}] /\ strong \in [Nodes -> Nat]

(* RcHeap: a node dies when its last RcPtr is dropped, so an RcPtr never   *)
(* outlives its node.                                                      *)
HandlesLive == \A h \in Handles : handle[h] \notin freed
=============================================================================
