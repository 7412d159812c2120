--------------------------- MODULE LockFreeStack ---------------------------
(***************************************************************************)
(* LockFreeStack of exercises/concurrency/06_lockfree_stack: a Treiber     *)
(* stack that parks popped nodes on a second list until it is destroyed.   *)
(* One action per access to shared memory.  Nodes are numbered in the      *)
(* order of allocation; 0 is nullptr, and the retired list is given by the *)
(* order of its nodes, each in a cell of its own.                          *)
(***************************************************************************)
EXTENDS Integers, Sequences, FiniteSets

CONSTANTS
  Threads,
  MaxNodes      \* bound: how many nodes are ever pushed

Nodes == 1 .. MaxNodes
nullptr == 0

VARIABLES
  head_, next, retired_,
  made,       \* how many nodes have been allocated
  pc,
  node,       \* node[t]: what push() has allocated, or try_pop() has claimed
  cur, nxt    \* the locals of push(), try_pop() and retire()

vars == <<head_, next, retired_, made, pc, node, cur, nxt>>

Init ==
  /\ head_ = nullptr
  /\ next = [n \in Nodes |-> nullptr]
  /\ retired_ = <<>>
  /\ made = 0
  /\ pc = [t \in Threads |-> "idle"]
  /\ node = [t \in Threads |-> nullptr]
  /\ cur = [t \in Threads |-> nullptr]
  /\ nxt = [t \in Threads |-> nullptr]

Goto(t, l) == pc' = [pc EXCEPT ![t] = l]

\* The operation returns; its locals are gone.
Return(t) ==
  /\ Goto(t, "idle")
  /\ node' = [node EXCEPT ![t] = nullptr]
  /\ cur' = [cur EXCEPT ![t] = nullptr]
  /\ nxt' = [nxt EXCEPT ![t] = nullptr]

-----------------------------------------------------------------------------
(* push() *)

\* new Node, and cur = head_.load()
PushNew(t) ==
  /\ pc[t] = "idle"
  /\ made < MaxNodes
  /\ made' = made + 1
  /\ node' = [node EXCEPT ![t] = made']
  /\ cur' = [cur EXCEPT ![t] = head_]
  /\ Goto(t, "push")
  /\ UNCHANGED <<head_, next, retired_, nxt>>

\* Mutant: the node keeps the link of the first attempt.
PushCasStale(t) ==
  /\ pc[t] = "push"
  /\ next' = [next EXCEPT ![node[t]] = cur[t]]
  /\ head_' = node[t]
  /\ Return(t)
  /\ UNCHANGED <<retired_, made>>

\* node->next = cur on the private node, and the CAS that publishes it.
PushCas(t) ==
  /\ pc[t] = "push"
  /\ head_ = cur[t]
  /\ next' = [next EXCEPT ![node[t]] = cur[t]]
  /\ head_' = node[t]
  /\ Return(t)
  /\ UNCHANGED <<retired_, made>>

\* The weak CAS fails and reloads cur.
PushFails(t) ==
  /\ pc[t] = "push"
  /\ next' = [next EXCEPT ![node[t]] = cur[t]]
  /\ cur' = [cur EXCEPT ![t] = head_]
  /\ UNCHANGED <<head_, retired_, made, pc, node, nxt>>

-----------------------------------------------------------------------------
(* try_pop() and retire() *)

\* cur is (re)loaded from head_; null is an empty stack.
Look(t) ==
  /\ cur' = [cur EXCEPT ![t] = head_]
  /\ nxt' = [nxt EXCEPT ![t] = nullptr]
  /\ Goto(t, IF head_ = nullptr THEN "idle" ELSE "next")

PopLoad(t) ==
  pc[t] = "idle" /\ Look(t) /\ UNCHANGED <<head_, next, retired_, made, node>>

\* next = cur->next, of a node that may have been popped since.
PopNext(t) ==
  /\ pc[t] = "next"
  /\ nxt' = [nxt EXCEPT ![t] = next[cur[t]]]
  /\ Goto(t, "pop")
  /\ UNCHANGED <<head_, next, retired_, made, node, cur>>

PopCas(t) ==
  /\ pc[t] = "pop"
  /\ head_ = cur[t]
  /\ head_' = nxt[t]
  /\ node' = [node EXCEPT ![t] = cur[t]]
  /\ Goto(t, "retire")
  /\ UNCHANGED <<next, retired_, made, cur, nxt>>

PopFails(t) ==
  pc[t] = "pop" /\ Look(t) /\ UNCHANGED <<head_, next, retired_, made, node>>

\* Mutant: the popped node is recycled into the next push.
RetireRecycles(t) ==
  /\ pc[t] = "retire"
  /\ cur' = [cur EXCEPT ![t] = head_]
  /\ Goto(t, "push")
  /\ UNCHANGED <<head_, next, retired_, made, node, nxt>>

\* retire(): a CAS loop of its own, on a list nobody pops from.
Retire(t) ==
  /\ pc[t] = "retire"
  /\ retired_' = <<node[t]>> \o retired_
  /\ Return(t)
  /\ UNCHANGED <<head_, next, made>>

-----------------------------------------------------------------------------
Next ==
  \E t \in Threads :
    \/ PushNew(t) \/ PushCas(t) \/ PushFails(t)
    \/ PopLoad(t) \/ PopNext(t) \/ PopCas(t) \/ PopFails(t) \/ Retire(t)

Spec == Init /\ [][Next]_vars

-----------------------------------------------------------------------------
\* What a walk from head_ meets; nullptr once it has run off the end.
Walk[n \in 0 .. MaxNodes] ==
  IF n = 0 THEN head_ ELSE IF Walk[n - 1] = nullptr THEN nullptr ELSE next[Walk[n - 1]]

Live == {Walk[n] : n \in 0 .. MaxNodes} \ {nullptr}
Held == {t \in Threads : pc[t] \in {"push", "retire"}}

(* A node is in one place: private to a push(), on the stack, claimed by   *)
(* one try_pop(), or retired once.  So nothing is delivered twice or lost, *)
(* and the destructor, which frees both lists, frees every node once.      *)
OnePlace ==
  \A n \in 1 .. made :
    Cardinality({t \in Held : node[t] = n})
      + Cardinality({i \in 1 .. Len(retired_) : retired_[i] = n})
      + (IF n \in Live THEN 1 ELSE 0) = 1

Depth == Cardinality(Live)
Contents == [i \in 1 .. Depth |-> Walk[i - 1]]

PushTop(n) == Contents' = <<n>> \o Contents
PopTop == Contents # <<>> /\ Contents' = Tail(Contents)

(* It is a stack: the node a CAS takes is the top, and what it leaves is   *)
(* the rest, however old the next pointer that it installs.                *)
LifoStep == PopTop \/ \E n \in Nodes : PushTop(n)

(* No ABA: as long as a try_pop()'s CAS would succeed, the next pointer it *)
(* read is the one its node has, since no address comes back while the     *)
(* stack lives.                                                            *)
ReadNextIsCurrent ==
  \A t \in Threads : pc[t] = "pop" /\ head_ = cur[t] => nxt[t] = next[cur[t]]

-----------------------------------------------------------------------------
\* s lists the nodes that hang on head_, top first.
IsList(s) ==
  /\ s \in Seq(Nodes) /\ Len(s) <= MaxNodes
  /\ \A i, j \in 1 .. Len(s) : s[i] = s[j] => i = j
  /\ head_ = IF s = <<>> THEN nullptr ELSE s[1]
  /\ \A i \in 1 .. Len(s) : next[s[i]] = IF i < Len(s) THEN s[i + 1] ELSE nullptr

\* Types.
Types ==
  /\ MaxNodes \in Nat /\ made \in 0 .. MaxNodes
  /\ head_ \in Nodes \cup {nullptr} /\ next \in [Nodes -> Nodes \cup {nullptr}]
  /\ retired_ \in Seq(Nodes)
  /\ pc \in [Threads -> {"idle", "push", "next", "pop", "retire"}]
  /\ node \in [Threads -> Nodes \cup {nullptr}]
  /\ cur \in [Threads -> Nodes \cup {nullptr}] /\ nxt \in [Threads -> Nodes \cup {nullptr}]

\* The nodes that wait for the destructor.
Retired == {retired_[i] : i \in 1 .. Len(retired_)}

\* The node of a push() or of a try_pop() that has claimed one is private to it
\* or claimed by it alone; and no node is lost.
Placed ==
  /\ \A t \in Held : node[t] \in 1 .. made /\ node[t] \notin Live \cup Retired
  /\ \A t, u \in Held : node[t] = node[u] => t = u
  /\ \A i, j \in 1 .. Len(retired_) : retired_[i] = retired_[j] => i = j
  /\ Live \cup Retired \subseteq 1 .. made
  /\ Live \cap Retired = {}
  /\ \A n \in 1 .. made : n \in Live \cup Retired \/ \E t \in Held : node[t] = n

\* A try_pop() has loaded a node that was published, so one whose link is not
\* written any more.
Loaded ==
  \A t \in Threads : pc[t] \in {"next", "pop"} =>
    /\ cur[t] \in 1 .. made /\ \A u \in Threads : pc[u] = "push" => node[u] # cur[t]
    /\ pc[t] = "pop" => nxt[t] = next[cur[t]]

\* What every step keeps.
IInv == Types /\ IsList(Contents) /\ Placed /\ Loaded
=============================================================================
