------------------------- MODULE OrderStateMachine -------------------------
(***************************************************************************)
(* OrderStateMachine of exercises/domain/01_order_state_machine: load,     *)
(* consult the table, CAS, and start over with what the CAS has seen.      *)
(***************************************************************************)
EXTENDS Naturals, FiniteSets

CONSTANT Threads

OrderState == {"New", "PendingNew", "PartiallyFilled", "Filled",
               "PendingCancel", "Cancelled", "Rejected"}

\* The table; what it leaves out is terminal.
Edges ==
  [New             |-> {"PendingNew", "PartiallyFilled", "Cancelled", "Rejected"},
   PendingNew      |-> {"New", "PartiallyFilled", "Rejected"},
   PartiallyFilled |-> {"PartiallyFilled", "Filled", "PendingCancel", "Cancelled"},
   PendingCancel   |-> {"Cancelled", "PartiallyFilled", "Filled"}]

Terminal == OrderState \ DOMAIN Edges

legal(from, to) == from \notin Terminal /\ to \in Edges[from]

VARIABLES
  state_,
  pc, from, to,   \* the transition() each thread is in
  final           \* history: the threads told that they ended the order

vars == <<state_, pc, from, to, final>>

Init ==
  /\ state_ = "New"
  /\ pc = [t \in Threads |-> "idle"]
  /\ from = [t \in Threads |-> "New"]
  /\ to = [t \in Threads |-> "New"]
  /\ final = {}

\* from is state_; an illegal edge ends the call with false.
Look(t, target) ==
  /\ from' = [from EXCEPT ![t] = state_]
  /\ to' = [to EXCEPT ![t] = target]
  /\ pc' = [pc EXCEPT ![t] = IF legal(state_, target) THEN "cas" ELSE "idle"]
  /\ UNCHANGED <<state_, final>>

Call(t, target) == pc[t] = "idle" /\ Look(t, target)

\* Mutant: the refreshed state is not checked against the table again.
RetryUnchecked(t) ==
  /\ pc[t] = "cas"
  /\ from' = [from EXCEPT ![t] = state_]
  /\ UNCHANGED <<state_, pc, to, final>>

\* The weak CAS fails.
Retry(t) == pc[t] = "cas" /\ Look(t, to[t])

\* Mutant: a store, without comparing.
CommitStores(t) ==
  /\ pc[t] = "cas"
  /\ state_' = to[t]
  /\ final' = IF to[t] \in Terminal THEN final \cup {t} ELSE final
  /\ pc' = [pc EXCEPT ![t] = "idle"]
  /\ UNCHANGED <<from, to>>

\* The CAS succeeds: true.
Commit(t) ==
  /\ pc[t] = "cas"
  /\ state_ = from[t]
  /\ state_' = to[t]
  /\ final' = IF to[t] \in Terminal THEN final \cup {t} ELSE final
  /\ pc' = [pc EXCEPT ![t] = "idle"]
  /\ UNCHANGED <<from, to>>

Next ==
  \E t \in Threads :
    Commit(t) \/ Retry(t) \/ \E target \in OrderState : Call(t, target)

Spec == Init /\ [][Next]_vars

-----------------------------------------------------------------------------
(* Whatever threads race, the order moves along legal edges only, so that  *)
(* a terminal state is left by nobody.                                     *)
MovesAreLegal == [][state_' = state_ \/ legal(state_, state_')]_vars

(* A fill and a cancel that race are not both acknowledged: one thread is  *)
(* told that it ended the order, and the order is then over.               *)
EndsOnce ==
  /\ Cardinality(final) <= 1
  /\ final # {} => state_ \in Terminal

-----------------------------------------------------------------------------
TypeOK ==
  /\ state_ \in OrderState
  /\ pc \in [Threads -> {"idle", "cas"}]
  /\ from \in [Threads -> OrderState] /\ to \in [Threads -> OrderState]
  /\ final \subseteq Threads

\* A thread about to CAS has found its edge in the table; who was told that
\* it ended the order was the only one, and the order has been over since.
IInv ==
  /\ TypeOK
  /\ \A t \in Threads : pc[t] = "cas" => legal(from[t], to[t])
  /\ \A t, u \in final : t = u
  /\ final # {} => state_ \in Terminal
=============================================================================
