------------------------------ MODULE SpinLock ------------------------------
(***************************************************************************)
(* SpinLock of exercises/concurrency/01_spinlock: test and test-and-set.   *)
(* The backoff (yield, and a sleep every 16 attempts) only takes time.     *)
(***************************************************************************)
CONSTANT Threads

VARIABLES state_, pc

vars == <<state_, pc>>

Init == state_ = FALSE /\ pc = [t \in Threads |-> "out"]

Goto(t, l) == pc' = [pc EXCEPT ![t] = l]

\* lock() is called.
Lock(t) == pc[t] = "out" /\ Goto(t, "exchange") /\ UNCHANGED state_

Exchange(t) ==
  /\ pc[t] = "exchange"
  /\ state_' = TRUE
  /\ Goto(t, IF state_ THEN "spin" ELSE "cs")

\* while (state_) yield(): the step that leaves the loop.
Spin(t) ==
  /\ pc[t] = "spin"
  /\ ~state_
  /\ Goto(t, "exchange")
  /\ UNCHANGED state_

\* try_lock() on a free lock; on a held one its exchange changes nothing.
TryLock(t) ==
  /\ pc[t] = "out"
  /\ ~state_
  /\ state_' = TRUE
  /\ Goto(t, "cs")

\* Mutant: unlock() leaves the flag set.
UnlockForgets(t) == pc[t] = "cs" /\ Goto(t, "out") /\ UNCHANGED state_

Unlock(t) ==
  /\ pc[t] = "cs"
  /\ state_' = FALSE
  /\ Goto(t, "out")

Step(t) == Exchange(t) \/ Spin(t) \/ Unlock(t)

Next == \E t \in Threads : Lock(t) \/ TryLock(t) \/ Step(t)

Spec == Init /\ [][Next]_vars

\* Threads inside lock() run and critical sections end.
Fairness == \A t \in Threads : WF_vars(Step(t))

-----------------------------------------------------------------------------
(* lock() and try_lock() between them let one thread in at a time.         *)
MutualExclusion == \A t, u \in Threads : pc[t] = "cs" /\ pc[u] = "cs" => t = u

(* Not livelocked: while somebody is in lock(), threads keep entering.     *)
(* Nothing keeps one thread from losing every race.                        *)
SomebodyEnters ==
  (\E t \in Threads : pc[t] \in {"exchange", "spin"}) ~> (\E t \in Threads : pc[t] = "cs")

-----------------------------------------------------------------------------
\* The flag is set while somebody is inside.
IInv ==
  /\ state_ \in BOOLEAN
  /\ pc \in [Threads -> {"out", "exchange", "spin", "cs"}]
  /\ \A t \in Threads : pc[t] = "cs" => state_
  /\ MutualExclusion
=============================================================================
