---------------------------- MODULE SpinBarrier ----------------------------
(***************************************************************************)
(* SpinBarrier of exercises/concurrency/10_spin_barrier: wait() of n_      *)
(* threads, one action per atomic operation, over several rounds.          *)
(***************************************************************************)
EXTENDS Integers, FiniteSets

CONSTANTS
  Threads,      \* the threads that share the barrier
  MaxRounds     \* bound: how often each of them calls wait()

\* The constructor refuses n == 0: Threads is not empty.
n_ == Cardinality(Threads)

VARIABLES
  count_, generation_,
  round,      \* the local of wait()
  pc,
  arrived,    \* history: how often t has counted itself in
  passed      \* history: how often t has returned from wait()

vars == <<count_, generation_, round, pc, arrived, passed>>

Init ==
  /\ count_ = 0
  /\ generation_ = 0
  /\ round = [t \in Threads |-> 0]
  /\ pc = [t \in Threads |-> "out"]
  /\ arrived = [t \in Threads |-> 0]
  /\ passed = [t \in Threads |-> 0]

Goto(t, l) == pc' = [pc EXCEPT ![t] = l]

LoadRound(t) ==
  /\ pc[t] = "out"
  /\ passed[t] < MaxRounds
  /\ round' = [round EXCEPT ![t] = generation_]
  /\ Goto(t, "arrive")
  /\ UNCHANGED <<count_, generation_, arrived, passed>>

\* Mutant: the count that triggers the release is one short.
ArriveShort(t) ==
  /\ pc[t] = "arrive"
  /\ count_' = count_ + 1
  /\ arrived' = [arrived EXCEPT ![t] = @ + 1]
  /\ Goto(t, IF count_' >= n_ - 1 THEN "reset" ELSE "spin")
  /\ UNCHANGED <<generation_, round, passed>>

\* arrived = count_.fetch_add(1) + 1; the last arriver has work to do.
Arrive(t) ==
  /\ pc[t] = "arrive"
  /\ count_' = count_ + 1
  /\ arrived' = [arrived EXCEPT ![t] = @ + 1]
  /\ Goto(t, IF count_' = n_ THEN "reset" ELSE "spin")
  /\ UNCHANGED <<generation_, round, passed>>

Reset(t) ==
  /\ pc[t] = "reset"
  /\ count_' = 0
  /\ Goto(t, "release")
  /\ UNCHANGED <<generation_, round, arrived, passed>>

Release(t) ==
  /\ pc[t] = "release"
  /\ generation_' = round[t] + 1
  /\ passed' = [passed EXCEPT ![t] = @ + 1]
  /\ Goto(t, "out")
  /\ UNCHANGED <<count_, round, arrived>>

\* while (generation_ == round) yield(): the step that leaves the loop.
Spin(t) ==
  /\ pc[t] = "spin"
  /\ generation_ # round[t]
  /\ passed' = [passed EXCEPT ![t] = @ + 1]
  /\ Goto(t, "out")
  /\ UNCHANGED <<count_, generation_, round, arrived>>

Step(t) ==
  LoadRound(t) \/ Arrive(t) \/ Reset(t) \/ Release(t) \/ Spin(t)

\* Everyone has used up the bound and stays outside.
Finished == (\A t \in Threads : passed[t] = MaxRounds) /\ UNCHANGED vars

Next == Finished \/ \E t \in Threads : Step(t)

Spec == Init /\ [][Next]_vars

\* Every thread is scheduled and keeps coming back to the barrier.
Fairness == \A t \in Threads : WF_vars(Step(t))
FairSpec == Spec /\ Fairness

-----------------------------------------------------------------------------
(* Types; the arrival count never exceeds the n_ threads of one round.     *)
TypeOK ==
  /\ count_ \in 0 .. n_
  /\ generation_ \in 0 .. MaxRounds
  /\ round \in [Threads -> 0 .. MaxRounds]
  /\ pc \in [Threads -> {"out", "arrive", "reset", "release", "spin"}]
  /\ arrived \in [Threads -> 0 .. MaxRounds]
  /\ passed \in [Threads -> 0 .. MaxRounds]

(* The rendezvous: nobody passes round k before everybody has arrived in   *)
(* it, in every round and whatever leftovers of the previous round run on. *)
NobodyPassesEarly == \A t, u \in Threads : passed[t] <= arrived[u]

(* generation() counts the completed rounds: it lies between what the      *)
(* slowest and the fastest thread have passed, never ahead of an arrival.  *)
GenerationCounts ==
  \A t \in Threads : passed[t] <= generation_ /\ generation_ <= arrived[t]
                     /\ arrived[t] <= generation_ + 1

(* The barrier is reusable: every thread gets through every round.         *)
AllRoundsComplete == <>(\A t \in Threads : passed[t] = MaxRounds)
-----------------------------------------------------------------------------
Types ==
  /\ count_ \in Nat /\ generation_ \in Nat
  /\ round \in [Threads -> Nat]
  /\ pc \in [Threads -> {"out", "arrive", "reset", "release", "spin"}]
  /\ arrived \in [Threads -> Nat] /\ passed \in [Threads -> Nat]

\* The arrivals of the round that is open.
Here == {t \in Threads : arrived[t] = generation_ + 1}

\* Where a thread stands in its own rounds.
Stands ==
  \A t \in Threads :
    /\ pc[t] \in {"out", "arrive"} => arrived[t] = passed[t]
    /\ pc[t] \in {"reset", "release", "spin"} =>
         arrived[t] = passed[t] + 1 /\ round[t] = passed[t]
    /\ pc[t] = "arrive" => round[t] = generation_

\* The last arriver: it is alone, everybody is here, and until it has reset
\* the count the count says so.
LastArriver ==
  /\ \A t \in Threads : pc[t] \in {"reset", "release"} =>
       /\ Here = Threads
       /\ \A u \in Threads : pc[u] \in {"reset", "release"} => u = t
  /\ Here = Threads => \E t \in Threads : pc[t] \in {"reset", "release"}
  /\ IF \E t \in Threads : pc[t] = "release" THEN count_ = 0
     ELSE count_ = Cardinality(Here)

IInv == Types /\ GenerationCounts /\ Stands /\ LastArriver

\* Nobody starts a round beyond the bound, and no round is read that has not
\* begun.
Bounded ==
  \A t \in Threads : /\ round[t] <= generation_ /\ passed[t] <= MaxRounds
                     /\ pc[t] # "out" => passed[t] < MaxRounds
=============================================================================
