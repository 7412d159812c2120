----------------------------- MODULE Semaphore -----------------------------
(***************************************************************************)
(* Semaphore of exercises/concurrency/09_semaphore: a token count under    *)
(* mu_ and a condition variable.  A critical section is one action;        *)
(* release() notifies with the mutex released.  Any thread may call any    *)
(* operation: tokens belong to nobody.                                     *)
(***************************************************************************)
EXTENDS Integers, FiniteSets

CONSTANTS
  Threads,
  Initial,        \* the constructor's argument
  MaxReleases     \* bound: how often release() is called

VARIABLES
  n_,
  pc,             \* "wait" is blocked in cv_.wait
  released        \* history: how often release() was called

vars == <<n_, pc, released>>

Init ==
  /\ n_ = Initial
  /\ pc = [t \in Threads |-> "idle"]
  /\ released = 0

Goto(t, l) == pc' = [pc EXCEPT ![t] = l]
At(l) == {t \in Threads : pc[t] = l}

\* acquire() is called; mu_ is not held yet.
AcquireCall(t) == pc[t] = "idle" /\ Goto(t, "test") /\ UNCHANGED <<n_, released>>

\* cv_.wait(lock, n_ > 0) tests its predicate: --n_, or to sleep.
AcquireTest(t) ==
  /\ pc[t] = "test"
  /\ IF n_ > 0 THEN n_' = n_ - 1 /\ Goto(t, "idle")
               ELSE n_' = n_ /\ Goto(t, "wait")
  /\ UNCHANGED released

SpuriousWake(t) == pc[t] = "wait" /\ Goto(t, "test") /\ UNCHANGED <<n_, released>>

\* try_acquire() that finds a token; without one it changes nothing.
TryAcquire(t) ==
  /\ pc[t] = "idle"
  /\ n_ > 0
  /\ n_' = n_ - 1
  /\ UNCHANGED <<pc, released>>

Release(t) ==
  /\ pc[t] = "idle"
  /\ released < MaxReleases
  /\ released' = released + 1
  /\ n_' = n_ + 1
  /\ Goto(t, "notify")

\* Mutant: only the first token of an empty semaphore is announced.
NotifyIfEmpty(t) ==
  /\ pc[t] = "notify"
  /\ IF At("wait") = {} \/ n_ > 1 THEN Goto(t, "idle")
     ELSE \E w \in At("wait") : pc' = [pc EXCEPT ![t] = "idle", ![w] = "test"]
  /\ UNCHANGED <<n_, released>>

\* cv_.notify_one()
Notify(t) ==
  /\ pc[t] = "notify"
  /\ IF At("wait") = {} THEN Goto(t, "idle")
     ELSE \E w \in At("wait") : pc' = [pc EXCEPT ![t] = "idle", ![w] = "test"]
  /\ UNCHANGED <<n_, released>>

Step(t) == AcquireTest(t) \/ Notify(t)

Next ==
  \E t \in Threads : \/ Step(t)
                     \/ AcquireCall(t) \/ TryAcquire(t) \/ Release(t)
                     \/ SpuriousWake(t)

Spec == Init /\ [][Next]_vars

\* A thread inside acquire() or release() that is not asleep runs.
Fairness == \A t \in Threads : WF_vars(Step(t))

-----------------------------------------------------------------------------
(* Types; n_ is unsigned in the code: no token is consumed that is not     *)
(* there.                                                                  *)
TypeOK ==
  /\ n_ \in 0 .. Initial + MaxReleases
  /\ pc \in [Threads -> {"idle", "test", "wait", "notify"}]
  /\ released \in 0 .. MaxReleases

(* No lost wakeup: while a thread sleeps, every token that is there has    *)
(* somebody coming for it, a thread awake in acquire() or a notification   *)
(* under way, though release() notifies after its unlock and try_acquire() *)
(* barges in.                                                              *)
TokensAnnounced ==
  At("wait") # {} => n_ <= Cardinality(At("test") \cup At("notify"))

(* Nobody sleeps for ever beside tokens that nobody takes.                 *)
SleepersServed ==
  \A t \in Threads : <>[](pc[t] = "wait") => []<>(n_ = 0)

-----------------------------------------------------------------------------
\* Those who are coming for a token.
Coming == At("test") \cup At("notify")

\* A token is one of the first ones or was released.
Counts ==
  /\ n_ \in Nat /\ released \in 0 .. MaxReleases /\ n_ <= Initial + released
  /\ pc \in [Threads -> {"idle", "test", "wait", "notify"}]

\* The tokens and who is coming for them, by which every step keeps both.
IInv == Counts /\ TokensAnnounced
=============================================================================
