----------------------------- MODULE ThreadPool -----------------------------
(***************************************************************************)
(* ThreadPool of exercises/concurrency/04_thread_pool: workers that share  *)
(* one task queue under mtx_ and sleep on cv_.  A critical section is one  *)
(* action; running a task, notifying and joining happen with the mutex     *)
(* released.  Tasks are numbered in the order they are accepted.           *)
(***************************************************************************)
EXTENDS Integers, Sequences, FiniteSets

CONSTANTS
  Workers,      \* workers_: at least one, whatever n_threads is
  Submitters,   \* threads that call submit()
  Closers,      \* threads that call shutdown() or the destructor
  MaxTasks      \* bound: how many tasks are ever submitted

Threads == Workers \cup Submitters \cup Closers

VARIABLES
  tasks_, shutting_down_,
  held,       \* held[w]: the task that worker w took last
  pc,         \* where each thread is; "wait" is blocked in cv_.wait
  accepted,   \* how many tasks enqueue() has accepted
  runs        \* runs[n]: how often task n has run

data == <<tasks_, shutting_down_, held, accepted, runs>>
vars == <<data, pc>>

Init ==
  /\ tasks_ = <<>>
  /\ shutting_down_ = FALSE
  /\ held = [w \in Workers |-> 0]
  /\ pc = [t \in Threads |-> IF t \in Workers THEN "loop" ELSE "idle"]
  /\ accepted = 0
  /\ runs = [n \in 1 .. MaxTasks |-> 0]

Goto(t, l) == pc' = [pc EXCEPT ![t] = l]

Waiting == {w \in Workers : pc[w] = "wait"}

\* t goes on at l, and the workers in S leave cv_.wait.
GotoWaking(t, l, S) ==
  pc' = [u \in Threads |-> IF u = t THEN l ELSE IF u \in S THEN "loop" ELSE pc[u]]

-----------------------------------------------------------------------------
(* submit() and enqueue(), by a client or by a running task.  While the    *)
(* pool is shutting down enqueue throws and nothing changes.               *)

Enqueue(t) ==
  /\ pc[t] = IF t \in Workers THEN "run" ELSE "idle"
  /\ ~shutting_down_
  /\ accepted < MaxTasks
  /\ accepted' = accepted + 1
  /\ tasks_' = Append(tasks_, accepted')
  /\ Goto(t, "notify_one")
  /\ UNCHANGED <<shutting_down_, held, runs>>

NotifyOne(t) ==
  /\ pc[t] = "notify_one"
  /\ \E S \in SUBSET Waiting :
       /\ Cardinality(S) = IF Waiting = {} THEN 0 ELSE 1
       /\ GotoWaking(t, IF t \in Workers THEN "run" ELSE "idle", S)
  /\ UNCHANGED data

-----------------------------------------------------------------------------
(* worker_loop() *)

\* Mutant: the front task is copied and popped after it has run.
TakeCopy(w) ==
  /\ pc[w] = "loop"
  /\ tasks_ # <<>>
  /\ held' = [held EXCEPT ![w] = Head(tasks_)]
  /\ Goto(w, "run")
  /\ UNCHANGED <<tasks_, shutting_down_, accepted, runs>>

Take(w) ==
  /\ pc[w] = "loop"
  /\ tasks_ # <<>>
  /\ held' = [held EXCEPT ![w] = Head(tasks_)]
  /\ tasks_' = Tail(tasks_)
  /\ Goto(w, "run")
  /\ UNCHANGED <<shutting_down_, accepted, runs>>

Run(w) ==
  /\ pc[w] = "run"
  /\ runs' = [runs EXCEPT ![held[w]] = @ + 1]
  /\ Goto(w, "loop")
  /\ UNCHANGED <<tasks_, shutting_down_, held, accepted>>

Exit(w) ==
  /\ pc[w] = "loop"
  /\ shutting_down_ /\ tasks_ = <<>>
  /\ Goto(w, "exited")
  /\ UNCHANGED data

Sleep(w) ==
  /\ pc[w] = "loop"
  /\ ~shutting_down_ /\ tasks_ = <<>>
  /\ Goto(w, "wait")
  /\ UNCHANGED data

\* cv_.wait may wake without a notification; it tests the predicate again.
SpuriousWake(w) == w \in Waiting /\ Goto(w, "loop") /\ UNCHANGED data

-----------------------------------------------------------------------------
(* shutdown(), and the destructor that calls it *)

\* A call that finds the flag set returns at once and waits for nobody.
Shutdown(c) ==
  /\ pc[c] \in {"idle", "closed"}
  /\ shutting_down_' = TRUE
  /\ IF shutting_down_ THEN UNCHANGED pc ELSE Goto(c, "notify_all")
  /\ UNCHANGED <<tasks_, held, accepted, runs>>

\* Mutant: shutdown() wakes one worker only.
NotifyFirst(c) ==
  /\ pc[c] = "notify_all"
  /\ \E S \in SUBSET Waiting : Cardinality(S) <= 1 /\ GotoWaking(c, "join", S)
  /\ UNCHANGED data

NotifyAll(c) ==
  pc[c] = "notify_all" /\ GotoWaking(c, "join", Waiting) /\ UNCHANGED data

Join(c) ==
  /\ pc[c] = "join"
  /\ \A w \in Workers : pc[w] = "exited"
  /\ Goto(c, "closed")
  /\ UNCHANGED data

-----------------------------------------------------------------------------
WorkerStep(w) == Take(w) \/ Run(w) \/ Exit(w) \/ Sleep(w) \/ NotifyOne(w)

Next ==
  \/ \E w \in Workers : WorkerStep(w) \/ Enqueue(w) \/ SpuriousWake(w)
  \/ \E s \in Submitters : Enqueue(s) \/ NotifyOne(s)
  \/ \E c \in Closers : Shutdown(c) \/ NotifyAll(c) \/ Join(c)

Spec == Init /\ [][Next]_vars

\* Threads inside a call run and tasks end; nobody has to make a call.
Fairness ==
  /\ \A w \in Workers : WF_vars(WorkerStep(w))
  /\ \A s \in Submitters : WF_vars(NotifyOne(s))
  /\ \A c \in Closers : WF_vars(NotifyAll(c) \/ Join(c))

FairSpec == Spec /\ Fairness

-----------------------------------------------------------------------------
(* Types; a task runs at most once.                                        *)
TypeOK ==
  /\ tasks_ \in Seq(1 .. MaxTasks)
  /\ shutting_down_ \in BOOLEAN
  /\ held \in [Workers -> 0 .. MaxTasks]
  /\ pc \in [Threads -> {"idle", "notify_one", "loop", "run", "wait", "exited",
                         "notify_all", "join", "closed"}]
  /\ accepted \in 0 .. MaxTasks
  /\ runs \in [1 .. MaxTasks -> 0 .. 1]

(* An accepted task is in exactly one place: queued once, being run by one *)
(* worker, or run once.  No interleaving of workers runs a task twice or   *)
(* loses one.                                                              *)
Holders(n) == {w \in Workers : pc[w] \in {"run", "notify_one"} /\ held[w] = n}
Places(n) == {i \in 1 .. Len(tasks_) : tasks_[i] = n}

ExactlyOnce ==
  \A n \in 1 .. MaxTasks :
    Cardinality(Places(n)) + Cardinality(Holders(n)) + runs[n]
      = IF n <= accepted THEN 1 ELSE 0

(* When the shutdown() that set the flag has returned, every task that was *)
(* ever accepted has run.                                                  *)
ShutdownRunsAll ==
  \A c \in Closers : pc[c] = "closed" => \A n \in 1 .. accepted : runs[n] = 1

(* Every accepted task runs, also when nobody calls shutdown().            *)
TasksComplete == \A n \in 1 .. MaxTasks : accepted >= n ~> runs[n] = 1

(* shutdown() returns: no worker sleeps through it.                        *)
ShutdownReturns ==
  \A c \in Closers : pc[c] = "notify_all" ~> pc[c] = "closed"

-----------------------------------------------------------------------------
\* No thread has two roles, and there is a worker at least.
RolesApart ==
  /\ IsFiniteSet(Workers) /\ Workers # {} /\ MaxTasks \in Nat
  /\ Workers \cap (Submitters \cup Closers) = {} /\ Submitters \cap Closers = {}

\* Where a thread may be.
Labels == {"idle", "notify_one", "loop", "run", "wait", "exited",
           "notify_all", "join", "closed"}

\* What each thread may be doing.
Roles ==
  /\ \A w \in Workers : pc[w] \in {"loop", "run", "notify_one", "wait", "exited"}
  /\ \A s \in Submitters : pc[s] \in {"idle", "notify_one"}
  /\ \A c \in Closers : pc[c] \in {"idle", "notify_all", "join", "closed"}

\* w holds a task.
Busy(w) == pc[w] \in {"run", "notify_one"}

\* How many tasks the workers have taken.
Taken == accepted - Len(tasks_)

\* The queue holds the tasks accepted last, in order; every other one is held
\* by one worker or has run.
Placed ==
  /\ Taken \in Nat
  /\ \A i \in 1 .. Len(tasks_) : tasks_[i] = Taken + i
  /\ \A w \in Workers : Busy(w) => held[w] \in 1 .. Taken /\ runs[held[w]] = 0
  /\ \A v, w \in Workers : Busy(v) /\ Busy(w) /\ held[v] = held[w] => v = w
  /\ \A n \in 1 .. MaxTasks :
       runs[n] = 0 <=> n > Taken \/ \E w \in Workers : Busy(w) /\ held[w] = n

\* A worker that has left finds no task any more, and whoever joined the
\* workers knows.
Ending ==
  /\ \A w \in Workers : pc[w] = "exited" => shutting_down_ /\ tasks_ = <<>>
  /\ \A c \in Closers : pc[c] = "closed" => /\ shutting_down_ /\ tasks_ = <<>>
                                            /\ \A w \in Workers : pc[w] = "exited"

\* What every step keeps.
IInv == TypeOK /\ Roles /\ Placed /\ Ending
=============================================================================
