--------------------------- MODULE SerialExecutor ---------------------------
(***************************************************************************)
(* SerialExecutor of exercises/concurrency/12_serial_executor: one worker, *)
(* one FIFO of tasks, and one condition variable that the worker and every *)
(* drain() wait on.  A critical section under mtx_ is one action; what the *)
(* code does with the mutex released (run the task, notify, join) is an    *)
(* action of its own.  Tasks are numbered in the order they are accepted.  *)
(***************************************************************************)
EXTENDS Integers, Sequences

CONSTANTS
  Submitters,   \* threads that call submit()
  Drainers,     \* threads that call drain()
  Closer,       \* the thread that calls shutdown() or the destructor
  Worker,       \* worker_
  MaxTasks      \* bound: how many tasks are ever submitted

Threads == Submitters \cup Drainers \cup {Closer, Worker}

ASSUME RolesAssumption == /\ Closer # Worker
                          /\ {Closer, Worker} \cap (Submitters \cup Drainers) = {}
                          /\ Submitters \cap Drainers = {}
ASSUME MaxTasksAssumption == MaxTasks \in Nat

VARIABLES
  tasks_, in_flight_, shutting_down_,
  job,        \* the task that worker_loop() popped last
  pc,         \* where each thread is; "wait" is blocked in cv_.wait
  accepted,   \* how many tasks enqueue() has accepted
  finished,   \* the tasks that have run, in that order
  asked       \* asked[d]: the value of accepted when d called drain()

data == <<tasks_, in_flight_, shutting_down_, job, accepted, finished, asked>>
vars == <<data, pc>>

Init ==
  /\ tasks_ = <<>>
  /\ in_flight_ = 0
  /\ shutting_down_ = FALSE
  /\ job = 0
  /\ pc = [t \in Threads |-> IF t = Worker THEN "loop" ELSE "idle"]
  /\ accepted = 0
  /\ finished = <<>>
  /\ asked = [d \in Drainers |-> 0]

Goto(t, l) == pc' = [pc EXCEPT ![t] = l]

Waiting == {t \in Threads : pc[t] = "wait"}

\* A woken worker goes round its loop, a woken drain() tests its predicate.
Resume(t) == IF t = Worker THEN "loop" ELSE "drain"

\* t goes on at l and the threads in S leave cv_.wait.
GotoWaking(t, l, S) ==
  pc' = [u \in Threads |->
           IF u = t THEN l ELSE IF u \in S THEN Resume(u) ELSE pc[u]]

\* cv_.wait may return without a notification.
SpuriousWake(t) ==
  /\ t \in Waiting
  /\ Goto(t, Resume(t))
  /\ UNCHANGED data

-----------------------------------------------------------------------------
(* submit() and enqueue(), by a client or by the running task.  After      *)
(* shutdown() enqueue throws and nothing changes.                          *)

Enqueue(t) ==
  /\ pc[t] = IF t = Worker THEN "run" ELSE "idle"
  /\ ~shutting_down_
  /\ accepted < MaxTasks
  /\ accepted' = accepted + 1
  /\ tasks_' = Append(tasks_, accepted')
  /\ Goto(t, "notify_one")
  /\ UNCHANGED <<in_flight_, shutting_down_, job, finished, asked>>

\* Mutant: enqueue() forgets to notify.
NotifyNobody(t) ==
  /\ pc[t] = "notify_one"
  /\ Goto(t, IF t = Worker THEN "run" ELSE "idle")
  /\ UNCHANGED data

\* cv_.notify_one() with the mutex released: whoever waits may get it.
NotifyOne(t) ==
  /\ pc[t] = "notify_one"
  /\ \E S \in SUBSET Waiting :
       /\ IF Waiting = {} THEN S = {} ELSE \E w \in Waiting : S = {w}
       /\ GotoWaking(t, IF t = Worker THEN "run" ELSE "idle", S)
  /\ UNCHANGED data

-----------------------------------------------------------------------------
(* worker_loop() *)

\* Mutant: the newest task is taken.
TakeNewest ==
  /\ pc[Worker] = "loop"
  /\ tasks_ # <<>>
  /\ job' = tasks_[Len(tasks_)]
  /\ tasks_' = SubSeq(tasks_, 1, Len(tasks_) - 1)
  /\ in_flight_' = in_flight_ + 1
  /\ Goto(Worker, "run")
  /\ UNCHANGED <<shutting_down_, accepted, finished, asked>>

TakeJob ==
  /\ pc[Worker] = "loop"
  /\ tasks_ # <<>>
  /\ job' = Head(tasks_)
  /\ tasks_' = Tail(tasks_)
  /\ in_flight_' = in_flight_ + 1
  /\ Goto(Worker, "run")
  /\ UNCHANGED <<shutting_down_, accepted, finished, asked>>

\* job() ends, by a return or by an exception its packaged_task captures.
RunJob ==
  /\ pc[Worker] = "run"
  /\ finished' = Append(finished, job)
  /\ Goto(Worker, "relock")
  /\ UNCHANGED <<tasks_, in_flight_, shutting_down_, job, accepted, asked>>

\* Under the lock again: --in_flight_ and notify_all().
Complete ==
  /\ pc[Worker] = "relock"
  /\ in_flight_' = in_flight_ - 1
  /\ GotoWaking(Worker, "loop", Waiting)
  /\ UNCHANGED <<tasks_, shutting_down_, job, accepted, finished, asked>>

\* Mutant: the flag is tested before the queue.
ExitAtOnce ==
  /\ pc[Worker] = "loop"
  /\ shutting_down_
  /\ Goto(Worker, "exited")
  /\ UNCHANGED data

Exit ==
  /\ pc[Worker] = "loop"
  /\ tasks_ = <<>>
  /\ shutting_down_
  /\ Goto(Worker, "exited")
  /\ UNCHANGED data

Sleep ==
  /\ pc[Worker] = "loop"
  /\ tasks_ = <<>>
  /\ ~shutting_down_
  /\ Goto(Worker, "wait")
  /\ UNCHANGED data

-----------------------------------------------------------------------------
(* drain(): cv_.wait(lock, predicate) *)

DrainCall(d) ==
  /\ pc[d] = "idle"
  /\ asked' = [asked EXCEPT ![d] = accepted]
  /\ Goto(d, "drain")
  /\ UNCHANGED <<tasks_, in_flight_, shutting_down_, job, accepted, finished>>

\* Mutant: the running task is forgotten.
QueueEmpty == tasks_ = <<>>

\* The predicate of drain().
Quiet == tasks_ = <<>> /\ in_flight_ = 0

DrainTest(d) ==
  /\ pc[d] = "drain"
  /\ Goto(d, IF Quiet THEN "idle" ELSE "wait")
  /\ UNCHANGED data

-----------------------------------------------------------------------------
(* shutdown(), and the destructor that calls it.  A second call goes the   *)
(* same way and finds the worker joined.                                   *)

Shutdown ==
  /\ pc[Closer] \in {"idle", "closed"}
  /\ shutting_down_' = TRUE
  /\ Goto(Closer, "notify_all")
  /\ UNCHANGED <<tasks_, in_flight_, job, accepted, finished, asked>>

ShutdownNotify ==
  /\ pc[Closer] = "notify_all"
  /\ GotoWaking(Closer, "join", Waiting)
  /\ UNCHANGED data

Join ==
  /\ pc[Closer] = "join"
  /\ pc[Worker] = "exited"
  /\ Goto(Closer, "closed")
  /\ UNCHANGED data

-----------------------------------------------------------------------------
WorkerStep ==
  \/ TakeJob \/ RunJob \/ Complete \/ Exit \/ Sleep \/ NotifyOne(Worker)

CloserStep == ShutdownNotify \/ Join

Next ==
  \/ WorkerStep \/ Enqueue(Worker)
  \/ \E s \in Submitters : Enqueue(s) \/ NotifyOne(s)
  \/ \E d \in Drainers : DrainCall(d) \/ DrainTest(d)
  \/ \E t \in Threads : SpuriousWake(t)
  \/ Shutdown \/ CloserStep

Spec == Init /\ [][Next]_vars

\* The scheduler runs every thread that is inside a call, tasks end, and
\* nobody is obliged to make a call.  Spurious wakeups are not relied upon.
Fairness ==
  /\ WF_vars(WorkerStep)
  /\ WF_vars(CloserStep)
  /\ \A s \in Submitters : WF_vars(NotifyOne(s))
  /\ \A d \in Drainers : WF_vars(DrainTest(d))

FairSpec == Spec /\ Fairness

-----------------------------------------------------------------------------
(* Types; in_flight_ never exceeds the one task a serial executor runs.    *)
TypeOK ==
  /\ tasks_ \in Seq(1 .. MaxTasks)
  /\ in_flight_ \in 0 .. 1
  /\ shutting_down_ \in BOOLEAN
  /\ job \in 0 .. MaxTasks
  /\ pc \in [Threads -> {"idle", "notify_one", "loop", "run", "relock", "wait",
                         "exited", "drain", "notify_all", "join", "closed"}]
  /\ accepted \in 0 .. MaxTasks
  /\ finished \in Seq(1 .. MaxTasks)
  /\ asked \in [Drainers -> 0 .. MaxTasks]

(* Every accepted task runs exactly once and in the order of acceptance:   *)
(* what has run, what runs and what is queued are together the tasks       *)
(* accepted so far.                                                        *)
Running == IF pc[Worker] \in {"run", "notify_one"} THEN <<job>> ELSE <<>>

SerialFifo == finished \o Running \o tasks_ = [n \in 1 .. accepted |-> n]

(* drain() returns only when every task accepted before the call has run,  *)
(* whatever was submitted meanwhile.                                       *)
DrainSeesAll ==
  [][\A d \in Drainers : pc[d] = "drain" /\ pc'[d] = "idle" =>
       asked[d] <= Len(finished)]_vars

(* shutdown() returns only when every accepted task has run.               *)
ShutdownRunsAll == pc[Closer] = "closed" => Len(finished) = accepted

(* shutdown() returns.                                                     *)
ShutdownReturns == pc[Closer] = "notify_all" ~> pc[Closer] = "closed"

(* Every accepted task runs, if nobody makes another call.                 *)
TasksComplete == \A n \in 1 .. MaxTasks : accepted >= n ~> Len(finished) >= n

(* Every accepted task runs as long as nobody calls drain(), which sleeps  *)
(* on the condition variable of the worker.                                *)
TasksCompleteUndrained == [](\A d \in Drainers : pc[d] = "idle") => TasksComplete

-----------------------------------------------------------------------------
\* What each thread may be doing.
Roles ==
  /\ pc[Worker] \in {"loop", "run", "notify_one", "relock", "wait", "exited"}
  /\ pc[Closer] \in {"idle", "notify_all", "join", "closed"}
  /\ \A s \in Submitters : pc[s] \in {"idle", "notify_one"}
  /\ \A d \in Drainers : pc[d] \in {"idle", "drain", "wait"}

\* The worker holds a task.
Busy == pc[Worker] \in {"run", "notify_one"}

\* How many tasks the worker has taken.
Taken == Len(finished) + (IF Busy THEN 1 ELSE 0)

\* SerialFifo, task by task.
InTurn ==
  /\ accepted = Taken + Len(tasks_)
  /\ \A i \in 1 .. Len(finished) : finished[i] = i
  /\ Busy => job = Taken
  /\ \A i \in 1 .. Len(tasks_) : tasks_[i] = Taken + i

\* in_flight_ is 1 from the step that takes a task to the one that counts it.
\* A worker that has left finds no task any more, and whoever joined it knows.
Ending ==
  /\ in_flight_ = IF Busy \/ pc[Worker] = "relock" THEN 1 ELSE 0
  /\ pc[Worker] = "exited" => shutting_down_ /\ tasks_ = <<>>
  /\ pc[Closer] = "closed" => pc[Worker] = "exited"
  /\ \A d \in Drainers : asked[d] <= accepted

\* What every step keeps.
IInv == TypeOK /\ Roles /\ InTurn /\ Ending
=============================================================================
