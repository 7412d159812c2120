---------------------------- MODULE MCExecutors ----------------------------
(***************************************************************************)
(* Model checking of what must be completed: the tasks of the executors    *)
(* and the values of an MPMC queue that one consumer polls.  They share    *)
(* nothing; active names the one a behaviour exercises.                    *)
(*                                                                         *)
(* Then the proofs of what the executors keep.                             *)
(***************************************************************************)
EXTENDS SerialExecutor, FiniteSetTheorems, SequenceTheorems, TLAPS

CONSTANTS
  Workers, Closers,
  Producers, OneConsumer, RingSize, PerProducer, NoValue

VARIABLES
  active,
  pTasks, pShuttingDown, pHeld, pPc, pAccepted, pRuns,
  mHead, mTail, mValue, mSeq, mPc, mPos, mSent, mLog, mGot

pVars == <<pTasks, pShuttingDown, pHeld, pPc, pAccepted, pRuns>>
mVars == <<mHead, mTail, mValue, mSeq, mPc, mPos, mSent, mLog, mGot>>

Pool == INSTANCE ThreadPool WITH tasks_ <- pTasks,
        shutting_down_ <- pShuttingDown, held <- pHeld, pc <- pPc,
        accepted <- pAccepted, runs <- pRuns

Mpsc == INSTANCE MpmcQueue WITH Capacity <- RingSize, MaxPush <- PerProducer,
        Consumers <- OneConsumer, head_ <- mHead, tail_ <- mTail,
        value <- mValue, seq <- mSeq, pc <- mPc, pos <- mPos, sent <- mSent,
        log <- mLog, got <- mGot

MCInit ==
  /\ active \in {"serial", "pool", "mpsc"}
  /\ Init /\ Pool!Init /\ Mpsc!Init

MCNext ==
  /\ UNCHANGED active
  /\ \/ active = "serial" /\ Next /\ UNCHANGED <<pVars, mVars>>
     \/ active = "pool" /\ Pool!Next /\ UNCHANGED <<vars, mVars>>
     \/ active = "mpsc" /\ Mpsc!Next /\ UNCHANGED <<vars, pVars>>

\* The fairness of each component, of the active one.
MCFairness ==
  /\ \A p \in Producers : /\ WF_mVars(active = "mpsc" /\ Mpsc!PushStep(p))
                          /\ SF_mVars(active = "mpsc" /\ Mpsc!ClaimTail(p))
  /\ \A c \in OneConsumer : /\ WF_mVars(active = "mpsc" /\ Mpsc!PopStep(c))
                            /\ SF_mVars(active = "mpsc" /\ Mpsc!ClaimHead(c))
  /\ WF_vars(active = "serial" /\ WorkerStep)
  /\ WF_vars(active = "serial" /\ CloserStep)
  /\ \A s \in Submitters : /\ WF_vars(active = "serial" /\ NotifyOne(s))
                           /\ WF_pVars(active = "pool" /\ Pool!NotifyOne(s))
  /\ \A d \in Drainers : WF_vars(active = "serial" /\ DrainTest(d))
  /\ \A v \in Workers : WF_pVars(active = "pool" /\ Pool!WorkerStep(v))
  /\ \A c \in Closers :
       WF_pVars(active = "pool" /\ (Pool!NotifyAll(c) \/ Pool!Join(c)))

MCSpec == MCInit /\ [][MCNext]_<<active, vars, pVars, mVars>> /\ MCFairness

-----------------------------------------------------------------------------
(* The executors' worker loops: an accepted task is queued, held or run,   *)
(* exactly one of them and once; in SerialExecutor one at a time and in    *)
(* the order of submission.                                                *)
TasksRunOnce == TypeOK /\ SerialFifo /\ Pool!TypeOK /\ Pool!ExactlyOnce

(* shutdown(), of the call that set the flag: it returns only when all     *)
(* accepted tasks have run.                                                *)
ShutdownsRunAll == ShutdownRunsAll /\ Pool!ShutdownRunsAll

(* enqueue(): no wakeup is lost, every accepted task runs; in              *)
(* SerialExecutor as long as nobody calls drain().                         *)
AcceptedTasksComplete == TasksCompleteUndrained /\ Pool!TasksComplete

(* shutdown() returns: no worker sleeps through it.                        *)
ShutdownsReturn == ShutdownReturns /\ Pool!ShutdownReturns

(* MpmcQueue: while a consumer polls, every value is delivered.            *)
MpmcAllDelivered == active = "mpsc" => Mpsc!AllDelivered

-----------------------------------------------------------------------------
(* SerialExecutor *)

(* The steps that only move threads, and neither start nor end a task.     *)
LEMMA MovesKeep ==
  ASSUME IInv, UNCHANGED data, TypeOK', Roles', Busy' <=> Busy,
         pc'[Worker] = "relock" <=> pc[Worker] = "relock",
         pc'[Worker] = "exited" => shutting_down_ /\ tasks_ = <<>>,
         pc'[Closer] = "closed" => pc'[Worker] = "exited"
  PROVE  IInv'
<1>1. Taken' = Taken
  BY DEF Taken, data
<1>2. InTurn'
  BY <1>1 DEF IInv, InTurn, data
<1>3. Ending'
  BY DEF IInv, Ending, data
<1> QED
  BY <1>2, <1>3 DEF IInv

(* A notification moves the thread that gives it, and threads that wait.   *)
LEMMA Waking ==
  ASSUME IInv, NEW t \in Threads, NEW l, NEW S \in SUBSET Waiting, GotoWaking(t, l, S),
         l \in {"idle", "run", "loop", "join"}, pc[t] # "wait"
  PROVE  /\ pc' \in [Threads -> {"idle", "notify_one", "loop", "run", "relock", "wait",
                                 "exited", "drain", "notify_all", "join", "closed"}]
         /\ pc'[t] = l
         /\ \A u \in Threads \ {t} : \/ pc'[u] = pc[u]
                                     \/ /\ pc[u] = "wait"
                                        /\ pc'[u] = IF u = Worker THEN "loop" ELSE "drain"
BY DEF IInv, TypeOK, GotoWaking, Waiting, Resume

(* enqueue(), by a submitter or by the task that runs: the new task is     *)
(* last in the queue, and no worker has left while tasks are accepted.     *)
LEMMA EnqueueKeeps ==
  ASSUME IInv, NEW t \in Submitters \cup {Worker}, Enqueue(t)
  PROVE  IInv'
<1> USE RolesAssumption, MaxTasksAssumption
<1>1. /\ t \in Threads /\ pc' = [pc EXCEPT ![t] = "notify_one"]
      /\ accepted \in Nat /\ accepted < MaxTasks /\ accepted' = accepted + 1
      /\ tasks_ \in Seq(1 .. MaxTasks) /\ tasks_' = Append(tasks_, accepted + 1)
      /\ ~shutting_down_
      /\ pc[t] = IF t = Worker THEN "run" ELSE "idle"
      /\ UNCHANGED <<in_flight_, shutting_down_, job, finished, asked>>
  BY DEF Enqueue, Goto, Threads, IInv, TypeOK
<1>2. accepted + 1 \in 1 .. MaxTasks /\ tasks_' \in Seq(1 .. MaxTasks)
  BY <1>1
<1>3. TypeOK'
  BY <1>1, <1>2 DEF IInv, TypeOK
<1>4. Roles'
  BY <1>1 DEF IInv, TypeOK, Roles, Threads
<1>5. /\ Busy' <=> Busy
      /\ pc'[Worker] = "relock" <=> pc[Worker] = "relock"
      /\ pc'[Worker] # "exited" /\ pc[Worker] # "exited" /\ pc'[Closer] = pc[Closer]
  BY <1>1 DEF IInv, Roles, TypeOK, Busy, Threads, Ending
<1>6. Taken' = Taken /\ Taken \in Nat
  BY <1>1, <1>5, LenProperties DEF Taken, IInv, TypeOK
<1>7. /\ Len(tasks_') = Len(tasks_) + 1 /\ Len(tasks_) \in Nat
      /\ \A i \in 1 .. Len(tasks_) : tasks_'[i] = tasks_[i]
      /\ tasks_'[Len(tasks_) + 1] = accepted + 1
  BY <1>1
<1>8. InTurn'
  <2>1. accepted = Taken + Len(tasks_) /\ \A i \in 1 .. Len(tasks_) : tasks_[i] = Taken + i
    BY DEF IInv, InTurn
  <2>2. accepted' = Taken' + Len(tasks_')
    BY <1>1, <1>6, <1>7, <2>1
  <2>3. ASSUME NEW i \in 1 .. Len(tasks_') PROVE tasks_'[i] = Taken' + i
    <3>1. CASE i \in 1 .. Len(tasks_)
      BY <1>6, <1>7, <2>1, <3>1
    <3>2. CASE i = Len(tasks_) + 1
      BY <1>6, <1>7, <2>1, <3>2
    <3> QED
      BY <1>7, <3>1, <3>2
  <2> QED
    BY <1>1, <1>5, <1>6, <2>2, <2>3 DEF IInv, InTurn
<1>9. Ending'
  BY <1>1, <1>5 DEF IInv, Ending, TypeOK
<1> QED
  BY <1>3, <1>4, <1>8, <1>9 DEF IInv

(* worker_loop() takes the task at the front: the one after those it took  *)
(* before.                                                                 *)
LEMMA TakeKeeps ==
  ASSUME IInv, TakeJob
  PROVE  IInv'
<1> USE RolesAssumption, MaxTasksAssumption
<1>1. /\ Worker \in Threads /\ pc[Worker] = "loop" /\ pc' = [pc EXCEPT ![Worker] = "run"]
      /\ tasks_ \in Seq(1 .. MaxTasks) /\ tasks_ # <<>>
      /\ tasks_' = Tail(tasks_) /\ job' = Head(tasks_) /\ in_flight_' = in_flight_ + 1
      /\ UNCHANGED <<shutting_down_, accepted, finished, asked>>
  BY DEF TakeJob, Goto, Threads, IInv, TypeOK
<1>2. /\ Len(tasks_) \in Nat \ {0} /\ Len(tasks_') = Len(tasks_) - 1
      /\ job' = tasks_[1] /\ job' \in 1 .. MaxTasks /\ tasks_' \in Seq(1 .. MaxTasks)
      /\ \A i \in 1 .. Len(tasks_') : tasks_'[i] = tasks_[i + 1]
  BY <1>1
<1>3. ~Busy /\ Busy' /\ pc'[Worker] = "run" /\ pc'[Closer] = pc[Closer]
  BY <1>1 DEF Busy, IInv, TypeOK, Threads
<1>4. in_flight_ = 0
  BY <1>1, <1>3 DEF IInv, Ending
<1>5. TypeOK'
  BY <1>1, <1>2, <1>4 DEF IInv, TypeOK
<1>6. Roles'
  BY <1>1 DEF IInv, TypeOK, Roles, Threads
<1>7. Taken' = Taken + 1 /\ Taken \in Nat
  BY <1>1, <1>3, LenProperties DEF Taken, IInv, TypeOK
<1>8. InTurn'
  <2>1. accepted = Taken + Len(tasks_) /\ \A i \in 1 .. Len(tasks_) : tasks_[i] = Taken + i
    BY DEF IInv, InTurn
  <2>2. accepted' = Taken' + Len(tasks_') /\ job' = Taken'
    BY <1>1, <1>2, <1>7, <2>1
  <2>3. \A i \in 1 .. Len(tasks_') : tasks_'[i] = Taken' + i
    BY <1>2, <1>7, <2>1
  <2> QED
    BY <1>1, <2>2, <2>3 DEF IInv, InTurn
<1>9. Ending'
  BY <1>1, <1>3, <1>4 DEF IInv, Ending
<1> QED
  BY <1>5, <1>6, <1>8, <1>9 DEF IInv

(* The task runs and is the next of the finished ones.                     *)
LEMMA RunKeeps ==
  ASSUME IInv, RunJob
  PROVE  IInv'
<1> USE RolesAssumption, MaxTasksAssumption
<1>1. /\ Worker \in Threads /\ pc[Worker] = "run" /\ pc' = [pc EXCEPT ![Worker] = "relock"]
      /\ finished \in Seq(1 .. MaxTasks) /\ finished' = Append(finished, job)
      /\ UNCHANGED <<tasks_, in_flight_, shutting_down_, job, accepted, asked>>
  BY DEF RunJob, Goto, Threads, IInv, TypeOK
<1>2. Busy /\ ~Busy' /\ pc'[Worker] = "relock" /\ pc'[Closer] = pc[Closer]
  BY <1>1 DEF Busy, IInv, TypeOK, Threads
<1>3. Len(finished) \in Nat /\ Taken = Len(finished) + 1 /\ job = Taken
  BY <1>1, <1>2 DEF Taken, IInv, InTurn
<1>4. job \in 1 .. MaxTasks
  BY <1>3 DEF IInv, TypeOK
<1>5. /\ Len(finished') = Len(finished) + 1 /\ finished' \in Seq(1 .. MaxTasks)
      /\ \A i \in 1 .. Len(finished) : finished'[i] = finished[i]
      /\ finished'[Len(finished) + 1] = job
  BY <1>1, <1>4
<1>6. TypeOK'
  BY <1>1, <1>5 DEF IInv, TypeOK
<1>7. Roles'
  BY <1>1 DEF IInv, TypeOK, Roles, Threads
<1>8. Taken' = Taken
  BY <1>2, <1>3, <1>5 DEF Taken
<1>9. InTurn'
  <2>1. \A i \in 1 .. Len(finished') : finished'[i] = i
    BY <1>3, <1>5 DEF IInv, InTurn
  <2> QED
    BY <1>1, <1>2, <1>8, <2>1 DEF IInv, InTurn
<1>10. Ending'
  BY <1>1, <1>2 DEF IInv, Ending
<1> QED
  BY <1>6, <1>7, <1>9, <1>10 DEF IInv

(* The worker counts the task as done and wakes the others.                *)
LEMMA CompleteKeeps ==
  ASSUME IInv, Complete
  PROVE  IInv'
<1> USE RolesAssumption, MaxTasksAssumption
<1>1. /\ Worker \in Threads /\ pc[Worker] = "relock" /\ GotoWaking(Worker, "loop", Waiting)
      /\ in_flight_' = in_flight_ - 1
      /\ UNCHANGED <<tasks_, shutting_down_, job, accepted, finished, asked>>
  BY DEF Complete, Threads
<1>2. in_flight_ = 1
  BY <1>1 DEF IInv, Ending
<1>3. /\ pc' \in [Threads -> {"idle", "notify_one", "loop", "run", "relock", "wait",
                              "exited", "drain", "notify_all", "join", "closed"}]
      /\ pc'[Worker] = "loop"
      /\ \A u \in Threads \ {Worker} : \/ pc'[u] = pc[u]
                                       \/ /\ pc[u] = "wait"
                                          /\ pc'[u] = IF u = Worker THEN "loop" ELSE "drain"
  BY <1>1, Waking
<1>4. TypeOK'
  BY <1>1, <1>2, <1>3 DEF IInv, TypeOK
<1>5. Roles' /\ pc'[Closer] = pc[Closer]
  BY <1>1, <1>3 DEF IInv, Roles, Threads
<1>6. ~Busy /\ ~Busy'
  BY <1>1, <1>3 DEF Busy
<1>7. Taken' = Taken
  BY <1>1, <1>6 DEF Taken
<1>8. InTurn'
  BY <1>1, <1>6, <1>7 DEF IInv, InTurn
<1>9. Ending'
  BY <1>1, <1>2, <1>3, <1>5, <1>6 DEF IInv, Ending
<1> QED
  BY <1>4, <1>5, <1>8, <1>9 DEF IInv

(* notify_one() after the unlock of enqueue().                             *)
LEMMA NotifyKeeps ==
  ASSUME IInv, NEW t \in Submitters \cup {Worker}, NotifyOne(t)
  PROVE  IInv'
<1> USE RolesAssumption
<1> DEFINE l == IF t = Worker THEN "run" ELSE "idle"
<1>1. /\ t \in Threads /\ pc[t] = "notify_one" /\ UNCHANGED data
      /\ \E S \in SUBSET Waiting : GotoWaking(t, l, S)
  BY DEF NotifyOne, Threads
<1>2. /\ pc' \in [Threads -> {"idle", "notify_one", "loop", "run", "relock", "wait",
                              "exited", "drain", "notify_all", "join", "closed"}]
      /\ pc'[t] = l
      /\ \A u \in Threads \ {t} : \/ pc'[u] = pc[u]
                                  \/ /\ pc[u] = "wait"
                                     /\ pc'[u] = IF u = Worker THEN "loop" ELSE "drain"
  <2>1. l \in {"idle", "run", "loop", "join"}
    OBVIOUS
  <2> HIDE DEF l
  <2> QED
    BY <1>1, <2>1, Waking
<1>3. TypeOK'
  BY <1>1, <1>2 DEF IInv, TypeOK, data
<1>4. Roles'
  BY <1>1, <1>2 DEF IInv, Roles, Threads
<1>5. /\ Busy' <=> Busy
      /\ pc'[Worker] = "relock" <=> pc[Worker] = "relock"
      /\ pc'[Worker] = "exited" <=> pc[Worker] = "exited"
      /\ pc'[Closer] = pc[Closer]
  BY <1>1, <1>2 DEF IInv, Roles, Threads, Busy
<1> QED
  BY <1>1, <1>3, <1>4, <1>5, MovesKeep DEF IInv, Ending

(* The other steps change where one thread is.                             *)
LEMMA StepsKeep ==
  ASSUME IInv, \/ Exit \/ Sleep \/ Join
               \/ \E d \in Drainers : DrainTest(d)
               \/ \E t \in Threads : SpuriousWake(t)
  PROVE  IInv'
<1> USE RolesAssumption
<1>1. UNCHANGED data
  BY DEF Exit, Sleep, Join, DrainTest, SpuriousWake
<1>2. PICK t \in Threads, l \in {"exited", "wait", "closed", "idle", "loop", "drain"} :
        /\ pc' = [pc EXCEPT ![t] = l]
        /\ \/ t = Worker /\ pc[t] = "loop" /\ l = "exited" /\ tasks_ = <<>> /\ shutting_down_
           \/ t = Worker /\ pc[t] = "loop" /\ l = "wait"
           \/ t = Closer /\ l = "closed" /\ pc[Worker] = "exited"
           \/ t \in Drainers /\ l \in {"idle", "wait"}
           \/ t = Worker /\ pc[t] = "wait" /\ l = "loop"
           \/ t \in Drainers /\ pc[t] = "wait" /\ l = "drain"
  <2>1. CASE Exit \/ Sleep \/ Join
    BY <2>1 DEF Exit, Sleep, Join, Goto, Threads
  <2>2. CASE \E d \in Drainers : DrainTest(d)
    BY <2>2 DEF DrainTest, Goto, Threads
  <2>3. CASE \E t \in Threads : SpuriousWake(t)
    <3> PICK t \in Threads : pc[t] = "wait" /\ pc' = [pc EXCEPT ![t] = Resume(t)]
      BY <2>3 DEF SpuriousWake, Waiting, Goto
    <3>1. t = Worker \/ t \in Drainers
      BY DEF IInv, Roles, Threads
    <3> QED
      BY <3>1 DEF Resume
  <2> QED
    BY <2>1, <2>2, <2>3
<1>3. TypeOK'
  BY <1>1, <1>2 DEF IInv, TypeOK, data
<1>4. Roles'
  BY <1>2 DEF IInv, Roles, TypeOK, Threads
<1>5. /\ Busy' <=> Busy
      /\ pc'[Worker] = "relock" <=> pc[Worker] = "relock"
      /\ pc'[Worker] = "exited" => shutting_down_ /\ tasks_ = <<>>
      /\ pc'[Closer] = "closed" => pc'[Worker] = "exited"
  BY <1>2 DEF IInv, Roles, TypeOK, Threads, Busy, Ending
<1> QED
  BY <1>1, <1>3, <1>4, <1>5, MovesKeep

(* shutdown() and drain() are called; shutdown() notifies.                 *)
LEMMA CallsKeep ==
  ASSUME IInv, Shutdown \/ ShutdownNotify \/ \E d \in Drainers : DrainCall(d)
  PROVE  IInv'
<1> USE RolesAssumption, MaxTasksAssumption
<1>1. CASE Shutdown
  <2>1. /\ Closer \in Threads /\ pc' = [pc EXCEPT ![Closer] = "notify_all"]
        /\ shutting_down_' = TRUE
        /\ UNCHANGED <<tasks_, in_flight_, job, accepted, finished, asked>>
    BY <1>1 DEF Shutdown, Goto, Threads
  <2>2. TypeOK' /\ Roles' /\ pc'[Worker] = pc[Worker] /\ pc'[Closer] = "notify_all"
    BY <2>1 DEF IInv, TypeOK, Roles, Threads
  <2>3. (Busy' <=> Busy) /\ Taken' = Taken
    BY <2>1, <2>2 DEF Busy, Taken
  <2>4. InTurn' /\ Ending'
    BY <2>1, <2>2, <2>3 DEF IInv, InTurn, Ending
  <2> QED
    BY <2>2, <2>4 DEF IInv
<1>2. CASE ShutdownNotify
  <2>1. /\ Closer \in Threads /\ pc[Closer] = "notify_all" /\ UNCHANGED data
        /\ GotoWaking(Closer, "join", Waiting)
    BY <1>2 DEF ShutdownNotify, Threads
  <2>2. /\ pc' \in [Threads -> {"idle", "notify_one", "loop", "run", "relock", "wait",
                                "exited", "drain", "notify_all", "join", "closed"}]
        /\ pc'[Closer] = "join"
        /\ \A u \in Threads \ {Closer} : \/ pc'[u] = pc[u]
                                         \/ /\ pc[u] = "wait"
                                            /\ pc'[u] = IF u = Worker THEN "loop" ELSE "drain"
    BY <2>1, Waking
  <2>3. TypeOK'
    BY <2>1, <2>2 DEF IInv, TypeOK, data
  <2>4. Roles'
    BY <2>1, <2>2 DEF IInv, Roles, Threads
  <2>5. /\ Busy' <=> Busy
        /\ pc'[Worker] = "relock" <=> pc[Worker] = "relock"
        /\ pc'[Worker] = "exited" <=> pc[Worker] = "exited"
    BY <2>1, <2>2 DEF IInv, Roles, Threads, Busy
  <2> QED
    BY <2>1, <2>2, <2>3, <2>4, <2>5, MovesKeep DEF IInv, Ending
<1>3. ASSUME NEW d \in Drainers, DrainCall(d) PROVE IInv'
  <2>1. /\ d \in Threads /\ pc' = [pc EXCEPT ![d] = "drain"]
        /\ asked' = [asked EXCEPT ![d] = accepted]
        /\ UNCHANGED <<tasks_, in_flight_, shutting_down_, job, accepted, finished>>
    BY <1>3 DEF DrainCall, Goto, Threads
  <2>2. TypeOK' /\ Roles' /\ pc'[Worker] = pc[Worker] /\ pc'[Closer] = pc[Closer]
    BY <2>1 DEF IInv, TypeOK, Roles, Threads
  <2>3. (Busy' <=> Busy) /\ Taken' = Taken
    BY <2>1, <2>2 DEF Busy, Taken
  <2>4. InTurn'
    BY <2>1, <2>3 DEF IInv, InTurn
  <2>5. Ending'
    BY <2>1, <2>2, <2>3 DEF IInv, Ending, TypeOK
  <2> QED
    BY <2>2, <2>4, <2>5 DEF IInv
<1> QED
  BY <1>1, <1>2, <1>3

(* Every step keeps IInv.                                                  *)
LEMMA Inductive ==
  ASSUME IInv, [Next]_vars
  PROVE  IInv'
<1>1. CASE UNCHANGED vars
  <2>1. UNCHANGED data /\ pc' = pc
    BY <1>1 DEF vars
  <2> QED
    BY <2>1, MovesKeep DEF IInv, TypeOK, Roles, Busy, Ending, data
<1>2. CASE Next
  BY <1>2, EnqueueKeeps, NotifyKeeps, TakeKeeps, RunKeeps, CompleteKeeps, StepsKeep, CallsKeep
     DEF Next, WorkerStep, CloserStep
<1> QED
  BY <1>1, <1>2

(* A new executor.                                                         *)
LEMMA InitHolds == ASSUME Init PROVE IInv
<1> USE RolesAssumption, MaxTasksAssumption
<1>1. TypeOK
  <2>1. <<>> \in Seq(1 .. MaxTasks) /\ 0 \in 0 .. MaxTasks /\ 0 \in 0 .. 1
    OBVIOUS
  <2>2. /\ pc \in [Threads -> {"idle", "notify_one", "loop", "run", "relock", "wait",
                               "exited", "drain", "notify_all", "join", "closed"}]
        /\ asked \in [Drainers -> 0 .. MaxTasks]
    BY <2>1 DEF Init
  <2> QED
    BY <2>1, <2>2 DEF Init, TypeOK
<1>2. Roles /\ ~Busy
  BY DEF Init, Roles, Threads, Busy
<1>3. InTurn /\ Ending
  BY <1>2 DEF Init, InTurn, Taken, Ending, Threads
<1> QED
  BY <1>1, <1>2, <1>3 DEF IInv

(* The finished tasks, the one that runs and those in the queue are all    *)
(* the accepted ones, in order.                                            *)
LEMMA Fifo == ASSUME IInv PROVE SerialFifo
<1> USE MaxTasksAssumption
<1>1. /\ finished \in Seq(1 .. MaxTasks) /\ tasks_ \in Seq(1 .. MaxTasks)
      /\ accepted \in Nat /\ job \in Nat
  BY DEF IInv, TypeOK
<1>2. /\ Running \in Seq(Nat)
      /\ Len(Running) = IF Busy THEN 1 ELSE 0
      /\ \A i \in 1 .. Len(Running) : Running[i] = job
  BY <1>1 DEF Running, Busy
<1> DEFINE all == (finished \o Running) \o tasks_
           some == finished \o Running
<1>3. /\ finished \in Seq(Nat) /\ tasks_ \in Seq(Nat)
  BY <1>1
<1>4. /\ some \in Seq(Nat) /\ Len(some) = Len(finished) + Len(Running)
      /\ \A i \in 1 .. Len(some) : some[i] = IF i <= Len(finished) THEN finished[i]
                                            ELSE Running[i - Len(finished)]
  BY <1>2, <1>3, ConcatProperties
<1>5. /\ all \in Seq(Nat) /\ Len(all) = Len(some) + Len(tasks_)
      /\ \A i \in 1 .. Len(all) : all[i] = IF i <= Len(some) THEN some[i]
                                           ELSE tasks_[i - Len(some)]
  <2> HIDE DEF some
  <2> QED
    BY <1>3, <1>4, ConcatProperties DEF some
<1>6. Len(some) = Taken /\ Len(all) = accepted
  BY <1>2, <1>4, <1>5 DEF Taken, IInv, InTurn
<1>7. ASSUME NEW i \in 1 .. accepted PROVE all[i] = i
  <2> HIDE DEF some, all
  <2>0. /\ Len(finished) \in Nat /\ Len(tasks_) \in Nat /\ Len(some) \in Nat /\ Len(all) \in Nat
        /\ \A k \in 1 .. Len(finished) : finished[k] = k
        /\ \A k \in 1 .. Len(tasks_) : tasks_[k] = Len(some) + k
        /\ Len(all) = Len(some) + Len(tasks_)
    BY <1>3, <1>4, <1>5, <1>6, LenProperties DEF IInv, InTurn
  <2>1. CASE i <= Len(finished)
    <3>1. i \in 1 .. Len(finished) /\ i \in 1 .. Len(some) /\ i \in 1 .. Len(all)
      BY <1>2, <1>4, <1>6, <2>0, <2>1
    <3>2. all[i] = some[i]
      BY <1>5, <3>1
    <3>3. some[i] = finished[i]
      BY <1>4, <3>1
    <3> QED
      BY <2>0, <3>1, <3>2, <3>3
  <2>2. CASE Len(finished) < i /\ i <= Len(some)
    <3>1. Busy /\ Len(Running) = 1 /\ i = Len(finished) + 1 /\ i = Len(some)
      BY <1>2, <1>4, <2>0, <2>2
    <3>2. i \in 1 .. Len(some) /\ i \in 1 .. Len(all) /\ i - Len(finished) = 1 /\ ~(i <= Len(finished))
      BY <2>0, <2>2, <3>1
    <3>3. all[i] = some[i]
      BY <1>5, <3>2, <2>2
    <3>4. some[i] = Running[1]
      BY <1>4, <3>2
    <3>5. Running[1] = job
      BY <1>2, <3>1
    <3>6. job = i
      BY <1>6, <3>1 DEF IInv, InTurn
    <3> QED
      BY <3>3, <3>4, <3>5, <3>6
  <2>3. CASE Len(some) < i
    <3>1. i - Len(some) \in 1 .. Len(tasks_) /\ i \in 1 .. Len(all)
      BY <1>6, <2>0, <2>3
    <3>2. all[i] = tasks_[i - Len(some)]
      BY <1>5, <2>0, <2>3, <3>1
    <3>3. tasks_[i - Len(some)] = Len(some) + (i - Len(some))
      BY <2>0, <3>1
    <3> QED
      BY <2>0, <3>2, <3>3
  <2> QED
    BY <2>0, <2>1, <2>2, <2>3
<1>8. all = [n \in 1 .. accepted |-> n]
  <2> HIDE DEF some, all
  <2> QED
    BY <1>5, <1>6, <1>7
<1> QED
  BY <1>8 DEF SerialFifo

(* A worker that was joined has left an empty queue behind.                *)
LEMMA Shut == ASSUME IInv PROVE ShutdownRunsAll
<1>1. finished \in Seq(1 .. MaxTasks) /\ accepted \in Nat
  BY MaxTasksAssumption DEF IInv, TypeOK
<1> QED
  BY <1>1 DEF IInv, Ending, InTurn, Taken, Busy, ShutdownRunsAll

(* SerialExecutor, for any submitters, drainers and number of tasks:       *)
(* accepted tasks run once, one at a time and in the order of submission,  *)
(* and when shutdown() has returned all of them have run.                  *)
THEOREM Serial == Spec => []SerialFifo /\ []ShutdownRunsAll
<1>1. Init => IInv
  BY InitHolds
<1>2. IInv /\ [Next]_vars => IInv'
  BY Inductive
<1>3. IInv => SerialFifo /\ ShutdownRunsAll
  BY Fifo, Shut
<1> QED
  BY <1>1, <1>2, <1>3, PTL DEF Spec

(* drain(): when it returns, every task accepted before its call has run,  *)
(* though only the emptiness of the queue and the in-flight count are      *)
(* tested.                                                                 *)
THEOREM Drains == Spec => DrainSeesAll
<1>1. Init => IInv
  BY InitHolds
<1>2. IInv /\ [Next]_vars => IInv'
  BY Inductive
<1> DEFINE Seen == \A d \in Drainers : pc[d] = "drain" /\ pc'[d] = "idle" => asked[d] <= Len(finished)
<1>3. IInv /\ [Next]_vars => Seen
  <2> SUFFICES ASSUME IInv, [Next]_vars, NEW d \in Drainers, pc[d] = "drain", pc'[d] = "idle"
               PROVE  asked[d] <= Len(finished)
    OBVIOUS
  <2> USE RolesAssumption
  <2>1. d \in Threads /\ d # Worker /\ d # Closer
    BY DEF Threads
  <2>2. DrainTest(d) /\ Quiet
    <3>1. ASSUME NEW t \in Threads, NEW l, NEW S \in SUBSET Waiting, GotoWaking(t, l, S), t # d
          PROVE  FALSE
      BY <2>1, <3>1 DEF GotoWaking, Waiting, Resume
    <3>2. ASSUME NEW t \in Threads, NEW l, Goto(t, l), t # d \/ l # "idle" PROVE FALSE
      BY <2>1, <3>2 DEF Goto, IInv, TypeOK
    <3>3. Next
      BY DEF vars
    <3>4. ~WorkerStep
      <4>1. Worker \in Threads
        BY DEF Threads
      <4> QED
        BY <2>1, <3>1, <3>2, <4>1 DEF WorkerStep, TakeJob, RunJob, Complete, Exit, Sleep, NotifyOne
    <3>5. ~Enqueue(Worker) /\ \A s \in Submitters : ~Enqueue(s) /\ ~NotifyOne(s)
      BY <2>1, <3>1, <3>2 DEF Enqueue, NotifyOne, Threads
    <3>6. ~Shutdown /\ ~CloserStep
      BY <2>1, <3>1, <3>2 DEF Shutdown, CloserStep, ShutdownNotify, Join, Threads
    <3>7. \A t \in Threads : ~SpuriousWake(t)
      BY <2>1, <3>2 DEF SpuriousWake, Waiting, Resume
    <3>8. \A e \in Drainers : ~DrainCall(e) /\ (DrainTest(e) => e = d /\ Quiet)
      BY <2>1, <3>2 DEF DrainCall, DrainTest, Threads
    <3> QED
      BY <3>3, <3>4, <3>5, <3>6, <3>7, <3>8 DEF Next
  <2>3. Len(finished) \in Nat /\ accepted \in Nat /\ asked[d] \in Nat
    BY MaxTasksAssumption DEF IInv, TypeOK
  <2> QED
    BY <2>2, <2>3 DEF IInv, Ending, InTurn, Taken, Quiet
<1> QED
  BY <1>1, <1>2, <1>3, PTL DEF Spec, DrainSeesAll

-----------------------------------------------------------------------------
(* ThreadPool *)

(* Pool's Cardinality is the one that the theorems on finite sets are      *)
(* about.                                                                  *)
LEMMA PoolCardinality == ASSUME NEW S PROVE Pool!Cardinality(S) = Cardinality(S)
BY DEF Pool!Cardinality, Cardinality

(* The steps that only move threads.                                       *)
LEMMA PoolMovesKeep ==
  ASSUME Pool!RolesApart, Pool!IInv, UNCHANGED Pool!data, pPc' \in [Pool!Threads -> Pool!Labels], Pool!Roles',
         \A w \in Workers : Pool!Busy(w)' <=> Pool!Busy(w),
         Pool!Ending'
  PROVE  Pool!IInv'
<1>1. Pool!TypeOK'
  BY DEF Pool!IInv, Pool!TypeOK, Pool!data, Pool!Labels
<1>2. Pool!Taken' = Pool!Taken
  BY DEF Pool!Taken, Pool!data
<1>3. Pool!Placed'
  BY <1>2 DEF Pool!IInv, Pool!Placed, Pool!data
<1> QED
  BY <1>1, <1>3 DEF Pool!IInv

(* A notification moves the thread that gives it, and workers that wait.   *)
LEMMA PoolWaking ==
  ASSUME Pool!IInv, NEW t \in Pool!Threads, NEW l \in Pool!Labels, NEW S \in SUBSET Pool!Waiting, Pool!GotoWaking(t, l, S)
  PROVE  /\ pPc' \in [Pool!Threads -> Pool!Labels] /\ pPc'[t] = l
         /\ \A u \in Pool!Threads \ {t} : pPc'[u] = pPc[u] \/ (pPc[u] = "wait" /\ pPc'[u] = "loop")
<1>1. Pool!Waiting \subseteq Pool!Threads /\ \A u \in S : pPc[u] = "wait"
  BY DEF Pool!Waiting, Pool!Threads
<1>2. pPc \in [Pool!Threads -> Pool!Labels] /\ "loop" \in Pool!Labels
  BY DEF Pool!IInv, Pool!TypeOK, Pool!Labels
<1>3. pPc' = [u \in Pool!Threads |-> IF u = t THEN l ELSE IF u \in S THEN "loop" ELSE pPc[u]]
  BY DEF Pool!GotoWaking
<1>4. \A u \in Pool!Threads : pPc[u] \in Pool!Labels
  BY <1>2
<1>5. pPc' \in [Pool!Threads -> Pool!Labels]
  <2> HIDE DEF Pool!Labels
  <2> QED
    BY <1>2, <1>3, <1>4
<1>6. \A u \in Pool!Threads \ {t} : pPc'[u] = pPc[u] \/ (u \in S /\ pPc'[u] = "loop")
  BY <1>3
<1> QED
  BY <1>1, <1>3, <1>5, <1>6

(* enqueue(), by a submitter or by a task: the new task is last in the     *)
(* queue, and no worker has left while tasks are accepted.                 *)
LEMMA PoolEnqueueKeeps ==
  ASSUME Pool!RolesApart, Pool!IInv, NEW t \in Submitters \cup Workers, Pool!Enqueue(t)
  PROVE  Pool!IInv'
<1> USE DEF Pool!RolesApart
<1>1. /\ t \in Pool!Threads /\ pPc' = [pPc EXCEPT ![t] = "notify_one"]
      /\ pAccepted \in Nat /\ pAccepted < MaxTasks /\ pAccepted' = pAccepted + 1
      /\ pTasks \in Seq(1 .. MaxTasks) /\ pTasks' = Append(pTasks, pAccepted + 1)
      /\ ~pShuttingDown
      /\ pPc[t] = IF t \in Workers THEN "run" ELSE "idle"
      /\ UNCHANGED <<pShuttingDown, pHeld, pRuns>>
  BY DEF Pool!Enqueue, Pool!Goto, Pool!Threads, Pool!IInv, Pool!TypeOK
<1>2. pAccepted + 1 \in 1 .. MaxTasks /\ pTasks' \in Seq(1 .. MaxTasks)
  BY <1>1
<1>3. Pool!TypeOK'
  BY <1>1, <1>2 DEF Pool!IInv, Pool!TypeOK
<1>4. Pool!Roles'
  BY <1>1 DEF Pool!IInv, Pool!TypeOK, Pool!Roles, Pool!Threads
<1>5. /\ \A w \in Workers : (Pool!Busy(w)' <=> Pool!Busy(w)) /\ (pPc'[w] = "exited" <=> pPc[w] = "exited")
      /\ \A c \in Closers : pPc'[c] = pPc[c]
  BY <1>1 DEF Pool!IInv, Pool!Roles, Pool!TypeOK, Pool!Busy, Pool!Threads
<1>6. /\ Len(pTasks') = Len(pTasks) + 1 /\ Len(pTasks) \in Nat
      /\ \A i \in 1 .. Len(pTasks) : pTasks'[i] = pTasks[i]
      /\ pTasks'[Len(pTasks) + 1] = pAccepted + 1
  BY <1>1
<1>7. Pool!Taken' = Pool!Taken /\ Pool!Taken \in Nat /\ pAccepted = Pool!Taken + Len(pTasks)
  BY <1>1, <1>6 DEF Pool!Taken, Pool!IInv, Pool!Placed
<1>8. ASSUME NEW i \in 1 .. Len(pTasks') PROVE pTasks'[i] = Pool!Taken' + i
  <2>1. CASE i \in 1 .. Len(pTasks)
    BY <1>6, <1>7, <2>1 DEF Pool!IInv, Pool!Placed
  <2>2. CASE i = Len(pTasks) + 1
    BY <1>6, <1>7, <2>2
  <2> QED
    BY <1>6, <2>1, <2>2
<1>9. Pool!Placed'
  BY <1>1, <1>5, <1>7, <1>8 DEF Pool!IInv, Pool!Placed
<1>10. Pool!Ending'
  BY <1>1, <1>5 DEF Pool!IInv, Pool!Ending
<1> QED
  BY <1>3, <1>4, <1>9, <1>10 DEF Pool!IInv

(* A worker takes the task at the front, which nobody else holds.          *)
LEMMA PoolTakeKeeps ==
  ASSUME Pool!RolesApart, Pool!IInv, NEW w \in Workers, Pool!Take(w)
  PROVE  Pool!IInv'
<1> USE DEF Pool!RolesApart
<1>1. /\ w \in Pool!Threads /\ pPc[w] = "loop" /\ pPc' = [pPc EXCEPT ![w] = "run"]
      /\ pTasks \in Seq(1 .. MaxTasks) /\ pTasks # <<>>
      /\ pTasks' = Tail(pTasks) /\ pHeld' = [pHeld EXCEPT ![w] = Head(pTasks)]
      /\ UNCHANGED <<pShuttingDown, pAccepted, pRuns>>
  BY DEF Pool!Take, Pool!Goto, Pool!Threads, Pool!IInv, Pool!TypeOK
<1>2. /\ Len(pTasks) \in Nat \ {0} /\ Len(pTasks') = Len(pTasks) - 1
      /\ Head(pTasks) = pTasks[1] /\ pTasks[1] \in 1 .. MaxTasks /\ pTasks' \in Seq(1 .. MaxTasks)
      /\ \A i \in 1 .. Len(pTasks') : pTasks'[i] = pTasks[i + 1]
  BY <1>1
<1>3. /\ ~Pool!Busy(w) /\ Pool!Busy(w)'
      /\ \A v \in Workers \ {w} : pPc'[v] = pPc[v] /\ (Pool!Busy(v)' <=> Pool!Busy(v)) /\ pHeld'[v] = pHeld[v]
      /\ \A c \in Closers : pPc'[c] = pPc[c]
  BY <1>1 DEF Pool!Busy, Pool!IInv, Pool!TypeOK, Pool!Threads
<1>4. Pool!TypeOK'
  BY <1>1, <1>2 DEF Pool!IInv, Pool!TypeOK
<1>5. Pool!Roles'
  BY <1>1 DEF Pool!IInv, Pool!TypeOK, Pool!Roles, Pool!Threads
<1>6. /\ Pool!Taken' = Pool!Taken + 1 /\ Pool!Taken \in Nat
      /\ pHeld'[w] = Pool!Taken + 1 /\ Pool!Taken + 1 \in 1 .. MaxTasks
  <2>1. pAccepted \in Nat /\ Pool!Taken \in Nat /\ pTasks[1] = Pool!Taken + 1
    BY <1>2 DEF Pool!IInv, Pool!TypeOK, Pool!Placed
  <2>2. Pool!Taken' = Pool!Taken + 1
    BY <1>1, <1>2, <2>1 DEF Pool!Taken
  <2>3. pHeld'[w] = pTasks[1]
    BY <1>1, <1>2 DEF Pool!IInv, Pool!TypeOK
  <2> QED
    BY <1>2, <2>1, <2>2, <2>3
<1>7. Pool!Placed'
  <2>1. ASSUME NEW i \in 1 .. Len(pTasks') PROVE pTasks'[i] = Pool!Taken' + i
    <3>1. i + 1 \in 1 .. Len(pTasks)
      BY <1>2
    <3>2. pTasks[i + 1] = Pool!Taken + (i + 1)
      BY <3>1 DEF Pool!IInv, Pool!Placed
    <3> QED
      BY <1>2, <1>6, <3>2
  <2>2. /\ \A v \in Workers : Pool!Busy(v) => pHeld[v] \in 1 .. Pool!Taken /\ pRuns[pHeld[v]] = 0
        /\ \A n \in 1 .. MaxTasks :
             pRuns[n] = 0 <=> n > Pool!Taken \/ \E v \in Workers : Pool!Busy(v) /\ pHeld[v] = n
        /\ \A u, v \in Workers : Pool!Busy(u) /\ Pool!Busy(v) /\ pHeld[u] = pHeld[v] => u = v
    BY DEF Pool!IInv, Pool!Placed
  <2>3. \A v \in Workers : Pool!Busy(v)' => pHeld'[v] \in 1 .. Pool!Taken' /\ pRuns[pHeld'[v]] = 0
    <3>1. pRuns[pHeld'[w]] = 0 /\ pHeld'[w] \in 1 .. Pool!Taken'
      BY <1>6, <2>2
    <3>2. ASSUME NEW v \in Workers, v # w, Pool!Busy(v)' PROVE pHeld'[v] \in 1 .. Pool!Taken' /\ pRuns[pHeld'[v]] = 0
      BY <1>3, <1>6, <2>2, <3>2
    <3> QED
      BY <3>1, <3>2
  <2>4. \A u, v \in Workers : Pool!Busy(u)' /\ Pool!Busy(v)' /\ pHeld'[u] = pHeld'[v] => u = v
    BY <1>3, <1>6, <2>2
  <2>5. ASSUME NEW n \in 1 .. MaxTasks
        PROVE  pRuns[n] = 0 <=> n > Pool!Taken' \/ \E v \in Workers : Pool!Busy(v)' /\ pHeld'[v] = n
    <3>1. CASE n = Pool!Taken + 1
      BY <1>3, <1>6, <2>2, <3>1
    <3>2. CASE n # Pool!Taken + 1
      <4>1. n > Pool!Taken' <=> n > Pool!Taken
        BY <1>6, <3>2
      <4>2. (\E v \in Workers : Pool!Busy(v)' /\ pHeld'[v] = n)
              <=> (\E v \in Workers : Pool!Busy(v) /\ pHeld[v] = n)
        BY <1>3, <1>6, <3>2
      <4> QED
        BY <2>2, <4>1, <4>2
    <3> QED
      BY <3>1, <3>2
  <2> QED
    BY <1>1, <1>6, <2>1, <2>3, <2>4, <2>5 DEF Pool!Placed
<1>8. Pool!Ending'
  BY <1>1, <1>3 DEF Pool!IInv, Pool!Ending, Pool!Busy
<1> QED
  BY <1>4, <1>5, <1>7, <1>8 DEF Pool!IInv

(* A worker runs the task it holds, which has not run.                     *)
LEMMA PoolRunKeeps ==
  ASSUME Pool!RolesApart, Pool!IInv, NEW w \in Workers, Pool!Run(w)
  PROVE  Pool!IInv'
<1> USE DEF Pool!RolesApart
<1> DEFINE k == pHeld[w]
<1>1. /\ w \in Pool!Threads /\ pPc[w] = "run" /\ pPc' = [pPc EXCEPT ![w] = "loop"]
      /\ pRuns' = [pRuns EXCEPT ![k] = @ + 1]
      /\ UNCHANGED <<pTasks, pShuttingDown, pHeld, pAccepted>>
  BY DEF Pool!Run, Pool!Goto, Pool!Threads
<1>2. /\ Pool!Busy(w) /\ ~Pool!Busy(w)'
      /\ \A v \in Workers \ {w} : pPc'[v] = pPc[v] /\ (Pool!Busy(v)' <=> Pool!Busy(v))
      /\ \A c \in Closers : pPc'[c] = pPc[c]
  BY <1>1 DEF Pool!Busy, Pool!IInv, Pool!TypeOK, Pool!Threads
<1>3. Pool!Taken' = Pool!Taken /\ Pool!Taken \in Nat
  BY <1>1 DEF Pool!Taken, Pool!IInv, Pool!Placed
<1>4. k \in 1 .. Pool!Taken /\ pRuns[k] = 0 /\ k \in 1 .. MaxTasks
  <2>1. k \in 1 .. Pool!Taken /\ pRuns[k] = 0
    BY <1>2 DEF Pool!IInv, Pool!Placed
  <2>2. Pool!Taken <= MaxTasks
    BY <1>3, LenProperties DEF Pool!Taken, Pool!IInv, Pool!TypeOK
  <2> QED
    BY <1>3, <2>1, <2>2
<1>5. Pool!TypeOK'
  BY <1>1, <1>4 DEF Pool!IInv, Pool!TypeOK
<1>6. Pool!Roles'
  BY <1>1 DEF Pool!IInv, Pool!TypeOK, Pool!Roles, Pool!Threads
<1>7. \A n \in 1 .. MaxTasks : pRuns'[n] = IF n = k THEN 1 ELSE pRuns[n]
  BY <1>1, <1>4 DEF Pool!IInv, Pool!TypeOK
<1>8. Pool!Placed'
  <2>1. /\ \A v \in Workers : Pool!Busy(v) => pHeld[v] \in 1 .. Pool!Taken /\ pRuns[pHeld[v]] = 0
        /\ \A n \in 1 .. MaxTasks :
             pRuns[n] = 0 <=> n > Pool!Taken \/ \E v \in Workers : Pool!Busy(v) /\ pHeld[v] = n
        /\ \A u, v \in Workers : Pool!Busy(u) /\ Pool!Busy(v) /\ pHeld[u] = pHeld[v] => u = v
    BY DEF Pool!IInv, Pool!Placed
  <2>2. ASSUME NEW v \in Workers, Pool!Busy(v)'
        PROVE  pHeld[v] \in 1 .. Pool!Taken /\ pRuns'[pHeld[v]] = 0
    <3>1. v # w /\ pHeld[v] \in 1 .. Pool!Taken /\ pRuns[pHeld[v]] = 0 /\ pHeld[v] # k
      BY <1>2, <2>1, <2>2
    <3>2. pHeld[v] \in 0 .. MaxTasks
      BY DEF Pool!IInv, Pool!TypeOK
    <3>3. pHeld[v] \in 1 .. MaxTasks
      BY <1>3, <3>1, <3>2
    <3> QED
      BY <1>7, <3>1, <3>3
  <2>3. ASSUME NEW n \in 1 .. MaxTasks
        PROVE  pRuns'[n] = 0 <=> n > Pool!Taken \/ \E v \in Workers : Pool!Busy(v)' /\ pHeld[v] = n
    <3>1. CASE n = k
      <4>1. ~(n > Pool!Taken)
        BY <1>3, <1>4, <3>1
      <4>2. ASSUME NEW v \in Workers, Pool!Busy(v)', pHeld[v] = n PROVE FALSE
        BY <1>2, <2>1, <3>1, <4>2
      <4> QED
        BY <1>7, <3>1, <4>1, <4>2
    <3>2. CASE n # k
      <4>1. (\E v \in Workers : Pool!Busy(v)' /\ pHeld[v] = n)
              <=> (\E v \in Workers : Pool!Busy(v) /\ pHeld[v] = n)
        BY <1>2, <3>2
      <4> QED
        BY <1>7, <2>1, <3>2, <4>1
    <3> QED
      BY <3>1, <3>2
  <2> QED
    BY <1>1, <1>2, <1>3, <2>1, <2>2, <2>3 DEF Pool!IInv, Pool!Placed
<1>9. Pool!Ending'
  BY <1>1, <1>2 DEF Pool!IInv, Pool!Ending, Pool!Busy
<1> QED
  BY <1>5, <1>6, <1>8, <1>9 DEF Pool!IInv

(* notify_one() and notify_all(), after the unlock.                        *)
LEMMA PoolNotifyKeeps ==
  ASSUME Pool!RolesApart, Pool!IInv,
         \/ \E t \in Submitters \cup Workers : Pool!NotifyOne(t)
         \/ \E c \in Closers : Pool!NotifyAll(c)
  PROVE  Pool!IInv'
<1> USE DEF Pool!RolesApart
<1>1. PICK t \in Pool!Threads, l \in Pool!Labels, S \in SUBSET Pool!Waiting :
        /\ Pool!GotoWaking(t, l, S) /\ UNCHANGED Pool!data
        /\ \/ t \in Submitters /\ pPc[t] = "notify_one" /\ l = "idle"
           \/ t \in Workers /\ pPc[t] = "notify_one" /\ l = "run"
           \/ t \in Closers /\ pPc[t] = "notify_all" /\ l = "join"
  <2>1. CASE \E t \in Submitters \cup Workers : Pool!NotifyOne(t)
    BY <2>1 DEF Pool!NotifyOne, Pool!Threads, Pool!Labels
  <2>2. CASE \E c \in Closers : Pool!NotifyAll(c)
    BY <2>2 DEF Pool!NotifyAll, Pool!Threads, Pool!Labels
  <2> QED
    BY <2>1, <2>2
<1>2. /\ pPc' \in [Pool!Threads -> Pool!Labels] /\ pPc'[t] = l
      /\ \A u \in Pool!Threads \ {t} : pPc'[u] = pPc[u] \/ (pPc[u] = "wait" /\ pPc'[u] = "loop")
  BY <1>1, PoolWaking
<1>3. Pool!Roles'
  BY <1>1, <1>2 DEF Pool!IInv, Pool!Roles, Pool!Threads
<1>4. \A w \in Workers : (Pool!Busy(w)' <=> Pool!Busy(w)) /\ (pPc'[w] = "exited" <=> pPc[w] = "exited")
  BY <1>1, <1>2 DEF Pool!IInv, Pool!Roles, Pool!Threads, Pool!Busy
<1>5. \A c \in Closers : pPc'[c] = "closed" => pPc[c] = "closed"
  BY <1>1, <1>2 DEF Pool!IInv, Pool!Roles, Pool!Threads
<1>6. Pool!Ending'
  BY <1>1, <1>4, <1>5 DEF Pool!IInv, Pool!Ending, Pool!data
<1> QED
  BY <1>1, <1>2, <1>3, <1>4, <1>6, PoolMovesKeep

(* The other steps change where one thread is.                             *)
LEMMA PoolStepsKeep ==
  ASSUME Pool!RolesApart, Pool!IInv,
         \/ \E w \in Workers : Pool!Exit(w) \/ Pool!Sleep(w) \/ Pool!SpuriousWake(w)
         \/ \E c \in Closers : Pool!Join(c)
  PROVE  Pool!IInv'
<1> USE DEF Pool!RolesApart
<1>1. PICK t \in Pool!Threads, l \in Pool!Labels :
        /\ pPc' = [pPc EXCEPT ![t] = l] /\ UNCHANGED Pool!data
        /\ \/ t \in Workers /\ pPc[t] = "loop" /\ l = "exited" /\ pTasks = <<>> /\ pShuttingDown
           \/ t \in Workers /\ pPc[t] = "loop" /\ l = "wait"
           \/ t \in Workers /\ pPc[t] = "wait" /\ l = "loop"
           \/ t \in Closers /\ pPc[t] = "join" /\ l = "closed"
              /\ \A w \in Workers : pPc[w] = "exited"
  BY DEF Pool!Exit, Pool!Sleep, Pool!SpuriousWake, Pool!Waiting, Pool!Join, Pool!Goto, Pool!Threads, Pool!Labels
<1>2. /\ pPc' \in [Pool!Threads -> Pool!Labels] /\ pPc'[t] = l
      /\ \A u \in Pool!Threads \ {t} : pPc'[u] = pPc[u]
  BY <1>1 DEF Pool!IInv, Pool!TypeOK, Pool!Labels
<1>3. Pool!Roles'
  BY <1>1, <1>2 DEF Pool!IInv, Pool!Roles, Pool!Threads
<1>4. \A w \in Workers : Pool!Busy(w)' <=> Pool!Busy(w)
  BY <1>1, <1>2 DEF Pool!Busy, Pool!Threads
<1>5. Pool!Ending'
  <2>1. \A w \in Workers : pPc'[w] = "exited" => pShuttingDown /\ pTasks = <<>>
    BY <1>1, <1>2 DEF Pool!IInv, Pool!Ending, Pool!Threads
  <2>2. ASSUME NEW c \in Closers, pPc'[c] = "closed"
        PROVE  \A w \in Workers : pPc'[w] = "exited"
    BY <1>1, <1>2, <2>2 DEF Pool!IInv, Pool!Ending, Pool!Threads
  <2> QED
    BY <1>1, <2>1, <2>2 DEF Pool!Ending, Pool!data
<1> QED
  BY <1>1, <1>2, <1>3, <1>4, <1>5, PoolMovesKeep

(* shutdown() sets the flag, or finds it set.                              *)
LEMMA PoolShutdownKeeps ==
  ASSUME Pool!RolesApart, Pool!IInv, NEW c \in Closers, Pool!Shutdown(c)
  PROVE  Pool!IInv'
<1> USE DEF Pool!RolesApart
<1>1. /\ c \in Pool!Threads /\ pShuttingDown' = TRUE
      /\ pPc' = pPc \/ (~pShuttingDown /\ pPc' = [pPc EXCEPT ![c] = "notify_all"])
      /\ UNCHANGED <<pTasks, pHeld, pAccepted, pRuns>>
  <2>1. c \in Pool!Threads /\ pShuttingDown' = TRUE /\ UNCHANGED <<pTasks, pHeld, pAccepted, pRuns>>
    BY DEF Pool!Shutdown, Pool!Threads
  <2>2. pPc' = pPc \/ (~pShuttingDown /\ pPc' = [pPc EXCEPT ![c] = "notify_all"])
    BY Zenon DEF Pool!Shutdown, Pool!Goto
  <2> QED
    BY <2>1, <2>2
<1>2. Pool!TypeOK' /\ Pool!Roles'
  BY <1>1 DEF Pool!IInv, Pool!TypeOK, Pool!Roles, Pool!Threads
<1>3. /\ \A w \in Workers : pPc'[w] = pPc[w]
      /\ \A d \in Closers : pPc'[d] = "closed" => pPc[d] = "closed"
  BY <1>1 DEF Pool!IInv, Pool!TypeOK, Pool!Threads
<1>4. Pool!Taken' = Pool!Taken /\ \A w \in Workers : Pool!Busy(w)' <=> Pool!Busy(w)
  BY <1>1, <1>3 DEF Pool!Taken, Pool!Busy
<1>5. Pool!Placed' /\ Pool!Ending'
  BY <1>1, <1>3, <1>4 DEF Pool!IInv, Pool!Placed, Pool!Ending
<1> QED
  BY <1>2, <1>5 DEF Pool!IInv

(* Every step keeps Pool!IInv.                                             *)
LEMMA PoolInductive ==
  ASSUME Pool!RolesApart, Pool!IInv, [Pool!Next]_Pool!vars
  PROVE  Pool!IInv'
<1>1. CASE UNCHANGED Pool!vars
  <2>1. UNCHANGED Pool!data /\ pPc' = pPc
    BY <1>1 DEF Pool!vars
  <2> QED
    BY <2>1, PoolMovesKeep DEF Pool!IInv, Pool!TypeOK, Pool!Roles, Pool!Busy, Pool!Ending, Pool!data, Pool!Labels
<1>2. CASE Pool!Next
  BY <1>2, PoolEnqueueKeeps, PoolNotifyKeeps, PoolTakeKeeps, PoolRunKeeps, PoolStepsKeep, PoolShutdownKeeps
     DEF Pool!Next, Pool!WorkerStep
<1> QED
  BY <1>1, <1>2

(* A new pool.                                                             *)
LEMMA PoolInitHolds ==
  ASSUME Pool!RolesApart, Pool!Init
  PROVE  Pool!IInv
<1> USE DEF Pool!RolesApart
<1>1. Pool!TypeOK
  <2>1. <<>> \in Seq(1 .. MaxTasks) /\ 0 \in 0 .. MaxTasks /\ 0 \in 0 .. 1
    OBVIOUS
  <2>2. /\ pPc \in [Pool!Threads -> Pool!Labels] /\ pHeld \in [Workers -> 0 .. MaxTasks]
        /\ pRuns \in [1 .. MaxTasks -> 0 .. 1]
    BY <2>1 DEF Pool!Init, Pool!Labels
  <2> QED
    BY <2>1, <2>2 DEF Pool!Init, Pool!TypeOK, Pool!Labels
<1>2. Pool!Roles /\ \A w \in Workers : ~Pool!Busy(w)
  BY DEF Pool!Init, Pool!Roles, Pool!Threads, Pool!Busy
<1>3. Pool!Taken = 0 /\ Len(pTasks) = 0
  <2>1. pAccepted = 0
    BY DEF Pool!Init
  <2>2. Len(pTasks) = 0
    BY DEF Pool!Init
  <2>3. pAccepted - Len(pTasks) = 0
    BY <2>1, <2>2
  <2> QED
    BY <2>2, <2>3 DEF Pool!Taken
<1>4. Pool!Placed
  BY <1>2, <1>3 DEF Pool!Init, Pool!Placed
<1>5. Pool!Ending
  BY DEF Pool!Init, Pool!Ending, Pool!Threads
<1> QED
  BY <1>1, <1>2, <1>4, <1>5 DEF Pool!IInv

(* An accepted task is in the queue, in the hands of one worker, or has    *)
(* run.                                                                    *)
LEMMA PoolOnce == ASSUME Pool!RolesApart, Pool!IInv PROVE Pool!ExactlyOnce
<1> USE DEF Pool!RolesApart
<1> SUFFICES ASSUME NEW n \in 1 .. MaxTasks
             PROVE  Pool!Cardinality(Pool!Places(n)) + Pool!Cardinality(Pool!Holders(n)) + pRuns[n]
                      = IF n <= pAccepted THEN 1 ELSE 0
  BY DEF Pool!ExactlyOnce
<1>1. /\ Len(pTasks) \in Nat /\ pAccepted \in Nat /\ Pool!Taken \in Nat
      /\ pAccepted = Pool!Taken + Len(pTasks) /\ pRuns[n] \in 0 .. 1
  BY DEF Pool!IInv, Pool!TypeOK, Pool!Placed, Pool!Taken
<1>2. /\ \A i \in 1 .. Len(pTasks) : pTasks[i] = Pool!Taken + i
      /\ pRuns[n] = 0 <=> n > Pool!Taken \/ \E w \in Workers : Pool!Busy(w) /\ pHeld[w] = n
      /\ \A w \in Workers : Pool!Busy(w) => pHeld[w] \in 1 .. Pool!Taken /\ pRuns[pHeld[w]] = 0
      /\ \A v, w \in Workers : Pool!Busy(v) /\ Pool!Busy(w) /\ pHeld[v] = pHeld[w] => v = w
  BY DEF Pool!IInv, Pool!Placed
<1>3. Pool!Cardinality(Pool!Places(n)) = IF n > Pool!Taken /\ n <= pAccepted THEN 1 ELSE 0
  <2>1. CASE n > Pool!Taken /\ n <= pAccepted
    <3>1. n - Pool!Taken \in 1 .. Len(pTasks)
      BY <1>1, <2>1
    <3>2. Pool!Places(n) = {n - Pool!Taken}
      BY <1>1, <1>2, <2>1, <3>1 DEF Pool!Places
    <3> QED
      BY <2>1, <3>2, FS_Singleton, PoolCardinality
  <2>2. CASE ~(n > Pool!Taken /\ n <= pAccepted)
    <3>1. Pool!Places(n) = {}
      BY <1>1, <1>2, <2>2 DEF Pool!Places
    <3> QED
      BY <2>2, <3>1, FS_EmptySet, PoolCardinality
  <2> QED
    BY <2>1, <2>2
<1>4. Pool!Cardinality(Pool!Holders(n)) = IF \E w \in Workers : Pool!Busy(w) /\ pHeld[w] = n THEN 1 ELSE 0
  <2>1. CASE \E w \in Workers : Pool!Busy(w) /\ pHeld[w] = n
    <3> PICK w \in Workers : Pool!Busy(w) /\ pHeld[w] = n
      BY <2>1
    <3>1. Pool!Holders(n) = {w}
      BY <1>2 DEF Pool!Holders, Pool!Busy
    <3> QED
      BY <2>1, <3>1, FS_Singleton, PoolCardinality
  <2>2. CASE ~ \E w \in Workers : Pool!Busy(w) /\ pHeld[w] = n
    <3>1. Pool!Holders(n) = {}
      BY <2>2 DEF Pool!Holders, Pool!Busy
    <3> QED
      BY <2>2, <3>1, FS_EmptySet, PoolCardinality
  <2> QED
    BY <2>1, <2>2
<1>5. CASE \E w \in Workers : Pool!Busy(w) /\ pHeld[w] = n
  <2>1. n <= Pool!Taken /\ pRuns[n] = 0
    BY <1>1, <1>2, <1>5
  <2> QED
    BY <1>1, <1>3, <1>4, <1>5, <2>1
<1>6. CASE ~ \E w \in Workers : Pool!Busy(w) /\ pHeld[w] = n
  <2>1. pRuns[n] = IF n > Pool!Taken THEN 0 ELSE 1
    BY <1>1, <1>2, <1>6
  <2> QED
    BY <1>1, <1>3, <1>4, <1>6, <2>1
<1> QED
  BY <1>5, <1>6

(* When the workers were joined no task is queued or held.                 *)
LEMMA PoolShut == ASSUME Pool!RolesApart, Pool!IInv PROVE Pool!ShutdownRunsAll
<1> USE DEF Pool!RolesApart
<1> SUFFICES ASSUME NEW c \in Closers, pPc[c] = "closed", NEW n \in 1 .. pAccepted
             PROVE  pRuns[n] = 1
  BY DEF Pool!ShutdownRunsAll
<1>1. pTasks = <<>> /\ \A w \in Workers : ~Pool!Busy(w)
  BY DEF Pool!IInv, Pool!Ending, Pool!Busy
<1>2. pAccepted \in 0 .. MaxTasks
  BY DEF Pool!IInv, Pool!TypeOK
<1>3. Pool!Taken = pAccepted
  BY <1>1, <1>2 DEF Pool!Taken
<1>4. n \in 1 .. MaxTasks /\ pRuns[n] \in 0 .. 1 /\ ~(n > Pool!Taken)
  BY <1>2, <1>3 DEF Pool!IInv, Pool!TypeOK
<1> QED
  BY <1>1, <1>4 DEF Pool!IInv, Pool!Placed

(* ThreadPool, for any submitters and closers and finitely many workers:   *)
(* an accepted task is in exactly one place and runs once, and when the    *)
(* shutdown() that set the flag has returned all accepted tasks have run.  *)
THEOREM Pooled == ASSUME Pool!RolesApart PROVE Pool!Spec => [](Pool!ExactlyOnce /\ Pool!ShutdownRunsAll)
<1>1. Pool!Init => Pool!IInv
  BY PoolInitHolds
<1>2. Pool!IInv /\ [Pool!Next]_Pool!vars => Pool!IInv'
  BY PoolInductive
<1>3. Pool!IInv => Pool!ExactlyOnce /\ Pool!ShutdownRunsAll
  BY PoolOnce, PoolShut
<1> QED
  BY <1>1, <1>2, <1>3, PTL DEF Pool!Spec

-----------------------------------------------------------------------------
(* MCExecutors: what is proved of each holds while the others rest.        *)

(* The executor that is active takes the step, and the other none.         *)
LEMMA OneActs ==
  ASSUME [MCNext]_<<active, vars, pVars, mVars>>
  PROVE  [Next]_vars /\ [Pool!Next]_(Pool!vars)
BY DEF MCNext, pVars, vars, Pool!vars, Pool!data

(* The executors together: an accepted task is queued, held or run,        *)
(* exactly one of them and once.                                           *)
THEOREM ExecutorsRunOnce ==
  ASSUME Pool!RolesApart
  PROVE  MCSpec => []TasksRunOnce
<1> DEFINE I == IInv /\ Pool!IInv
<1>1. MCInit => I
  BY InitHolds, PoolInitHolds DEF MCInit
<1>2. I /\ [MCNext]_<<active, vars, pVars, mVars>> => I'
  BY OneActs, Inductive, PoolInductive
<1>3. I => TasksRunOnce
  BY Fifo, PoolOnce DEF IInv, Pool!IInv, TasksRunOnce
<1> QED
  BY <1>1, <1>2, <1>3, PTL DEF MCSpec

(* The executors together: a shutdown() returns only when every accepted   *)
(* task has run.                                                           *)
THEOREM ExecutorsShutDown ==
  ASSUME Pool!RolesApart
  PROVE  MCSpec => []ShutdownsRunAll
<1> DEFINE I == IInv /\ Pool!IInv
<1>1. MCInit => I
  BY InitHolds, PoolInitHolds DEF MCInit
<1>2. I /\ [MCNext]_<<active, vars, pVars, mVars>> => I'
  BY OneActs, Inductive, PoolInductive
<1>3. I => ShutdownsRunAll
  BY Shut, PoolShut DEF IInv, Pool!IInv, ShutdownsRunAll
<1> QED
  BY <1>1, <1>2, <1>3, PTL DEF MCSpec
=============================================================================
