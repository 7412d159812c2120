----------------------------- MODULE TimerWheel -----------------------------
(***************************************************************************)
(* The timer wheel of logic/06_timer_wheel.  A timer's id, which grows     *)
(* with its seq, names it; tick() runs the callbacks of a snapshot one     *)
(* after the other, and each may schedule and cancel.                      *)
(***************************************************************************)
EXTENDS Naturals, Sequences, FiniteSets, Functions

CONSTANTS MaxTimers, MaxTime  \* bounds

TimerIds == 1 .. MaxTimers

VARIABLES
  now_, next_id_, pq_, pending_, done_,
  deadline,                   \* of every timer that was scheduled
  pc, due,                    \* of the tick() in progress
  fired, cancelled,           \* calls of each callback; cancel() that returned true
  fresh                       \* timers scheduled since the last tick() began

vars == <<now_, next_id_, pq_, pending_, done_, deadline, pc, due, fired, cancelled, fresh>>

Init ==
  /\ now_ = 0 /\ next_id_ = 0
  /\ pq_ = {} /\ pending_ = {} /\ done_ = {}
  /\ deadline = [i \in TimerIds |-> 0]
  /\ pc = "idle" /\ due = <<>>
  /\ fired = [i \in TimerIds |-> 0] /\ cancelled = {} /\ fresh = {}

\* The callers: the owner between ticks, and the callback that runs.
Calling == pc \in {"idle", "callback"}

schedule(delay) ==
  LET id == next_id_ + 1 IN
  /\ Calling /\ id \in TimerIds
  /\ next_id_' = id
  /\ deadline' = [deadline EXCEPT ![id] = now_ + delay]
  /\ pq_' = pq_ \cup {id} /\ pending_' = pending_ \cup {id}
  /\ fresh' = fresh \cup {id}
  /\ UNCHANGED <<now_, done_, pc, due, fired, cancelled>>

cancel(id) ==
  /\ Calling /\ id \in pending_
  /\ pending_' = pending_ \ {id} /\ done_' = done_ \cup {id}
  /\ cancelled' = cancelled \cup {id}
  /\ UNCHANGED <<now_, next_id_, pq_, deadline, pc, due, fired, fresh>>

Earlier(i, j) == deadline[i] < deadline[j] \/ (deadline[i] = deadline[j] /\ i < j)

\* tick() up to its first callback: the snapshot of the timers due.
tick(now) ==
  LET time == IF now < now_ THEN now_ ELSE now
      expired == {i \in pq_ : deadline[i] <= time} IN
  /\ pc = "idle"
  /\ now_' = time
  /\ pq_' = pq_ \ expired
  /\ \E d \in [1 .. Cardinality(expired) -> expired] :
       /\ Range(d) = expired /\ \A j, k \in DOMAIN d : j < k => Earlier(d[j], d[k])
       /\ due' = d
  /\ pc' = "firing" /\ fresh' = {}
  /\ UNCHANGED <<next_id_, pending_, done_, deadline, fired, cancelled>>

\* Mutant: a timer of the snapshot fires though a callback has cancelled it.
FireAny ==
  /\ pc = "firing" /\ due # <<>>
  /\ pending_' = pending_ \ {Head(due)} /\ done_' = done_ \cup {Head(due)}
  /\ fired' = [fired EXCEPT ![Head(due)] = @ + 1]
  /\ pc' = "callback" /\ due' = Tail(due)
  /\ UNCHANGED <<now_, next_id_, pq_, deadline, cancelled, fresh>>

Fire ==
  /\ pc = "firing" /\ due # <<>> /\ Head(due) \notin done_
  /\ pending_' = pending_ \ {Head(due)} /\ done_' = done_ \cup {Head(due)}
  /\ fired' = [fired EXCEPT ![Head(due)] = @ + 1]
  /\ pc' = "callback" /\ due' = Tail(due)
  /\ UNCHANGED <<now_, next_id_, pq_, deadline, cancelled, fresh>>

Skip ==
  /\ pc = "firing" /\ due # <<>> /\ Head(due) \in done_
  /\ due' = Tail(due)
  /\ UNCHANGED <<now_, next_id_, pq_, pending_, done_, deadline, pc, fired, cancelled, fresh>>

\* A callback returns, or tick() does.
Return ==
  /\ \/ pc = "callback" /\ pc' = "firing"
     \/ pc = "firing" /\ due = <<>> /\ pc' = "idle"
  /\ UNCHANGED <<now_, next_id_, pq_, pending_, done_, deadline, due, fired, cancelled, fresh>>

Next ==
  \/ \E d \in 0 .. MaxTime : now_ + d <= MaxTime /\ schedule(d)
  \/ \E id \in TimerIds : cancel(id)
  \/ \E now \in 0 .. MaxTime : tick(now)
  \/ Fire \/ Skip \/ Return

Spec == Init /\ [][Next]_vars

-----------------------------------------------------------------------------
TypeOK ==
  /\ now_ \in 0 .. MaxTime /\ next_id_ \in 0 .. MaxTimers
  /\ pq_ \cup pending_ \cup done_ \cup cancelled \cup fresh \subseteq TimerIds
  /\ deadline \in [TimerIds -> 0 .. MaxTime] /\ due \in Seq(TimerIds)
  /\ pc \in {"idle", "firing", "callback"}

(* TimerWheel::tick: whatever the callbacks schedule and cancel, a timer   *)
(* fires at most once and not after cancel() returned true, not before its *)
(* deadline, and at the first tick() that reaches it; one scheduled by a   *)
(* callback waits for the next tick().                                     *)
FiresOnceInTime ==
  /\ \A i \in TimerIds : /\ fired[i] <= 1
                    /\ fired[i] = 1 => i \notin cancelled \cup pending_ \cup fresh
                                       /\ deadline[i] <= now_
  /\ pc = "idle" =>
       \A i \in 1 .. next_id_ : deadline[i] <= now_ =>
         fired[i] = 1 \/ i \in cancelled \cup fresh

-----------------------------------------------------------------------------
(* What keeps it so: where each timer waits.                               *)

\* What the constants must be.
Sized == MaxTimers \in Nat /\ MaxTime \in Nat

\* The ids given so far.
Scheduled == 1 .. next_id_

\* Types.
WellTyped ==
  /\ now_ \in Nat /\ next_id_ \in 0 .. MaxTimers
  /\ pq_ \subseteq Scheduled /\ pending_ \subseteq Scheduled /\ done_ \subseteq Scheduled
  /\ deadline \in [TimerIds -> Nat] /\ due \in Seq(TimerIds)
  /\ fired \in [TimerIds -> Nat]

\* A timer is pending or done, and a done one was cancelled or has fired.
Settled ==
  /\ pending_ \cap done_ = {} /\ cancelled \subseteq done_
  /\ \A i \in TimerIds : fired[i] = IF i \in done_ /\ i \notin cancelled THEN 1 ELSE 0

\* Where a timer waits: in the queue, in the snapshot, or nowhere.
Waiting ==
  /\ fresh \subseteq pq_ /\ pq_ \cap {i \in done_ : i \notin cancelled} = {}
  /\ \A k \in 1 .. Len(due) : due[k] \in Scheduled /\ due[k] \notin pq_ /\ deadline[due[k]] <= now_
  /\ \A i \in pq_ : deadline[i] <= now_ => i \in fresh
  /\ \A i \in Scheduled : i \in pq_ \/ i \in done_ \/ \E k \in 1 .. Len(due) : due[k] = i
  /\ \A i \in done_ : i \in cancelled \/ deadline[i] <= now_
  /\ pc = "idle" => due = <<>>

\* What every step keeps.
IInv == WellTyped /\ Settled /\ Waiting
=============================================================================
