---------------------------- MODULE OrderGateway ----------------------------
(***************************************************************************)
(* OrderGateway of exercises/domain/02_order_gateway: submit() drops a     *)
(* client order id that was forwarded less than a window ago.  The clock   *)
(* is read before mu_ is taken; everything after it, the sink included,    *)
(* happens under the lock and is one action.  Time is a uint64_t: Modulus  *)
(* stands for 2^64 and bounds the clock.                                   *)
(***************************************************************************)
EXTENDS Integers

CONSTANTS
  Threads, Ids,
  DedupWindow,    \* the constructor's argument, in ticks
  Modulus,        \* 2^w, for the unsigned subtraction
  MaxTime         \* bound: where the clock stops

\* The constructor turns a negative window into an empty one.
dedup_window_ == IF DedupWindow <= 0 THEN 0 ELSE DedupWindow

Never == -1

VARIABLES
  clock,      \* what now_() returns
  seen_,      \* seen_[c]: the stamp of id c, or Never when it has no entry
  pc, now, cid,
  forwarded,  \* history: the stamp of the last order of c that reached the sink
  last        \* history: the stamp of the last submit() that held the lock

vars == <<clock, seen_, pc, now, cid, forwarded, last>>

Init ==
  /\ clock = 0
  /\ seen_ = [c \in Ids |-> Never]
  /\ pc = [t \in Threads |-> "idle"]
  /\ now = [t \in Threads |-> 0]
  /\ cid = [t \in Threads |-> CHOOSE c \in Ids : TRUE]
  /\ forwarded = [c \in Ids |-> Never]
  /\ last = 0

Tick ==
  /\ clock < MaxTime
  /\ clock' = clock + 1
  /\ UNCHANGED <<seen_, pc, now, cid, forwarded, last>>

\* submit(c): now = now_(), without the lock.
ReadClock(t, c) ==
  /\ pc[t] = "idle"
  /\ now' = [now EXCEPT ![t] = clock]
  /\ cid' = [cid EXCEPT ![t] = c]
  /\ pc' = [pc EXCEPT ![t] = "lock"]
  /\ UNCHANGED <<clock, seen_, forwarded, last>>

Age(n, stamp) == (n - stamp) % Modulus

\* Mutant: compact_locked() keeps everything.
CompactedNothing(n) == seen_

\* Mutant: entries as old as the window go too.
CompactedEarly(n) ==
  [c \in Ids |-> IF seen_[c] # Never /\ Age(n, seen_[c]) >= dedup_window_
                 THEN Never ELSE seen_[c]]

\* compact_locked(n): entries older than the window go.
Compacted(n) ==
  [c \in Ids |-> IF seen_[c] # Never /\ Age(n, seen_[c]) > dedup_window_
                 THEN Never ELSE seen_[c]]

\* The lookup after compaction finds a stamp inside the window.
Duplicate(t) ==
  LET stamp == Compacted(now[t])[cid[t]] IN
    stamp # Never /\ Age(now[t], stamp) <= dedup_window_

Drop(t) ==
  /\ pc[t] = "lock"
  /\ Duplicate(t)
  /\ seen_' = Compacted(now[t])
  /\ last' = now[t]
  /\ pc' = [pc EXCEPT ![t] = "idle"]
  /\ UNCHANGED <<clock, now, cid, forwarded>>

Forward(t) ==
  /\ pc[t] = "lock"
  /\ ~Duplicate(t)
  /\ seen_' = [Compacted(now[t]) EXCEPT ![cid[t]] = now[t]]
  /\ forwarded' = [forwarded EXCEPT ![cid[t]] = now[t]]
  /\ last' = now[t]
  /\ pc' = [pc EXCEPT ![t] = "idle"]
  /\ UNCHANGED <<clock, now, cid>>

Next ==
  \/ Tick
  \/ \E t \in Threads : Drop(t) \/ Forward(t) \/ \E c \in Ids : ReadClock(t, c)

Spec == Init /\ [][Next]_vars

-----------------------------------------------------------------------------
Within(a, b) == a - b \in -dedup_window_ .. dedup_window_

\* A step that forwards an id does so more than a window from the last time.
ForwardsApart ==
  \A t \in Threads :
    Forward(t) /\ forwarded[cid[t]] # Never => ~Within(now[t], forwarded[cid[t]])

(* An id reaches the sink once per window: whichever thread forwards it,   *)
(* the last time it was forwarded is more than a window away.              *)
OneForwardPerWindow == [][ForwardsApart]_vars

\* A step that drops an id finds it forwarded within the window before.
DropsDuplicate ==
  \A t \in Threads : Drop(t) =>
    /\ forwarded[cid[t]] # Never
    /\ now[t] - forwarded[cid[t]] \in 0 .. dedup_window_

(* The map holds the ids of one window: after a submit no entry is older   *)
(* than the window, as that submit saw the time.                           *)
MapBounded == \A c \in Ids : seen_[c] # Never => last - seen_[c] \in 0 .. dedup_window_

-----------------------------------------------------------------------------
\* The clock does not come near the end of its type.
Sized ==
  /\ DedupWindow \in Int /\ Modulus \in Nat /\ MaxTime \in Nat
  /\ MaxTime + dedup_window_ < Modulus

Times == 0 .. MaxTime

\* Types.
Types ==
  /\ clock \in Times /\ last \in Times
  /\ seen_ \in [Ids -> Times \cup {Never}] /\ forwarded \in [Ids -> Times \cup {Never}]
  /\ pc \in [Threads -> {"idle", "lock"}] /\ now \in [Threads -> Times]
  /\ cid \in [Threads -> Ids \cup {CHOOSE c \in Ids : TRUE}]
  /\ \A t \in Threads : pc[t] = "lock" => cid[t] \in Ids

\* A stamp is that of the last order that was forwarded.
Stamps == \A c \in Ids : seen_[c] # Never => seen_[c] = forwarded[c]

\* What every step keeps.
IInv == Sized /\ Types /\ Stamps /\ MapBounded

\* The steps of thread t and of the clock.
Alone(t) == Tick \/ Drop(t) \/ Forward(t) \/ \E c \in Ids : ReadClock(t, c)

\* What holds in addition when feeder is the only thread: stamps do not come
\* from the future, and an id is forgotten only when its window is over.
Ordered(feeder) ==
  /\ last <= clock
  /\ \A t \in Threads : pc[t] = "lock" => t = feeder /\ last <= now[t] /\ now[t] <= clock
  /\ \A c \in Ids : forwarded[c] # Never =>
       forwarded[c] <= last /\ (seen_[c] = Never => last - forwarded[c] > dedup_window_)
=============================================================================
