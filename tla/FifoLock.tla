------------------------------ MODULE FifoLock ------------------------------
(***************************************************************************)
(* What a fair queue lock promises, without saying how: a thread takes a   *)
(* place in line, enters when nobody is ahead of it, and leaves.  ahead[t] *)
(* is the set of threads that took their place before t and have not left. *)
(***************************************************************************)
CONSTANT Threads        \* the threads that contend for the lock

VARIABLES
  phase,                \* "out", "line" (queued) or "in" (critical section)
  ahead                 \* the threads in front of each thread in line

fvars == <<phase, ahead>>

Line == {t \in Threads : phase[t] # "out"}

FInit ==
  /\ phase = [t \in Threads |-> "out"]
  /\ ahead = [t \in Threads |-> {}]

\* t joins behind everyone who is in line or inside.
Join(t) ==
  /\ phase[t] = "out"
  /\ ahead' = [ahead EXCEPT ![t] = Line]
  /\ phase' = [phase EXCEPT ![t] = "line"]

\* With nobody in line, joining and entering may be one step.
JoinAndEnter(t) ==
  /\ phase[t] = "out"
  /\ Line = {}
  /\ phase' = [phase EXCEPT ![t] = "in"]
  /\ UNCHANGED ahead

Enter(t) ==
  /\ phase[t] = "line"
  /\ ahead[t] = {}
  /\ phase' = [phase EXCEPT ![t] = "in"]
  /\ UNCHANGED ahead

Leave(t) ==
  /\ phase[t] = "in"
  /\ phase' = [phase EXCEPT ![t] = "out"]
  /\ ahead' = [u \in Threads |-> ahead[u] \ {t}]

FNext == \E t \in Threads : Join(t) \/ JoinAndEnter(t) \/ Enter(t) \/ Leave(t)

FSpec == FInit /\ [][FNext]_fvars
=============================================================================
