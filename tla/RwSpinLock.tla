----------------------------- MODULE RwSpinLock -----------------------------
(***************************************************************************)
(* RWSpinLock of exercises/concurrency/02_seqlock: readers count           *)
(* themselves in and look at the writer flag again; a writer takes the     *)
(* flag and waits for the count to drain.  One action per atomic operation.*)
(*                                                                         *)
(* The code asks for acquire on the read-modify-writes and for less on the *)
(* loads, nowhere for seq_cst.  C++ and weakly ordered machines then let a *)
(* thread's next load run ahead of the store of its fetch_add or CAS:      *)
(* other threads' loads may miss that store for a while.  StoresLinger     *)
(* says whether that happens; where a read-modify-write is a full barrier, *)
(* as on x86, it does not.                                                 *)
(***************************************************************************)
EXTENDS Integers, FiniteSets

CONSTANTS
  Readers, Writers,   \* disjoint, as a thread unlocks what it has locked
  StoresLinger

Lockers == Readers \cup Writers

VARIABLES
  readers_, writer_,
  pc,
  hidden      \* the threads whose last store the others' loads may miss

vars == <<readers_, writer_, pc, hidden>>

Init ==
  /\ readers_ = 0
  /\ writer_ = FALSE
  /\ pc = [t \in Lockers |-> "out"]
  /\ hidden = {}

Goto(t, l) == pc' = [pc EXCEPT ![t] = l]

\* A read-modify-write of t; its store may linger.
Hide(t) == hidden' \in IF StoresLinger THEN {hidden, hidden \cup {t}} ELSE {hidden}

\* The store of t reaches everybody, now or at the latest with its next one.
Settle(t) == t \in hidden /\ hidden' = hidden \ {t} /\ UNCHANGED <<readers_, writer_, pc>>

\* What a load returns: lingering stores of the others are missed.
SeenWriter == writer_ /\ ~\E w \in Writers : w \in hidden
SeenReaders == readers_ - Cardinality(Readers \cap hidden)

-----------------------------------------------------------------------------
(* lock_read() and unlock_read() *)

\* while (writer_) yield(): the step that leaves the loop.
AwaitNoWriter(r) ==
  /\ pc[r] = "out"
  /\ ~SeenWriter
  /\ Goto(r, "count")
  /\ UNCHANGED <<readers_, writer_, hidden>>

CountIn(r) ==
  /\ pc[r] = "count"
  /\ readers_' = readers_ + 1
  /\ Hide(r)
  /\ Goto(r, "recheck")
  /\ UNCHANGED writer_

\* Mutant: no second look at the flag.
RecheckSkipped(r) ==
  /\ pc[r] = "recheck"
  /\ Goto(r, "reading")
  /\ UNCHANGED <<readers_, writer_, hidden>>

Recheck(r) ==
  /\ pc[r] = "recheck"
  /\ Goto(r, IF SeenWriter THEN "backout" ELSE "reading")
  /\ UNCHANGED <<readers_, writer_, hidden>>

\* fetch_sub: a reader that saw the flag backs out, another one unlocks.
CountOut(r) ==
  /\ pc[r] \in {"backout", "reading"}
  /\ hidden' = hidden \ {r}
  /\ readers_' = readers_ - 1
  /\ Goto(r, "out")
  /\ UNCHANGED writer_

-----------------------------------------------------------------------------
(* lock_write() and unlock_write() *)

\* compare_exchange_weak(false, true), until it succeeds.
TakeFlag(w) ==
  /\ pc[w] = "out"
  /\ ~writer_
  /\ writer_' = TRUE
  /\ Hide(w)
  /\ Goto(w, "drain")
  /\ UNCHANGED readers_

\* while (readers_ != 0) yield(): the step that leaves the loop.
Drain(w) ==
  /\ pc[w] = "drain"
  /\ SeenReaders = 0
  /\ Goto(w, "writing")
  /\ UNCHANGED <<readers_, writer_, hidden>>

ClearFlag(w) ==
  /\ pc[w] = "writing"
  /\ writer_' = FALSE
  /\ hidden' = hidden \ {w}
  /\ Goto(w, "out")
  /\ UNCHANGED readers_

-----------------------------------------------------------------------------
ReadStep(r) == CountIn(r) \/ Recheck(r) \/ CountOut(r)
WriteStep(w) == Drain(w) \/ ClearFlag(w)

Next ==
  \/ \E r \in Readers : AwaitNoWriter(r) \/ ReadStep(r)
  \/ \E w \in Writers : TakeFlag(w) \/ WriteStep(w)
  \/ \E t \in Lockers : Settle(t)

Spec == Init /\ [][Next]_vars

\* Threads inside lock or unlock run, critical sections end, stores arrive.
Fairness ==
  /\ \A r \in Readers : WF_vars(ReadStep(r)) /\ WF_vars(Settle(r))
  /\ \A w \in Writers : WF_vars(WriteStep(w)) /\ WF_vars(Settle(w))

FairSpec == Spec /\ Fairness

-----------------------------------------------------------------------------
(* Types; readers_ is unsigned in the code and counts each reader once.    *)
TypeOK ==
  /\ readers_ \in 0 .. Cardinality(Readers)
  /\ writer_ \in BOOLEAN
  /\ pc \in [Lockers -> {"out", "count", "recheck", "backout", "reading",
                         "drain", "writing"}]
  /\ hidden \subseteq Lockers

(* A writer excludes every reader and every other writer.                  *)
WriterExclusive ==
  \A w \in Writers : pc[w] = "writing" =>
    \A t \in Lockers : pc[t] \in {"reading", "writing"} => t = w

(* Two writers never hold the lock at once, lingering stores or not: the   *)
(* flag is taken with a read-modify-write, which misses no store.          *)
WritersExclude ==
  \A v, w \in Writers : {pc[v], pc[w]} \subseteq {"drain", "writing"} => v = w

(* Writers are preferred: once a writer has the flag, readers drain and it *)
(* gets in, however many readers keep coming.                              *)
WriterEnters == \A w \in Writers : pc[w] = "drain" ~> pc[w] = "writing"
-----------------------------------------------------------------------------
ReaderAt == {"out", "count", "recheck", "backout", "reading"}
WriterAt == {"out", "drain", "writing"}
Counted == {r \in Readers : pc[r] \in {"recheck", "backout", "reading"}}

\* What lingering stores cannot disturb: the flag belongs to one writer.
FlagInv ==
  /\ writer_ \in BOOLEAN
  /\ pc \in [Lockers -> ReaderAt \cup WriterAt]
  /\ \A r \in Readers : pc[r] \in ReaderAt
  /\ \A w \in Writers : pc[w] \in WriterAt
  /\ \A w \in Writers : pc[w] \in {"drain", "writing"} => writer_
  /\ WritersExclude

\* Nor this: every reader that is in has counted itself once.
Counting == readers_ = Cardinality(Counted) /\ hidden \subseteq Lockers

\* What they can: a writer has waited for the count to drain.
Drained ==
  /\ hidden = {}
  /\ \A w \in Writers : pc[w] = "writing" => \A r \in Readers : pc[r] # "reading"
=============================================================================
