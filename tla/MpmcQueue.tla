----------------------------- MODULE MpmcQueue -----------------------------
(***************************************************************************)
(* MpmcQueue of exercises/concurrency/05_ring_buffer_mpmc: Vyukov's bounded*)
(* queue, one action per access to shared memory.  Positions are the       *)
(* size_t counters head_ and tail_, which no program lives long enough to  *)
(* wrap; the slot of position p is p % Capacity.  The two overloads of     *)
(* push() differ only in copying or moving the value.                      *)
(***************************************************************************)
EXTENDS Integers, Sequences

CONSTANTS
  Producers, Consumers,
  Capacity,     \* slots_.size()
  MaxPush       \* bound: how often a producer calls push()

VARIABLES
  head_, tail_, value, seq,   \* value and seq are the fields of slots_
  pc,
  pos,        \* the local of try_enqueue() and try_pop()
  sent,       \* sent[p]: how many values p has claimed a position for
  log,        \* log[i + 1]: the value pushed at position i
  got         \* the pairs <<position, value>> that try_pop() has delivered

vars == <<head_, tail_, value, seq, pc, pos, sent, log, got>>

Indices == 0 .. Capacity - 1
Threads == Producers \cup Consumers
Items == Producers \X (1 .. MaxPush)
Empty == <<>>                   \* T{}
Cell(p) == p % Capacity

Init ==
  /\ head_ = 0
  /\ tail_ = 0
  /\ value = [i \in Indices |-> Empty]
  /\ seq = [i \in Indices |-> i]
  /\ pc = [t \in Threads |-> "idle"]
  /\ pos = [t \in Threads |-> 0]
  /\ sent = [p \in Producers |-> 0]
  /\ log = <<>>
  /\ got = {}

Goto(t, l) == pc' = [pc EXCEPT ![t] = l]

-----------------------------------------------------------------------------
(* push(): try_enqueue() until it succeeds *)

\* pos = tail_.load(), on entry, after "full" and for a stale pos.
LoadTail(p) ==
  /\ \/ pc[p] = "idle" /\ sent[p] < MaxPush
     \/ pc[p] = "load"
  /\ pos' = [pos EXCEPT ![p] = tail_]
  /\ Goto(p, "seq")
  /\ UNCHANGED <<head_, tail_, value, seq, sent, log, got>>

\* Mutant: a slot that is not recycled yet counts as free.
CheckNotBehind(p) ==
  /\ pc[p] = "seq"
  /\ Goto(p, IF seq[Cell(pos[p])] <= pos[p] THEN "cas" ELSE "load")
  /\ UNCHANGED <<head_, tail_, value, seq, pos, sent, log, got>>

\* dif = seq - pos: claimable at 0; full below, stale above: load again.
CheckFree(p) ==
  /\ pc[p] = "seq"
  /\ Goto(p, IF seq[Cell(pos[p])] = pos[p] THEN "cas" ELSE "load")
  /\ UNCHANGED <<head_, tail_, value, seq, pos, sent, log, got>>

ClaimTail(p) ==
  /\ pc[p] = "cas"
  /\ tail_ = pos[p]
  /\ tail_' = pos[p] + 1
  /\ sent' = [sent EXCEPT ![p] = @ + 1]
  /\ log' = Append(log, <<p, sent[p] + 1>>)
  /\ Goto(p, "write")
  /\ UNCHANGED <<head_, value, seq, pos, got>>

\* The weak CAS fails, because of another producer or spuriously.
ClaimTailFails(p) ==
  /\ pc[p] = "cas"
  /\ pos' = [pos EXCEPT ![p] = tail_]
  /\ Goto(p, "seq")
  /\ UNCHANGED <<head_, tail_, value, seq, sent, log, got>>

Write(p) ==
  /\ pc[p] = "write"
  /\ value' = [value EXCEPT ![Cell(pos[p])] = <<p, sent[p]>>]
  /\ Goto(p, "publish")
  /\ UNCHANGED <<head_, tail_, seq, pos, sent, log, got>>

Publish(p) ==
  /\ pc[p] = "publish"
  /\ seq' = [seq EXCEPT ![Cell(pos[p])] = pos[p] + 1]
  /\ Goto(p, "idle")
  /\ UNCHANGED <<head_, tail_, value, pos, sent, log, got>>

-----------------------------------------------------------------------------
(* try_pop() *)

LoadHead(c) ==
  /\ pc[c] \in {"idle", "load"}
  /\ pos' = [pos EXCEPT ![c] = head_]
  /\ Goto(c, "seq")
  /\ UNCHANGED <<head_, tail_, value, seq, sent, log, got>>

\* Mutant: a slot that is only claimed counts as filled.
CheckClaimed(c) ==
  /\ pc[c] = "seq"
  /\ Goto(c, IF seq[Cell(pos[c])] >= pos[c] THEN "cas" ELSE "idle")
  /\ UNCHANGED <<head_, tail_, value, seq, pos, sent, log, got>>

\* dif = seq - (pos + 1): empty below 0 (return false), stale above.
CheckFilled(c) ==
  /\ pc[c] = "seq"
  /\ LET dif == seq[Cell(pos[c])] - (pos[c] + 1) IN
       Goto(c, IF dif = 0 THEN "cas" ELSE IF dif < 0 THEN "idle" ELSE "load")
  /\ UNCHANGED <<head_, tail_, value, seq, pos, sent, log, got>>

ClaimHead(c) ==
  /\ pc[c] = "cas"
  /\ head_ = pos[c]
  /\ head_' = pos[c] + 1
  /\ Goto(c, "read")
  /\ UNCHANGED <<tail_, value, seq, pos, sent, log, got>>

ClaimHeadFails(c) ==
  /\ pc[c] = "cas"
  /\ pos' = [pos EXCEPT ![c] = head_]
  /\ Goto(c, "seq")
  /\ UNCHANGED <<head_, tail_, value, seq, sent, log, got>>

Read(c) ==
  /\ pc[c] = "read"
  /\ got' = got \cup {<<pos[c], value[Cell(pos[c])]>>}
  /\ Goto(c, "recycle")
  /\ UNCHANGED <<head_, tail_, value, seq, pos, sent, log>>

\* Mutant: the slot goes back a round instead of forward.
RecycleBackwards(c) ==
  /\ pc[c] = "recycle"
  /\ seq' = [seq EXCEPT ![Cell(pos[c])] = pos[c] - Capacity]
  /\ Goto(c, "idle")
  /\ UNCHANGED <<head_, tail_, value, pos, sent, log, got>>

Recycle(c) ==
  /\ pc[c] = "recycle"
  /\ seq' = [seq EXCEPT ![Cell(pos[c])] = pos[c] + Capacity]
  /\ Goto(c, "idle")
  /\ UNCHANGED <<head_, tail_, value, pos, sent, log, got>>

-----------------------------------------------------------------------------
PushStep(p) ==
  \/ LoadTail(p) \/ CheckFree(p) \/ ClaimTail(p) \/ ClaimTailFails(p)
  \/ Write(p) \/ Publish(p)

PopStep(c) ==
  \/ LoadHead(c) \/ CheckFilled(c) \/ ClaimHead(c) \/ ClaimHeadFails(c)
  \/ Read(c) \/ Recycle(c)

Next == (\E p \in Producers : PushStep(p)) \/ (\E c \in Consumers : PopStep(c))

Spec == Init /\ [][Next]_vars

\* Threads run, producers push all they have, consumers poll for ever, and a
\* weak CAS that keeps finding its position unchanged succeeds in the end.
Fairness ==
  /\ \A p \in Producers : WF_vars(PushStep(p)) /\ SF_vars(ClaimTail(p))
  /\ \A c \in Consumers : WF_vars(PopStep(c)) /\ SF_vars(ClaimHead(c))

FairSpec == Spec /\ Fairness

-----------------------------------------------------------------------------
(* Types; sequence numbers never go below zero.                            *)
TypeOK ==
  /\ head_ \in Nat /\ tail_ \in Nat
  /\ value \in [Indices -> Items \cup {Empty}]
  /\ seq \in [Indices -> Nat]
  /\ pc \in [Threads -> {"idle", "load", "seq", "cas", "write", "publish",
                         "read", "recycle"}]
  /\ pos \in [Threads -> Nat]
  /\ sent \in [Producers -> 0 .. MaxPush]
  /\ log \in Seq(Items)
  /\ got \subseteq Nat \X (Items \cup {Empty})

(* At most Capacity positions are claimed and not yet popped.              *)
CapacityRespected == head_ <= tail_ /\ tail_ - head_ <= Capacity

\* The threads that own a slot: from their CAS to their store of seq.
Inside == {t \in Threads : pc[t] \in {"write", "publish", "read", "recycle"}}

(* No two threads own one slot at a time, so that the plain reads and      *)
(* writes of value never race.                                             *)
SlotExclusive == \A t, u \in Inside : Cell(pos[t]) = Cell(pos[u]) => t = u

(* The queue is FIFO and delivers every value once: the value delivered    *)
(* for a position is the value pushed there, and one per position.         *)
DeliversInOrder ==
  /\ \A g \in got : g[1] < Len(log) /\ g[2] = log[g[1] + 1]
  /\ \A g, h \in got : g[1] = h[1] => g = h

(* Every pushed value is delivered as long as consumers keep polling; in   *)
(* particular a producer that found the queue full gets its turn.          *)
AllDelivered ==
  \A p \in Producers, n \in 1 .. MaxPush : <>(\E g \in got : g[2] = <<p, n>>)

-----------------------------------------------------------------------------
\* Two slots at least, and no thread pushes and pops.
Sized == Capacity \in Nat \ {0, 1} /\ MaxPush \in Nat /\ Producers \cap Consumers = {}

\* What each thread may be doing; a producer on its way to the CAS has a value
\* left to push.
Roles ==
  /\ \A p \in Producers :
       /\ pc[p] \in {"idle", "load", "seq", "cas", "write", "publish"}
       /\ pc[p] \in {"load", "seq", "cas"} => sent[p] < MaxPush
       /\ pc[p] \in {"write", "publish"} => sent[p] \in 1 .. MaxPush
  /\ \A c \in Consumers :
       pc[c] \in {"idle", "load", "seq", "cas", "read", "recycle"}

\* A slot, by the position it serves next: claimed or filled, free or not
\* recycled yet.
Slots ==
  /\ \A q \in head_ .. tail_ - 1 :
       \/ seq[Cell(q)] = q
       \/ seq[Cell(q)] = q + 1 /\ value[Cell(q)] = log[q + 1]
  /\ \A q \in tail_ .. head_ + Capacity - 1 :
       seq[Cell(q)] \in {q, q - Capacity + 1}

\* What a producer knows: a slot that was free when it looked is free as long as
\* tail_ has not moved; one it has claimed is its own, and log has its value.
Pushing(p) ==
  /\ pos[p] <= tail_
  /\ pc[p] = "cas" /\ pos[p] = tail_ => seq[Cell(pos[p])] = pos[p]
  /\ pc[p] \in {"write", "publish"} =>
       /\ head_ <= pos[p] /\ pos[p] < tail_
       /\ seq[Cell(pos[p])] = pos[p] /\ log[pos[p] + 1] = <<p, sent[p]>>
  /\ pc[p] = "publish" => value[Cell(pos[p])] = log[pos[p] + 1]

\* What a consumer knows, likewise.
Popping(c) ==
  /\ pos[c] <= head_
  /\ pc[c] = "cas" /\ pos[c] = head_ => seq[Cell(pos[c])] = pos[c] + 1
  /\ pc[c] \in {"read", "recycle"} =>
       /\ pos[c] < head_ /\ tail_ <= pos[c] + Capacity
       /\ seq[Cell(pos[c])] = pos[c] + 1 /\ value[Cell(pos[c])] = log[pos[c] + 1]

\* The CAS gives a position to one thread.
Claims ==
  /\ \A p, r \in Producers :
       {pc[p], pc[r]} \subseteq {"write", "publish"} /\ pos[p] = pos[r] => p = r
  /\ \A c, d \in Consumers :
       {pc[c], pc[d]} \subseteq {"read", "recycle"} /\ pos[c] = pos[d] => c = d

\* What try_pop() has delivered was pushed at that position.
Delivered == \A g \in got : g[1] < head_ /\ g[2] = log[g[1] + 1]

\* What every step keeps.
IInv ==
  /\ TypeOK /\ Roles /\ Slots /\ CapacityRespected /\ Len(log) = tail_
  /\ \A p \in Producers : Pushing(p)
  /\ \A c \in Consumers : Popping(c)
  /\ Claims /\ Delivered
=============================================================================
