---------------------------- MODULE TokenBucket -----------------------------
(***************************************************************************)
(* The rate limiter of logic/04_token_bucket, each method under mu_.  A    *)
(* unit of tokens is what a unit of time refills.                          *)
(***************************************************************************)
EXTENDS Integers, FiniteSetsExt

CONSTANTS burst_, Requests, MaxTime

Times == 0 .. MaxTime

VARIABLES
  tokens_, last_refill_, now_,
  spent   \* spent[t]: tokens acquired until the clock has left t

vars == <<tokens_, last_refill_, now_, spent>>

Init ==
  /\ tokens_ = burst_ /\ last_refill_ = 0 /\ now_ = 0
  /\ spent = [t \in Times |-> 0]

\* Mutant: the bucket overflows.
RefilledPastBurst == tokens_ + (now_ - last_refill_)

Refilled == Min({burst_, tokens_ + (now_ - last_refill_)})

try_acquire(n) ==
  /\ last_refill_' = now_
  /\ tokens_' = IF Refilled < n THEN Refilled ELSE Refilled - n
  /\ spent' = IF Refilled < n THEN spent ELSE [t \in Times |-> spent[t] + IF t < now_ THEN 0 ELSE n]
  /\ UNCHANGED now_

advance(elapsed) ==
  /\ now_ + elapsed <= MaxTime
  /\ now_' = now_ + elapsed
  /\ UNCHANGED <<tokens_, last_refill_, spent>>

Next ==
  \/ \E n \in Requests : try_acquire(n)
  \/ \E e \in 1 .. MaxTime : advance(e)

Spec == Init /\ [][Next]_vars

-----------------------------------------------------------------------------
\* Tokens acquired from a to b.
SpentIn(a, b) == spent[b] - (IF a = 0 THEN 0 ELSE spent[a - 1])

(* TokenBucket: in no stretch of time are more tokens acquired than a full *)
(* bucket and what the stretch refills, however idle time, failed and      *)
(* successful calls alternate.                                             *)
RateKept == \A a, b \in Times : a <= b => SpentIn(a, b) <= burst_ + (b - a)

-----------------------------------------------------------------------------
Sized == burst_ \in Nat /\ MaxTime \in Nat /\ Requests \subseteq Nat

\* Types.
Types ==
  /\ now_ \in Times /\ last_refill_ \in 0 .. now_
  /\ tokens_ \in 0 .. burst_ /\ spent \in [Times -> Nat]

\* Nothing was acquired since the last refill, and the bucket holds no more than
\* is left of a full one and of what was refilled since any earlier time.
Filled ==
  /\ \A t \in Times : t >= last_refill_ => spent[t] = spent[last_refill_]
  /\ \A a \in 0 .. last_refill_ :
       SpentIn(a, last_refill_) + tokens_ <= burst_ + (last_refill_ - a)

\* What every step keeps.
IInv == Types /\ Filled /\ RateKept
=============================================================================
