---------------------------- MODULE BoundedFifo ----------------------------
(***************************************************************************)
(* What a bounded FIFO queue promises: values come out in the order they   *)
(* went in, each once, and at most Limit of them are inside.               *)
(***************************************************************************)
EXTENDS Integers, Sequences

CONSTANTS Values, NoValue, Limit

VARIABLES
  q,          \* the values inside, the oldest first
  delivered   \* the value that came out last

QInit == q = <<>> /\ delivered = NoValue

Put(v) ==
  /\ Len(q) < Limit
  /\ q' = Append(q, v)
  /\ UNCHANGED delivered

Get ==
  /\ q # <<>>
  /\ delivered' = Head(q)
  /\ q' = Tail(q)

QNext == Get \/ \E v \in Values : Put(v)

QSpec == QInit /\ [][QNext]_<<q, delivered>>
=============================================================================
