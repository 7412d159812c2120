---------------------------- MODULE BorrowGuards ----------------------------
(***************************************************************************)
(* BorrowBox and its guards BorrowRef and BorrowMut                        *)
(* (memory/05_borrow_guards): many readers or one writer, counted by the   *)
(* box.  A guard is the box its owner_ points to, or Null.  The guard that *)
(* try_borrow() returns is moved into a variable of the caller, whose old  *)
(* borrow is released then.                                                *)
(***************************************************************************)
EXTENDS Naturals, FiniteSets

CONSTANTS Boxes, Refs, Muts, Null

VARIABLES
  readers_, writer_,  \* of each box
  ref, mut            \* owner_ of each guard

vars == <<readers_, writer_, ref, mut>>

Init ==
  /\ readers_ = [b \in Boxes |-> 0]
  /\ writer_ = [b \in Boxes |-> FALSE]
  /\ ref = [r \in Refs |-> Null]
  /\ mut = [m \in Muts |-> Null]

\* release() of a guard on box b, if it has one.
ReleaseShared(count, b) == IF b = Null THEN count ELSE [count EXCEPT ![b] = @ - 1]
ReleaseMut(flag, b) == IF b = Null THEN flag ELSE [flag EXCEPT ![b] = FALSE]

TryBorrow(r, b) ==
  /\ ~writer_[b]
  /\ readers_' = ReleaseShared([readers_ EXCEPT ![b] = @ + 1], ref[r])
  /\ ref' = [ref EXCEPT ![r] = b]
  /\ UNCHANGED <<writer_, mut>>

\* Mutant: only writers keep a writer out.
TryBorrowMutOverReaders(m, b) ==
  /\ ~writer_[b]
  /\ writer_' = ReleaseMut([writer_ EXCEPT ![b] = TRUE], mut[m])
  /\ mut' = [mut EXCEPT ![m] = b]
  /\ UNCHANGED <<readers_, ref>>

TryBorrowMut(m, b) ==
  /\ ~writer_[b] /\ readers_[b] = 0
  /\ writer_' = ReleaseMut([writer_ EXCEPT ![b] = TRUE], mut[m])
  /\ mut' = [mut EXCEPT ![m] = b]
  /\ UNCHANGED <<readers_, ref>>

\* Move assignment; a self-move does nothing.
MoveRef(r, s) ==
  /\ r # s
  /\ readers_' = ReleaseShared(readers_, ref[r])
  /\ ref' = [ref EXCEPT ![r] = ref[s], ![s] = Null]
  /\ UNCHANGED <<writer_, mut>>

MoveMut(m, n) ==
  /\ m # n
  /\ writer_' = ReleaseMut(writer_, mut[m])
  /\ mut' = [mut EXCEPT ![m] = mut[n], ![n] = Null]
  /\ UNCHANGED <<readers_, ref>>

\* The destructors.
DropRef(r) ==
  /\ readers_' = ReleaseShared(readers_, ref[r])
  /\ ref' = [ref EXCEPT ![r] = Null]
  /\ UNCHANGED <<writer_, mut>>

DropMut(m) ==
  /\ writer_' = ReleaseMut(writer_, mut[m])
  /\ mut' = [mut EXCEPT ![m] = Null]
  /\ UNCHANGED <<readers_, ref>>

RefOps(r) ==
  \/ DropRef(r)
  \/ \E s \in Refs : MoveRef(r, s)
  \/ \E b \in Boxes : TryBorrow(r, b)

MutOps(m) ==
  \/ DropMut(m)
  \/ \E n \in Muts : MoveMut(m, n)
  \/ \E b \in Boxes : TryBorrowMut(m, b)

Next == (\E r \in Refs : RefOps(r)) \/ (\E m \in Muts : MutOps(m))

Spec == Init /\ [][Next]_vars

-----------------------------------------------------------------------------
TypeOK ==
  /\ readers_ \in [Boxes -> Nat] /\ writer_ \in [Boxes -> BOOLEAN]
  /\ ref \in [Refs -> Boxes \cup {Null}] /\ mut \in [Muts -> Boxes \cup {Null}]

Readers(b) == {r \in Refs : ref[r] = b}
Writers(b) == {m \in Muts : mut[m] = b}

\* The box knows its guards.
Counted == \A b \in Boxes :
  /\ readers_[b] = Cardinality(Readers(b))
  /\ writer_[b] <=> Writers(b) # {}

(* BorrowBox: no two guards are on a box if one of them writes, however    *)
(* the guards were moved about; and the box knows its guards, so that what *)
(* is free can be borrowed.                                                *)
SharedXorMutable ==
  /\ Counted
  /\ \A b \in Boxes : \A m \in Writers(b) : Writers(b) = {m} /\ Readers(b) = {}

-----------------------------------------------------------------------------
\* What every step keeps.
IInv == TypeOK /\ SharedXorMutable
=============================================================================
