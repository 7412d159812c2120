---------------------------- MODULE StateBorrow ----------------------------
(***************************************************************************)
(* SBox, LockedBox and their handles SRef and SMut                         *)
(* (memory/07_state_borrow): borrowing for writing turns the SBox into a   *)
(* LockedBox, which release() turns back.  Boxes, locks and handles are    *)
(* variables of the caller, the objects they hold values.                  *)
(***************************************************************************)
EXTENDS Naturals, FiniteSets

CONSTANTS
  Boxes, Locks, Refs, Muts, Values, Null,
  MaxCarried,  \* bound: a count that is moved along with an SBox
  Disciplined  \* the caller hands release() the SMut that belongs to the lock,
               \* and assigns to no SBox that has lent a handle out or holds
               \* an object that is read

VARIABLES
  value_, readers_,  \* of each SBox
  locked,            \* the object of each LockedBox
  ref,               \* ptr_ and owner_ of each SRef
  mut,               \* ptr_ of each SMut
  carried            \* the part of readers_ that came with the object

vars == <<value_, readers_, locked, ref, mut, carried>>

Empty == [ptr |-> Null, owner |-> Null]

\* Every box holds an object of its own.
Init ==
  /\ value_ \in {v \in [Boxes -> Values] : \A a, b \in Boxes : v[a] = v[b] => a = b}
  /\ readers_ = [b \in Boxes |-> 0]
  /\ locked = [l \in Locks |-> Null]
  /\ ref = [r \in Refs |-> Empty]
  /\ mut = [m \in Muts |-> Null]
  /\ carried = [b \in Boxes |-> 0]

AddReader(count, b) == IF b = Null THEN count ELSE [count EXCEPT ![b] = @ + 1]
ReleaseReader(count, b) == IF b = Null THEN count ELSE [count EXCEPT ![b] = @ - 1]

\* r = *box.borrow(): the new borrow is counted before the old one ends.
Borrow(r, b) ==
  /\ value_[b] # Null
  /\ readers_' = ReleaseReader(AddReader(readers_, b), ref[r].owner)
  /\ ref' = [ref EXCEPT ![r] = [ptr |-> value_[b], owner |-> b]]
  /\ UNCHANGED <<value_, locked, mut, carried>>

\* Copy assignment ends the old borrow first.
CopyRef(r, s) ==
  /\ r # s
  /\ readers_' = AddReader(ReleaseReader(readers_, ref[r].owner), ref[s].owner)
  /\ ref' = [ref EXCEPT ![r] = ref[s]]
  /\ UNCHANGED <<value_, locked, mut, carried>>

MoveRef(r, s) ==
  /\ r # s
  /\ readers_' = ReleaseReader(readers_, ref[r].owner)
  /\ ref' = [ref EXCEPT ![r] = ref[s], ![s] = Empty]
  /\ UNCHANGED <<value_, locked, mut, carried>>

DropRef(r) ==
  /\ readers_' = ReleaseReader(readers_, ref[r].owner)
  /\ ref' = [ref EXCEPT ![r] = Empty]
  /\ UNCHANGED <<value_, locked, mut, carried>>

RefOps(r) ==
  \/ DropRef(r)
  \/ \E s \in Refs : CopyRef(r, s) \/ MoveRef(r, s)
  \/ \E b \in Boxes : Borrow(r, b)

\* Mutant: readers do not keep a writer out.
BorrowMutOverReaders(b, l, m) ==
  /\ value_[b] # Null /\ locked[l] = Null /\ mut[m] = Null
  /\ locked' = [locked EXCEPT ![l] = value_[b]]
  /\ mut' = [mut EXCEPT ![m] = value_[b]]
  /\ value_' = [value_ EXCEPT ![b] = Null]
  /\ UNCHANGED <<readers_, ref, carried>>

\* With readers it throws, and nothing changes.
BorrowMut(b, l, m) ==
  /\ value_[b] # Null /\ locked[l] = Null /\ mut[m] = Null
  /\ readers_[b] = 0
  /\ locked' = [locked EXCEPT ![l] = value_[b]]
  /\ mut' = [mut EXCEPT ![m] = value_[b]]
  /\ value_' = [value_ EXCEPT ![b] = Null]
  /\ UNCHANGED <<readers_, ref, carried>>

Readers(b) == {r \in Refs : ref[r].owner = b}
Assignable(b) == Readers(b) = {} /\ \A r \in Refs : ref[r].ptr # Null => ref[r].ptr # value_[b]

\* b = std::move(l).release(std::move(m)): whatever m is.  The box in the lock
\* has no readers.
Release(l, m, b) ==
  /\ locked[l] # Null /\ value_[b] = Null
  /\ Disciplined => mut[m] = locked[l] /\ Assignable(b)
  /\ value_' = [value_ EXCEPT ![b] = locked[l]]
  /\ readers_' = [readers_ EXCEPT ![b] = 0]
  /\ locked' = [locked EXCEPT ![l] = Null]
  /\ mut' = [mut EXCEPT ![m] = Null]
  /\ carried' = [carried EXCEPT ![b] = 0]
  /\ UNCHANGED ref

MoveMut(m, n) ==
  /\ m # n
  /\ mut' = [mut EXCEPT ![m] = mut[n], ![n] = Null]
  /\ UNCHANGED <<value_, readers_, locked, ref, carried>>

\* The defaulted move assignment copies the count and leaves it behind too;
\* handles that c has lent out still name c, and read what is now in b.
MoveBox(b, c) ==
  /\ b # c /\ readers_[c] <= MaxCarried
  /\ Disciplined => Assignable(b)
  /\ value_' = [value_ EXCEPT ![b] = value_[c], ![c] = Null]
  /\ readers_' = [readers_ EXCEPT ![b] = readers_[c]]
  /\ carried' = [carried EXCEPT ![b] = readers_[c]]
  /\ UNCHANGED <<locked, ref, mut>>

BoxOps(b) ==
  \/ \E c \in Boxes : MoveBox(b, c)
  \/ \E l \in Locks, m \in Muts : BorrowMut(b, l, m) \/ Release(l, m, b)

Next ==
  \/ \E r \in Refs : RefOps(r)
  \/ \E b \in Boxes : BoxOps(b)
  \/ \E m, n \in Muts : MoveMut(m, n)

Spec == Init /\ [][Next]_vars

-----------------------------------------------------------------------------
TypeOK ==
  /\ value_ \in [Boxes -> Values \cup {Null}] /\ readers_ \in [Boxes -> Nat]
  /\ locked \in [Locks -> Values \cup {Null}]
  /\ ref \in [Refs -> [ptr : Values \cup {Null}, owner : Boxes \cup {Null}]]
  /\ mut \in [Muts -> Values \cup {Null}] /\ carried \in [Boxes -> Nat]

(* SBox and LockedBox: an object that an SMut writes has no reader and no  *)
(* second writer, and no SBox offers it to either.                         *)
WritersAlone == \A m \in Muts : mut[m] # Null =>
  /\ \A n \in Muts \ {m} : mut[n] # mut[m]
  /\ \A r \in Refs : ref[r].ptr # mut[m]
  /\ \A b \in Boxes : value_[b] # mut[m]

\* An SBox counts the handles borrowed from it, besides what its object was
\* counted before it was moved there.
ReadersCounted == \A b \in Boxes : readers_[b] = Cardinality(Readers(b)) + carried[b]

-----------------------------------------------------------------------------
\* Null is not a box and no object; and the caller is disciplined.
Sized == IsFiniteSet(Refs) /\ Null \notin Boxes /\ Null \notin Values /\ Disciplined

\* An object is in one SBox or one LockedBox.
Apart ==
  /\ \A b, c \in Boxes : value_[b] = value_[c] => b = c \/ value_[b] = Null
  /\ \A k, l \in Locks : locked[k] = locked[l] => k = l \/ locked[k] = Null
  /\ \A b \in Boxes, l \in Locks : value_[b] = locked[l] => value_[b] = Null

\* An SMut has the object of a LockedBox, and has it alone.
Writing ==
  /\ \A m \in Muts : mut[m] # Null => \E l \in Locks : locked[l] = mut[m]
  /\ \A m, n \in Muts : mut[m] = mut[n] => m = n \/ mut[m] = Null

\* An SRef has the object of an SBox that counts it, itself or since before
\* the object was moved there.
Counted(h) == \E b \in Boxes : h.ptr = value_[b] /\ (h.owner = b \/ carried[b] > 0)
Reading == \A r \in Refs :
  ref[r] = Empty \/ (ref[r].owner # Null /\ ref[r].ptr # Null /\ Counted(ref[r]))

\* What every step keeps.
IInv == TypeOK /\ Apart /\ Writing /\ Reading /\ ReadersCounted
=============================================================================
