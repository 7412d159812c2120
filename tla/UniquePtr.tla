------------------------------ MODULE UniquePtr ------------------------------
(***************************************************************************)
(* UniquePtr and its array specialisation (memory/03_unique_ptr): a        *)
(* pointer and the deleter that fits what it points to.  The caller makes  *)
(* objects for a given deleter and adopts what release() gave away with    *)
(* that deleter; the moves, resets and swaps have to keep the two          *)
(* together.                                                               *)
(***************************************************************************)
EXTENDS Naturals, FiniteSets

CONSTANTS Handles, Objects, Deleters, Null

VARIABLES
  ptr_, deleter_,  \* of each handle
  kind,            \* the deleter an object is made for, or Null: not made yet
  raw,             \* what release() handed to the caller
  destroyedBy      \* the deleters an object was destroyed with, in a bag

vars == <<ptr_, deleter_, kind, raw, destroyedBy>>

Init ==
  /\ ptr_ = [h \in Handles |-> Null]
  /\ deleter_ \in [Handles -> Deleters]
  /\ kind = [o \in Objects |-> Null]
  /\ raw = {}
  /\ destroyedBy = [o \in Objects |-> [d \in Deleters |-> 0]]

\* deleter d runs on o, if there is one.
Destroy(o, d) ==
  destroyedBy' = IF o = Null THEN destroyedBy
                 ELSE [destroyedBy EXCEPT ![o][d] = @ + 1]

\* reset(new T), of an object for the deleter the handle has.
ResetNew(h, o) ==
  /\ kind[o] = Null
  /\ kind' = [kind EXCEPT ![o] = deleter_[h]]
  /\ ptr_' = [ptr_ EXCEPT ![h] = o]
  /\ Destroy(ptr_[h], deleter_[h])
  /\ UNCHANGED <<deleter_, raw>>

\* reset() and the destructor.
Reset(h) ==
  /\ ptr_' = [ptr_ EXCEPT ![h] = Null]
  /\ Destroy(ptr_[h], deleter_[h])
  /\ UNCHANGED <<deleter_, kind, raw>>

Release(h) ==
  /\ ptr_[h] # Null
  /\ raw' = raw \cup {ptr_[h]}
  /\ ptr_' = [ptr_ EXCEPT ![h] = Null]
  /\ UNCHANGED <<deleter_, kind, destroyedBy>>

\* h = UniquePtr(p, d): the temporary is moved from and dies empty.
Adopt(h, o) ==
  /\ o \in raw
  /\ raw' = raw \ {o}
  /\ ptr_' = [ptr_ EXCEPT ![h] = o]
  /\ Destroy(ptr_[h], deleter_[h])
  /\ deleter_' = [deleter_ EXCEPT ![h] = kind[o]]
  /\ UNCHANGED kind

\* Mutant: the deleter stays behind.
MoveLeavesDeleter(h, k) ==
  /\ h # k
  /\ ptr_' = [ptr_ EXCEPT ![h] = ptr_[k], ![k] = Null]
  /\ Destroy(ptr_[h], deleter_[h])
  /\ UNCHANGED <<deleter_, kind, raw>>

\* Move assignment: the old object is destroyed with the old deleter.  A
\* self-move does nothing.
MoveAssign(h, k) ==
  /\ h # k
  /\ ptr_' = [ptr_ EXCEPT ![h] = ptr_[k], ![k] = Null]
  /\ Destroy(ptr_[h], deleter_[h])
  /\ deleter_' = [deleter_ EXCEPT ![h] = deleter_[k]]
  /\ UNCHANGED <<kind, raw>>

Swap(h, k) ==
  /\ ptr_' = [ptr_ EXCEPT ![h] = ptr_[k], ![k] = ptr_[h]]
  /\ deleter_' = [deleter_ EXCEPT ![h] = deleter_[k], ![k] = deleter_[h]]
  /\ UNCHANGED <<kind, raw, destroyedBy>>

Next == \E h \in Handles :
  \/ Reset(h) \/ Release(h)
  \/ \E o \in Objects : ResetNew(h, o) \/ Adopt(h, o)
  \/ \E k \in Handles : MoveAssign(h, k) \/ Swap(h, k)

Spec == Init /\ [][Next]_vars

-----------------------------------------------------------------------------
TypeOK ==
  /\ ptr_ \in [Handles -> Objects \cup {Null}] /\ deleter_ \in [Handles -> Deleters]
  /\ kind \in [Objects -> Deleters \cup {Null}] /\ raw \subseteq Objects
  /\ destroyedBy \in [Objects -> [Deleters -> Nat]]

(* UniquePtr: an object that was made is in one place, a handle that has   *)
(* its deleter, the caller's hands or the grave, where its own deleter put *)
(* it, once.                                                               *)
OneOwner == \A o \in Objects : kind[o] # Null =>
  LET owners == {h \in Handles : ptr_[h] = o}
      graves == {d \in Deleters : destroyedBy[o][d] > 0}
  IN /\ Cardinality(owners) + Cardinality(graves) + (IF o \in raw THEN 1 ELSE 0) = 1
     /\ \A h \in owners : deleter_[h] = kind[o]
     /\ \A d \in graves : d = kind[o] /\ destroyedBy[o][d] = 1

-----------------------------------------------------------------------------
\* Null is neither an object nor a deleter.
Apart == Null \notin Objects /\ Null \notin Deleters

\* A handle is the only place of its object, and has its deleter.
Held == \A h \in Handles : ptr_[h] # Null =>
  /\ kind[ptr_[h]] = deleter_[h] /\ ptr_[h] \notin raw
  /\ \A k \in Handles : ptr_[k] = ptr_[h] => k = h
  /\ \A d \in Deleters : destroyedBy[ptr_[h]][d] = 0

\* What the caller has is alive.
GivenAway == \A o \in raw : kind[o] # Null /\ \A d \in Deleters : destroyedBy[o][d] = 0

\* Destroyed once, with the deleter it was made for.
Dead == \A o \in Objects, d \in Deleters :
  destroyedBy[o][d] > 0 => d = kind[o] /\ destroyedBy[o][d] = 1

\* An object that was made is somewhere.
NotLost == \A o \in Objects : kind[o] # Null =>
  \/ \E h \in Handles : ptr_[h] = o
  \/ o \in raw
  \/ destroyedBy[o][kind[o]] > 0

\* What every step keeps.
IInv == Apart /\ TypeOK /\ Held /\ GivenAway /\ Dead /\ NotLost
=============================================================================
