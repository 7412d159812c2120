------------------------------ MODULE RiskGate ------------------------------
(***************************************************************************)
(* RiskGate of exercises/domain/03_risk_gate: position and gross notional  *)
(* packed into one atomic word, moved by a CAS loop.  Half stands for      *)
(* 2^32, the size of either half of the word.  The caller releases an      *)
(* order once for each time it was reserved.                               *)
(***************************************************************************)
EXTENDS Integers, FiniteSetsExt, FiniteSetTheorems, WellFoundedInduction, TLAPS

CONSTANTS
  Threads,
  Orders,           \* records [id, side, price, qty]
  max_position_, max_notional_,
  Half

VARIABLES
  state_,
  pc,               \* "idle", or which of the two loops the thread is in
  order, cur,       \* the argument and the expected word of that loop
  where,            \* history: the orders that are reserved, or with a thread
  freed             \* history: some release() has committed

vars == <<state_, pc, order, cur, where, freed>>

sign_extend(lo) == IF lo >= Half \div 2 THEN lo - Half ELSE lo

pack(position, notional) == (position % Half) + Half * (notional % Half)

Position(word) == sign_extend(word % Half)
Notional(word) == word \div Half

Init ==
  /\ state_ = pack(0, 0)
  /\ pc = [t \in Threads |-> "idle"]
  /\ order = [t \in Threads |-> CHOOSE o \in Orders : TRUE]
  /\ cur = [t \in Threads |-> 0]
  /\ where = [o \in Orders |-> "new"]
  /\ freed = FALSE

PosDelta(o) == IF o.side = "Buy" THEN o.qty ELSE -o.qty
NotionalDelta(o) == o.price * o.qty

\* What check_and_reserve() would commit over the word w.
ReservedPosition(w, o) == Position(w) + PosDelta(o)
ReservedNotional(w, o) == Notional(w) + NotionalDelta(o)

Breach(w, o) ==
  \/ ReservedPosition(w, o) \notin -max_position_ .. max_position_
  \/ ReservedNotional(w, o) \notin 0 .. max_notional_

\* What release() would commit over the word w, the notional clamped at 0.
Released(w, o) ==
  pack(Position(w) - PosDelta(o), Max({0, Notional(w) - NotionalDelta(o)}))

\* Either operation is called on o and loads the word.
Call(t, o, op, from) ==
  /\ pc[t] = "idle"
  /\ where[o] = from
  /\ where' = [where EXCEPT ![o] = op]
  /\ pc' = [pc EXCEPT ![t] = op]
  /\ order' = [order EXCEPT ![t] = o]
  /\ cur' = [cur EXCEPT ![t] = state_]
  /\ UNCHANGED <<state_, freed>>

\* It returns, and leaves the order at s.
Return(t, s) ==
  /\ pc' = [pc EXCEPT ![t] = "idle"]
  /\ where' = [where EXCEPT ![order[t]] = s]
  /\ cur' = [cur EXCEPT ![t] = 0]
  /\ UNCHANGED order

\* A limit would be breached: false, nothing reserved.
Reject(t) ==
  /\ pc[t] = "reserve"
  /\ Breach(cur[t], order[t])
  /\ Return(t, "new")
  /\ UNCHANGED <<state_, freed>>

\* Mutant: the limits are checked, then the word is moved without a CAS.
ReserveAdds(t) ==
  /\ pc[t] = "reserve"
  /\ ~Breach(cur[t], order[t])
  /\ state_' = pack(ReservedPosition(state_, order[t]), ReservedNotional(state_, order[t]))
  /\ Return(t, "reserved")
  /\ UNCHANGED freed

Reserve(t) ==
  /\ pc[t] = "reserve"
  /\ ~Breach(cur[t], order[t])
  /\ state_ = cur[t]
  /\ state_' = pack(ReservedPosition(cur[t], order[t]), ReservedNotional(cur[t], order[t]))
  /\ Return(t, "reserved")
  /\ UNCHANGED freed

Release(t) ==
  /\ pc[t] = "release"
  /\ state_ = cur[t]
  /\ state_' = Released(cur[t], order[t])
  /\ freed' = TRUE
  /\ Return(t, "new")

\* The CAS of either loop fails and refreshes cur.
Retry(t) ==
  /\ \/ pc[t] = "release"
     \/ pc[t] = "reserve" /\ ~Breach(cur[t], order[t])
  /\ cur' = [cur EXCEPT ![t] = state_]
  /\ UNCHANGED <<state_, pc, order, where, freed>>

Next ==
  \E t \in Threads :
    \/ Reject(t) \/ Reserve(t) \/ Release(t) \/ Retry(t)
    \/ \E o \in Orders : Call(t, o, "reserve", "new") \/ Call(t, o, "release", "reserved")

Spec == Init /\ [][Next]_vars

-----------------------------------------------------------------------------
Positions == [o \in Orders |-> PosDelta(o)]
Notionals == [o \in Orders |-> NotionalDelta(o)]

Committed == {o \in Orders : where[o] \in {"reserved", "release"}}

(* No update is lost and none is half done: the two counters are the sums  *)
(* over the orders that are reserved and not yet released, whatever loops  *)
(* are under way, the sign of the position surviving the packing.          *)
CountersAddUp ==
  /\ Position(state_) = SumFunctionOnSet(Positions, Committed)
  /\ Notional(state_) = SumFunctionOnSet(Notionals, Committed)

(* Two callers that both pass the check do not both commit: the notional   *)
(* stays within its limit, and so does the position until something is     *)
(* released (a released sell may leave the buys beyond the limit).         *)
LimitsHold ==
  /\ Notional(state_) <= max_notional_
  /\ freed \/ Position(state_) \in -max_position_ .. max_position_

-----------------------------------------------------------------------------
\* The halves of the word hold the limit and whatever the orders add up to.
Sized ==
  /\ Half \in Nat \ {0} /\ max_position_ \in Nat /\ max_notional_ \in Nat /\ max_notional_ < Half
  /\ IsFiniteSet(Orders) /\ \A o \in Orders : o.qty \in Nat /\ o.price \in Nat
  /\ \A S \in SUBSET Orders :
       SumFunctionOnSet(Positions, S) \in -(Half \div 2) .. (Half \div 2) - 1

\* Position and notional of the orders that are committed.
Total == SumFunctionOnSet(Positions, Committed)

Gross == SumFunctionOnSet(Notionals, Committed)

\* Thread t is in one of the loops.
Busy(t) == pc[t] \in {"reserve", "release"}

\* An order that a thread works on is with that thread alone.
Working ==
  /\ pc \in [Threads -> {"idle", "reserve", "release"}]
  /\ where \in [Orders -> {"new", "reserve", "reserved", "release"}]
  /\ DOMAIN order = Threads /\ DOMAIN cur = Threads
  /\ \A t \in Threads : Busy(t) => order[t] \in Orders /\ where[order[t]] = pc[t]
  /\ \A t, u \in Threads : Busy(t) /\ Busy(u) /\ order[t] = order[u] => t = u

\* What every step keeps.
IInv ==
  /\ Working
  /\ state_ = pack(Total, Gross)
  /\ Gross <= max_notional_
  /\ freed \in BOOLEAN
  /\ freed \/ Total \in -max_position_ .. max_position_

-----------------------------------------------------------------------------
(* Sums over finite sets *)

\* Some element.
Pick(s) == CHOOSE x \in s : TRUE

\* A sum takes one element after the other.
Partial(d, f, s) == IF s = {} THEN 0 ELSE d[Pick(s)] + f[s \ {Pick(s)}]

\* f[s] is the sum over s, for the parts s of S.
AddsUp(d, f, S) == \A s \in SUBSET S : f[s] = Partial(d, f, s)

(* A set of numbers that is not empty has a least one.                     *)
LEMMA NatMin ==
  ASSUME NEW T \in SUBSET Nat, T # {} 
  PROVE  \E x \in T : \A y \in T : x <= y
<1> DEFINE R == OpToRel(<, Nat)
<1>1. IsWellFoundedOn(R, Nat)
  BY NatLessThanWellFounded
<1>2. \A x, y \in Nat : y < x => <<y, x>> \in R
  BY DEF OpToRel
<1> HIDE DEF R
<1>3. PICK x \in T : \A y \in T : ~ (<<y, x>> \in R)
  BY <1>1, WFMin
<1>4. ASSUME NEW y \in T PROVE x <= y
  <2>1. x \in Nat /\ y \in Nat
    OBVIOUS
  <2>2. ~(y < x)
    BY <2>1, <1>2, <1>3, Zenon
  <2> QED
    BY <2>1, <2>2
<1> QED
  BY <1>4

(* A finite set without one of its elements has one less.                  *)
LEMMA SmallerSet ==
  ASSUME NEW s, IsFiniteSet(s), NEW x \in s
  PROVE  IsFiniteSet(s \ {x}) /\ Cardinality(s \ {x}) \in Nat /\ Cardinality(s) = Cardinality(s \ {x}) + 1
<1>1. /\ IsFiniteSet(s \ {x})
      /\ Cardinality(s \ {x}) = Cardinality(s) - 1
  BY FS_RemoveElement
<1>2. Cardinality(s) \in Nat /\ Cardinality(s \ {x}) \in Nat
  BY <1>1, FS_CardinalityType
<1> QED
  BY <1>1, <1>2

(* Pick takes an element.                                                  *)
LEMMA Picked == ASSUME NEW s, s # {} PROVE Pick(s) \in s
BY DEF Pick

(* The partial sums exist as a function: a function that is defined on the *)
(* sets of up to k elements can be extended to those of k + 1.             *)
LEMMA SumExists ==
  ASSUME NEW d, NEW S, IsFiniteSet(S)
  PROVE  \E f : f = [s \in SUBSET S |-> Partial(d, f, s)]
<1> DEFINE G(f, s) == IF s = {} THEN 0 ELSE d[Pick(s)] + f[s \ {Pick(s)}]
           E(k) == \E f : \A s \in SUBSET S : Cardinality(s) <= k => f[s] = G(f, s)
           Bad == {k \in Nat : ~ E(k)}
<1>0. ASSUME NEW s \in SUBSET S PROVE IsFiniteSet(s) /\ Cardinality(s) \in Nat
  BY FS_Subset, FS_CardinalityType
<1>1. E(0)
  <2> DEFINE h == [s \in SUBSET S |-> 0]
  <2>1. ASSUME NEW s \in SUBSET S, Cardinality(s) <= 0 PROVE h[s] = G(h, s)
    <3>1. Cardinality(s) = 0
      BY <1>0, <2>1
    <3>2. s = {}
      BY <3>1, <1>0, FS_EmptySet
    <3> QED
      BY <3>2
  <2> QED
    BY <2>1
<1>2. ASSUME NEW k \in Nat, E(k) PROVE E(k + 1)
  <2>1. PICK f : \A s \in SUBSET S : Cardinality(s) <= k => f[s] = G(f, s)
    BY <1>2
  <2> DEFINE h == [s \in SUBSET S |-> IF Cardinality(s) <= k THEN f[s] ELSE G(f, s)]
  <2>2. ASSUME NEW s \in SUBSET S PROVE h[s] = IF Cardinality(s) <= k THEN f[s] ELSE G(f, s)
    <3> HIDE DEF G
    <3> QED OBVIOUS
  <2> HIDE DEF h
  <2>3. ASSUME NEW s \in SUBSET S, Cardinality(s) <= k + 1 PROVE h[s] = G(h, s)
    <3>1. h[s] = G(f, s)
      BY <2>1, <2>2
    <3>2. CASE s = {}
      BY <3>1, <3>2
    <3>3. CASE s # {}
      <4> DEFINE r == s \ {Pick(s)}
      <4>1. r \in SUBSET S /\ Cardinality(r) \in Nat /\ Cardinality(s) = Cardinality(r) + 1
        BY <3>3, <1>0, Picked, SmallerSet
      <4>2. Cardinality(r) <= k
        BY <4>1, <2>3
      <4>3. h[r] = f[r]
        <5> HIDE DEF r, G
        <5> QED BY <4>1, <4>2, <2>2
      <4> QED
        BY <3>1, <3>3, <4>3
    <3> QED
      BY <3>2, <3>3
  <2> QED
    BY <2>3
<1> HIDE DEF E
<1>3. Bad = {}
  <2> SUFFICES ASSUME Bad # {} PROVE FALSE
    OBVIOUS
  <2>0. Bad \in SUBSET Nat
    OBVIOUS
  <2> HIDE DEF Bad
  <2>1. PICK m \in Bad : \A y \in Bad : m <= y
    BY <2>0, NatMin
  <2>2. m # 0
    BY <2>1, <1>1 DEF Bad
  <2>3. m - 1 \in Nat /\ m - 1 \notin Bad
    BY <2>0, <2>1, <2>2
  <2>4. E(m - 1)
    BY <2>3 DEF Bad
  <2>5. E((m - 1) + 1)
    BY <2>3, <2>4, <1>2
  <2> QED
    BY <2>5, <2>1, <2>0 DEF Bad
<1>4. Cardinality(S) \in Nat
  BY FS_CardinalityType
<1>5. PICK f : \A s \in SUBSET S : Cardinality(s) <= Cardinality(S) => f[s] = G(f, s)
  BY <1>3, <1>4 DEF E
<1>6. \A s \in SUBSET S : f[s] = G(f, s)
  <2> TAKE s \in SUBSET S
  <2>1. Cardinality(s) <= Cardinality(S)
    BY FS_Subset
  <2> QED
    BY <1>5, <2>1
<1> DEFINE g == [s \in SUBSET S |-> f[s]]
<1>7. ASSUME NEW s \in SUBSET S PROVE g[s] = G(g, s)
  <2>1. g[s] = f[s] /\ g[s \ {Pick(s)}] = f[s \ {Pick(s)}]
    OBVIOUS
  <2> HIDE DEF g
  <2> QED
    BY <2>1, <1>6
<1>8. g = [s \in SUBSET S |-> g[s]]
  OBVIOUS
<1> HIDE DEF g
<1>9. g = [s \in SUBSET S |-> G(g, s)]
  <2> HIDE DEF G
  <2> QED BY <1>7, <1>8
<1>10. \A s : G(g, s) = Partial(d, g, s)
  BY DEF Partial
<1>11. g = [s \in SUBSET S |-> Partial(d, g, s)]
  <2> HIDE DEF G
  <2> QED BY <1>9, <1>10
<1> QED
  BY <1>11

(* So the sum over a set is the value of such a function.                  *)
LEMMA SumIs ==
  ASSUME NEW d, NEW S, IsFiniteSet(S)
  PROVE  \E f : SumFunctionOnSet(d, S) = f[S] /\ AddsUp(d, f, S)
<1> DEFINE iter == CHOOSE f : f = [s \in SUBSET S |-> Partial(d, f, s)]
<1>1. SumFunctionOnSet(d, S) = iter[S]
  BY DEF SumFunctionOnSet, FoldFunctionOnSet, MapThenFoldSet, Pick, Partial
<1>2. iter = [s \in SUBSET S |-> Partial(d, iter, s)]
  BY SumExists
<1> HIDE DEF iter
<1>3. AddsUp(d, iter, S)
  BY <1>2 DEF AddsUp
<1> QED
  BY <1>1, <1>3

(* Functions of partial sums agree, whatever set they were made for.       *)
LEMMA SumOfPart ==
  ASSUME NEW d, NEW S, IsFiniteSet(S), NEW f, AddsUp(d, f, S)
  PROVE  \A T \in SUBSET S : SumFunctionOnSet(d, T) = f[T]
<1> SUFFICES ASSUME NEW T \in SUBSET S PROVE SumFunctionOnSet(d, T) = f[T]
  OBVIOUS
<1>0. IsFiniteSet(T)
  BY FS_Subset
<1>1. PICK g : SumFunctionOnSet(d, T) = g[T] /\ AddsUp(d, g, T)
  BY <1>0, SumIs
<1>c. ASSUME NEW s \in SUBSET T PROVE IsFiniteSet(s) /\ Cardinality(s) \in Nat /\ s \in SUBSET S
  BY <1>0, FS_Subset, FS_CardinalityType
<1> DEFINE Bad == {k \in Nat : \E s \in SUBSET T : Cardinality(s) = k /\ g[s] # f[s]}
<1>2. Bad = {}
  <2> SUFFICES ASSUME Bad # {} PROVE FALSE
    OBVIOUS
  <2>0. Bad \in SUBSET Nat
    OBVIOUS
  <2> HIDE DEF Bad
  <2>1. PICK m \in Bad : \A y \in Bad : m <= y
    BY <2>0, NatMin
  <2>2. PICK s \in SUBSET T : Cardinality(s) = m /\ g[s] # f[s]
    BY <2>1 DEF Bad
  <2>3. s # {}
    <3> SUFFICES ASSUME s = {} PROVE FALSE
      OBVIOUS
    <3> QED
      BY <2>2, <1>1 DEF AddsUp, Partial
  <2> DEFINE r == s \ {Pick(s)}
  <2>4. r \in SUBSET T /\ Cardinality(r) \in Nat /\ m = Cardinality(r) + 1
    BY <2>2, <2>3, <1>c, Picked, SmallerSet
  <2>5. g[r] = f[r]
    <3> HIDE DEF r
    <3>1. Cardinality(r) \notin Bad
      BY <2>0, <2>1, <2>4
    <3> QED
      BY <3>1, <2>4 DEF Bad
  <2>6. g[s] = d[Pick(s)] + g[r] /\ f[s] = d[Pick(s)] + f[r]
    BY <2>2, <2>3, <1>1, <1>c DEF AddsUp, Partial
  <2> QED
    BY <2>2, <2>5, <2>6
<1>3. Cardinality(T) \in Nat /\ Cardinality(T) \notin Bad
  BY <1>2, <1>c
<1> QED
  BY <1>1, <1>3

(* A sum is one of its terms and the sum of the others.                    *)
LEMMA SumFirst ==
  ASSUME NEW d, NEW S, IsFiniteSet(S)
  PROVE  SumFunctionOnSet(d, S) = IF S = {} THEN 0 ELSE d[Pick(S)] + SumFunctionOnSet(d, S \ {Pick(S)})
<1>1. PICK f : SumFunctionOnSet(d, S) = f[S] /\ AddsUp(d, f, S)
  BY SumIs
<1>2. SumFunctionOnSet(d, S \ {Pick(S)}) = f[S \ {Pick(S)}]
  <2>1. S \ {Pick(S)} \in SUBSET S
    OBVIOUS
  <2> QED
    BY <1>1, <2>1, SumOfPart
<1>3. f[S] = Partial(d, f, S)
  BY <1>1 DEF AddsUp
<1> QED
  BY <1>1, <1>2, <1>3 DEF AddsUp, Partial

(* It may be any of them, and a sum of integers is one.                    *)
LEMMA SumTakes ==
  ASSUME NEW d, NEW S, IsFiniteSet(S), \A x \in S : d[x] \in Int
  PROVE  /\ SumFunctionOnSet(d, S) \in Int
         /\ \A x \in S : SumFunctionOnSet(d, S) = d[x] + SumFunctionOnSet(d, S \ {x})
<1> DEFINE F(T) == SumFunctionOnSet(d, T)
           Good(T) == F(T) \in Int /\ \A x \in T : F(T) = d[x] + F(T \ {x})
           Bad == {k \in Nat : \E s \in SUBSET S : Cardinality(s) = k /\ ~ Good(s)}
<1>c. ASSUME NEW s \in SUBSET S PROVE IsFiniteSet(s) /\ Cardinality(s) \in Nat
  BY FS_Subset, FS_CardinalityType
<1>f. ASSUME NEW s \in SUBSET S PROVE F(s) = IF s = {} THEN 0 ELSE d[Pick(s)] + F(s \ {Pick(s)})
  BY <1>c, SumFirst
<1> HIDE DEF F
<1>2. Bad = {}
  <2> SUFFICES ASSUME Bad # {} PROVE FALSE
    OBVIOUS
  <2>0. Bad \in SUBSET Nat
    OBVIOUS
  <2> HIDE DEF Bad
  <2>1. PICK m \in Bad : \A y \in Bad : m <= y
    BY <2>0, NatMin
  <2>2. PICK s \in SUBSET S : Cardinality(s) = m /\ ~ Good(s)
    BY <2>1 DEF Bad
  <2>g. ASSUME NEW r \in SUBSET S, Cardinality(r) < m PROVE Good(r)
    <3>1. Cardinality(r) \in Nat /\ Cardinality(r) \notin Bad
      BY <2>0, <2>1, <2>g, <1>c
    <3> HIDE DEF Good
    <3> QED
      BY <3>1 DEF Bad
  <2>3. s # {}
    BY <2>2, <1>f
  <2>r. ASSUME NEW x \in s PROVE s \ {x} \in SUBSET S /\ Cardinality(s \ {x}) < m
    BY <2>2, <1>c, SmallerSet
  <2> DEFINE c == Pick(s)
  <2>4. c \in s /\ F(s) = d[c] + F(s \ {c})
    BY <2>3, <1>f, Picked
  <2>5. F(s) \in Int
    <3>1. F(s \ {c}) \in Int
      BY <2>4, <2>r, <2>g
    <3> QED
      BY <3>1, <2>4
  <2> HIDE DEF c
  <2>6. ASSUME NEW x \in s PROVE F(s) = d[x] + F(s \ {x})
    <3>1. CASE x = c
      BY <3>1, <2>4
    <3>2. CASE x # c
      <4>1. s \ {c} \in SUBSET S /\ s \ {x} \in SUBSET S /\ Good(s \ {c}) /\ Good(s \ {x})
        BY <2>4, <2>r, <2>g
      <4>2. F(s \ {c}) = d[x] + F((s \ {c}) \ {x})
        BY <4>1, <3>2
      <4>3. F(s \ {x}) = d[c] + F((s \ {x}) \ {c})
        BY <4>1, <3>2, <2>4
      <4>4. (s \ {c}) \ {x} = (s \ {x}) \ {c}
        OBVIOUS
      <4>5. PICK q : q = F((s \ {x}) \ {c})
        OBVIOUS
      <4>6. q \in Int
        <5>1. (s \ {x}) \ {c} \in SUBSET S /\ Cardinality((s \ {x}) \ {c}) < m
          <6>1. IsFiniteSet(s \ {x}) /\ c \in s \ {x} /\ Cardinality(s \ {x}) < m /\ Cardinality(s \ {x}) \in Nat
            BY <2>r, <2>4, <3>2, <1>c
          <6>2. Cardinality((s \ {x}) \ {c}) \in Nat /\ Cardinality(s \ {x}) = Cardinality((s \ {x}) \ {c}) + 1
            BY <6>1, SmallerSet
          <6>3. m \in Nat
            BY <2>0, <2>1
          <6> QED
            BY <6>1, <6>2, <6>3
        <5> QED
          BY <5>1, <2>g, <4>5
      <4>7. F(s) = d[c] + (d[x] + q) /\ F(s \ {x}) = d[c] + q
        BY <2>4, <4>2, <4>3, <4>4, <4>5
      <4>8. d[c] \in Int /\ d[x] \in Int
        BY <2>4
      <4> QED
        BY <4>6, <4>7, <4>8
    <3> QED
      BY <3>1, <3>2
  <2> QED
    BY <2>2, <2>5, <2>6
<1>3. Cardinality(S) \in Nat /\ Cardinality(S) \notin Bad
  BY <1>2, <1>c
<1> QED
  BY <1>3 DEF F

(* A new element adds its term.                                            *)
LEMMA SumWith ==
  ASSUME NEW d, NEW S, IsFiniteSet(S), \A x \in S : d[x] \in Int, NEW x, x \notin S, d[x] \in Int
  PROVE  SumFunctionOnSet(d, S \cup {x}) = SumFunctionOnSet(d, S) + d[x]
<1>1. IsFiniteSet(S \cup {x}) /\ (S \cup {x}) \ {x} = S /\ \A y \in S \cup {x} : d[y] \in Int
  BY FS_AddElement
<1>2. SumFunctionOnSet(d, S \cup {x}) = d[x] + SumFunctionOnSet(d, (S \cup {x}) \ {x})
  BY <1>1, SumTakes
<1>3. SumFunctionOnSet(d, S) \in Int
  BY SumTakes
<1>4. SumFunctionOnSet(d, S \cup {x}) = d[x] + SumFunctionOnSet(d, S)
  BY <1>1, <1>2
<1> QED
  BY <1>3, <1>4

(* A sum of natural numbers is one.                                        *)
LEMMA SumNat ==
  ASSUME NEW d, NEW S, IsFiniteSet(S), \A x \in S : d[x] \in Nat
  PROVE  SumFunctionOnSet(d, S) \in Nat
<1> DEFINE F(T) == SumFunctionOnSet(d, T)
           Bad == {k \in Nat : \E s \in SUBSET S : Cardinality(s) = k /\ F(s) \notin Nat}
<1>c. ASSUME NEW s \in SUBSET S PROVE IsFiniteSet(s) /\ Cardinality(s) \in Nat
  BY FS_Subset, FS_CardinalityType
<1>f. ASSUME NEW s \in SUBSET S PROVE F(s) = IF s = {} THEN 0 ELSE d[Pick(s)] + F(s \ {Pick(s)})
  BY <1>c, SumFirst
<1> HIDE DEF F
<1>2. Bad = {}
  <2> SUFFICES ASSUME Bad # {} PROVE FALSE
    OBVIOUS
  <2>0. Bad \in SUBSET Nat
    OBVIOUS
  <2> HIDE DEF Bad
  <2>1. PICK m \in Bad : \A y \in Bad : m <= y
    BY <2>0, NatMin
  <2>2. PICK s \in SUBSET S : Cardinality(s) = m /\ F(s) \notin Nat
    BY <2>1 DEF Bad
  <2>3. s # {}
    <3>1. s = {} => F(s) = 0
      BY <1>f
    <3> QED
      BY <2>2, <3>1
  <2> DEFINE c == Pick(s)
  <2>4. c \in s /\ F(s) = d[c] + F(s \ {c})
    BY <2>3, <1>f, Picked
  <2>5. s \ {c} \in SUBSET S /\ Cardinality(s \ {c}) \in Nat /\ Cardinality(s \ {c}) < m
    BY <2>2, <2>4, <1>c, SmallerSet
  <2> HIDE DEF c
  <2>6. F(s \ {c}) \in Nat
    <3>1. Cardinality(s \ {c}) \notin Bad
      BY <2>0, <2>1, <2>5
    <3> QED
      BY <2>5, <3>1 DEF Bad
  <2> QED
    BY <2>2, <2>4, <2>6
<1>3. Cardinality(S) \in Nat /\ Cardinality(S) \notin Bad
  BY <1>2, <1>c
<1> QED
  BY <1>3 DEF F

-----------------------------------------------------------------------------
(* A remainder and a quotient are unique.                                  *)
LEMMA DivMod ==
  ASSUME NEW h \in Nat \ {0}, NEW r \in 0 .. h - 1, NEW q \in Nat
  PROVE  (r + h * q) % h = r /\ (r + h * q) \div h = q
<1>1. PICK w : w = r + h * q
  OBVIOUS
<1>2. w \in Nat /\ w = h * (w \div h) + (w % h) /\ w % h \in 0 .. h - 1 /\ w \div h \in Int
  BY <1>1
<1>3. PICK b \in Int : b = w \div h
  BY <1>2
<1>4. h * (q - b) = (w % h) - r
  BY <1>1, <1>2, <1>3
<1>5. q - b = 0
  <2>1. q - b >= 1 => h * (q - b) >= h
    BY <1>3
  <2>2. q - b <= -1 => h * (q - b) <= -h
    BY <1>3
  <2> QED
    BY <2>1, <2>2, <1>2, <1>3, <1>4
<1> QED
  BY <1>1, <1>2, <1>3, <1>4, <1>5

(* What is packed into the word is read from it, a negative position too.  *)
LEMMA Unpacked ==
  ASSUME Sized, NEW p \in -(Half \div 2) .. (Half \div 2) - 1, NEW q \in 0 .. Half - 1
  PROVE  Position(pack(p, q)) = p /\ Notional(pack(p, q)) = q
<1>0. Half \in Nat \ {0} /\ Half \div 2 \in Nat /\ 2 * (Half \div 2) <= Half /\ q \in Nat /\ p \in Int
  BY DEF Sized
<1>1. q % Half = q
  BY <1>0
<1>2. p % Half = IF p >= 0 THEN p ELSE p + Half
  <2>1. CASE p >= 0
    <3>1. p \in 0 .. Half - 1
      BY <1>0, <2>1
    <3>2. (p + Half * 0) % Half = p
      BY <1>0, <3>1, DivMod
    <3>3. p + Half * 0 = p
      BY <1>0
    <3> QED
      BY <2>1, <3>2, <3>3
  <2>2. CASE p < 0
    <3>1. p + Half \in 0 .. Half - 1
      BY <1>0, <2>2
    <3>m. p = Half * (p \div Half) + (p % Half) /\ p % Half \in 0 .. Half - 1 /\ p \div Half \in Int
      BY <1>0
    <3>b. PICK b \in Int : b = p \div Half
      BY <3>m
    <3>2. Half * (b + 1) = (p + Half) - (p % Half)
      BY <1>0, <3>m, <3>b
    <3>3. b + 1 = 0
      <4>1. b + 1 >= 1 => Half * (b + 1) >= Half
        BY <1>0, <3>b
      <4>2. b + 1 <= -1 => Half * (b + 1) <= -Half
        BY <1>0, <3>b
      <4> QED
        BY <4>1, <4>2, <1>0, <3>1, <3>m, <3>2, <3>b
    <3> QED
      BY <2>2, <1>0, <3>2, <3>3, <3>m
  <2> QED
    BY <1>0, <2>1, <2>2
<1>3. p % Half \in 0 .. Half - 1
  BY <1>0, <1>2
<1>4. pack(p, q) % Half = p % Half /\ pack(p, q) \div Half = q
  <2>1. pack(p, q) = (p % Half) + Half * q
    BY <1>1 DEF pack
  <2>2. PICK r \in 0 .. Half - 1 : r = p % Half
    BY <1>3
  <2>3. (r + Half * q) % Half = r /\ (r + Half * q) \div Half = q
    BY ONLY <1>0, r \in 0 .. Half - 1, DivMod
  <2> QED
    BY ONLY <2>1, <2>2, <2>3
<1>5. sign_extend(p % Half) = p
  BY <1>0, <1>2 DEF sign_extend
<1> QED
  BY <1>4, <1>5 DEF Position, Notional

(* What orders add up to fits the halves of the word, and grows by the     *)
(* deltas of an order that joins them.                                     *)
LEMMA Sums ==
  ASSUME Sized, NEW S \in SUBSET Orders
  PROVE  /\ IsFiniteSet(S)
         /\ SumFunctionOnSet(Positions, S) \in -(Half \div 2) .. (Half \div 2) - 1
         /\ SumFunctionOnSet(Positions, S) \in Int /\ SumFunctionOnSet(Notionals, S) \in Nat
         /\ \A o \in Orders : PosDelta(o) \in Int /\ NotionalDelta(o) \in Nat
         /\ \A o \in Orders \ S :
              /\ SumFunctionOnSet(Positions, S \cup {o}) = SumFunctionOnSet(Positions, S) + PosDelta(o)
              /\ SumFunctionOnSet(Notionals, S \cup {o}) = SumFunctionOnSet(Notionals, S) + NotionalDelta(o)
<1>1. IsFiniteSet(S)
  BY FS_Subset DEF Sized
<1>2. \A o \in Orders : PosDelta(o) \in Int /\ NotionalDelta(o) \in Nat
  BY DEF Sized, PosDelta, NotionalDelta
<1>3. \A o \in Orders : /\ Positions[o] = PosDelta(o) /\ Notionals[o] = NotionalDelta(o)
                        /\ Positions[o] \in Int /\ Notionals[o] \in Nat
  BY <1>2 DEF Positions, Notionals
<1>4. SumFunctionOnSet(Positions, S) \in -(Half \div 2) .. (Half \div 2) - 1
  BY DEF Sized
<1>5. \A x \in S : Positions[x] \in Int /\ Notionals[x] \in Nat /\ Notionals[x] \in Int
  BY <1>3
<1>6. SumFunctionOnSet(Positions, S) \in Int /\ SumFunctionOnSet(Notionals, S) \in Nat
  BY <1>1, <1>5, SumTakes, SumNat
<1>7. ASSUME NEW o \in Orders \ S
      PROVE  /\ SumFunctionOnSet(Positions, S \cup {o}) = SumFunctionOnSet(Positions, S) + PosDelta(o)
             /\ SumFunctionOnSet(Notionals, S \cup {o}) = SumFunctionOnSet(Notionals, S) + NotionalDelta(o)
  <2>1. o \notin S /\ Positions[o] \in Int /\ Notionals[o] \in Int /\ Positions[o] = PosDelta(o) /\ Notionals[o] = NotionalDelta(o)
    BY <1>3
  <2>2. SumFunctionOnSet(Positions, S \cup {o}) = SumFunctionOnSet(Positions, S) + Positions[o]
    BY <1>1, <1>5, <2>1, SumWith
  <2>3. SumFunctionOnSet(Notionals, S \cup {o}) = SumFunctionOnSet(Notionals, S) + Notionals[o]
    BY <1>1, <1>5, <2>1, SumWith
  <2> QED
    BY <2>1, <2>2, <2>3
<1> QED
  BY <1>1, <1>2, <1>4, <1>6, <1>7

(* The word is read back as it was packed.                                 *)
LEMMA WordIs ==
  ASSUME Sized, IInv
  PROVE  /\ Position(state_) = Total /\ Notional(state_) = Gross
         /\ Total \in Int /\ Gross \in Nat /\ Committed \in SUBSET Orders
<1>1. Committed \in SUBSET Orders
  BY DEF Committed
<1>2. Total \in -(Half \div 2) .. (Half \div 2) - 1 /\ Total \in Int /\ Gross \in Nat
  BY <1>1, Sums DEF Total, Gross
<1>3. Gross \in 0 .. Half - 1
  BY <1>2 DEF IInv, Sized
<1> QED
  BY <1>1, <1>2, <1>3, Unpacked DEF IInv

(* What the invariant promises.                                            *)
LEMMA Implied ==
  ASSUME Sized, IInv
  PROVE  CountersAddUp /\ LimitsHold
BY WordIs DEF IInv, CountersAddUp, LimitsHold, Total, Gross

(* A step that leaves alone the word and the orders that are committed.    *)
LEMMA TotalsKept ==
  ASSUME IInv, Working', Committed' = Committed, state_' = state_, freed' = freed
  PROVE  IInv'
<1>1. Total' = Total /\ Gross' = Gross
  BY DEF Total, Gross, Positions, Notionals
<1> QED
  BY <1>1 DEF IInv

(* A call loads the word.                                                  *)
LEMMA CallKeeps ==
  ASSUME IInv, NEW t \in Threads, NEW o \in Orders, Call(t, o, "reserve", "new") \/ Call(t, o, "release", "reserved")
  PROVE  IInv'
<1>0. PICK l \in {"reserve", "release"} : /\ pc[t] = "idle" /\ where[o] = (IF l = "reserve" THEN "new" ELSE "reserved")
                                       /\ where' = [where EXCEPT ![o] = l] /\ pc' = [pc EXCEPT ![t] = l]
                                       /\ order' = [order EXCEPT ![t] = o] /\ DOMAIN cur' = DOMAIN cur
                                       /\ state_' = state_ /\ freed' = freed
  BY DEF Call
<1>1. Committed' = Committed
  BY <1>0 DEF Committed, IInv, Working
<1>2. Working'
  BY <1>0 DEF IInv, Working, Busy
<1> QED
  BY <1>0, <1>1, <1>2, TotalsKept

(* A breach and a CAS that fails leave the word as it is.                  *)
LEMMA RejectKeeps ==
  ASSUME IInv, NEW t \in Threads, Reject(t) \/ Retry(t)
  PROVE  IInv'
<1>1. CASE Reject(t)
  <2>1. /\ pc[t] = "reserve" /\ pc' = [pc EXCEPT ![t] = "idle"] /\ where' = [where EXCEPT ![order[t]] = "new"]
        /\ order' = order /\ DOMAIN cur' = DOMAIN cur /\ state_' = state_ /\ freed' = freed
    BY <1>1 DEF Reject, Return
  <2>2. Committed' = Committed
    BY <2>1 DEF Committed, IInv, Working, Busy
  <2>3. Working'
    BY <2>1 DEF IInv, Working, Busy
  <2> QED
    BY <2>1, <2>2, <2>3, TotalsKept
<1>2. CASE Retry(t)
  <2>1. pc' = pc /\ where' = where /\ order' = order /\ DOMAIN cur' = DOMAIN cur /\ state_' = state_ /\ freed' = freed
    BY <1>2 DEF Retry
  <2>2. Committed' = Committed /\ Working'
    BY <2>1 DEF Committed, IInv, Working, Busy
  <2> QED
    BY <2>1, <2>2, TotalsKept
<1> QED
  BY <1>1, <1>2

(* The CAS of check_and_reserve(): the word is the one that was checked,   *)
(* so the order fits.                                                      *)
LEMMA ReserveKeeps ==
  ASSUME Sized, IInv, NEW t \in Threads, Reserve(t)
  PROVE  IInv'
<1>0. /\ pc[t] = "reserve" /\ pc' = [pc EXCEPT ![t] = "idle"] /\ where' = [where EXCEPT ![order[t]] = "reserved"]
      /\ order' = order /\ DOMAIN cur' = DOMAIN cur /\ freed' = freed
      /\ state_' = pack(ReservedPosition(state_, order[t]), ReservedNotional(state_, order[t]))
      /\ ~Breach(state_, order[t])
  BY DEF Reserve, Return
<1>1. order[t] \in Orders /\ where[order[t]] = "reserve"
  BY <1>0 DEF IInv, Working, Busy
<1>2. Working'
  BY <1>0 DEF IInv, Working, Busy
<1>3. Committed' = Committed \cup {order[t]} /\ order[t] \in Orders \ Committed
  BY <1>0, <1>1 DEF Committed, IInv, Working
<1>4. Total' = Total + PosDelta(order[t]) /\ Gross' = Gross + NotionalDelta(order[t])
  <2>1. Positions' = Positions /\ Notionals' = Notionals
    BY DEF Positions, Notionals
  <2> QED
    BY <1>3, <2>1, WordIs, Sums DEF Total, Gross
<1>5. state_' = pack(Total', Gross') /\ Gross' <= max_notional_ /\ Total' \in -max_position_ .. max_position_
  BY <1>0, <1>4, WordIs DEF ReservedPosition, ReservedNotional, Breach
<1>6. freed' \in BOOLEAN
  BY <1>0 DEF IInv
<1> QED
  BY <1>2, <1>5, <1>6 DEF IInv

(* The CAS of release(): the notional is that of the other orders, so the  *)
(* clamp at zero does not bite.                                            *)
LEMMA ReleaseKeeps ==
  ASSUME Sized, IInv, NEW t \in Threads, Release(t)
  PROVE  IInv'
<1>0. /\ pc[t] = "release" /\ pc' = [pc EXCEPT ![t] = "idle"] /\ where' = [where EXCEPT ![order[t]] = "new"]
      /\ order' = order /\ DOMAIN cur' = DOMAIN cur /\ freed' = TRUE
      /\ state_' = Released(state_, order[t])
  BY DEF Release, Return
<1>1. order[t] \in Orders /\ where[order[t]] = "release"
  BY <1>0 DEF IInv, Working, Busy
<1>2. Working'
  BY <1>0 DEF IInv, Working, Busy
<1>3. Committed' = Committed \ {order[t]} /\ order[t] \in Committed
  BY <1>0, <1>1 DEF Committed, IInv, Working
<1> DEFINE S == Committed \ {order[t]}
<1>4. /\ Total = Total' + PosDelta(order[t]) /\ Gross = Gross' + NotionalDelta(order[t])
      /\ Total' \in Int /\ Gross' \in Nat /\ PosDelta(order[t]) \in Int /\ NotionalDelta(order[t]) \in Nat
  <2>1. Positions' = Positions /\ Notionals' = Notionals
    BY DEF Positions, Notionals
  <2>2. S \in SUBSET Orders /\ order[t] \in Orders \ S /\ S \cup {order[t]} = Committed
    BY <1>1, <1>3 DEF Committed
  <2>3. Total' = SumFunctionOnSet(Positions, S) /\ Gross' = SumFunctionOnSet(Notionals, S)
    BY <1>3, <2>1 DEF Total, Gross
  <2> HIDE DEF S
  <2> QED
    BY <2>2, <2>3, Sums DEF Total, Gross
<1>5. Max({0, Gross - NotionalDelta(order[t])}) = Gross'
  <2>1. Gross - NotionalDelta(order[t]) = Gross'
    BY <1>4, WordIs
  <2>2. \E x \in {0, Gross'} : \A y \in {0, Gross'} : x >= y
    BY <1>4
  <2>3. \A x \in {0, Gross'} : (\A y \in {0, Gross'} : x >= y) => x = Gross'
    BY <1>4
  <2> QED
    BY <2>1, <2>2, <2>3 DEF Max
<1>6. Total - PosDelta(order[t]) = Total'
  BY <1>4, WordIs
<1>7. state_' = pack(Total', Gross')
  BY <1>0, <1>5, <1>6, WordIs DEF Released
<1>8. Gross' <= max_notional_
  BY <1>4, WordIs DEF IInv, Sized
<1>9. freed' \in BOOLEAN /\ freed'
  BY <1>0
<1> QED
  BY <1>2, <1>7, <1>8, <1>9 DEF IInv

(* Every step keeps IInv.                                                  *)
LEMMA Inductive ==
  ASSUME Sized, IInv, [Next]_vars
  PROVE  IInv'
<1>1. CASE UNCHANGED vars
  <2>1. pc' = pc /\ where' = where /\ order' = order /\ cur' = cur /\ state_' = state_ /\ freed' = freed
    BY <1>1 DEF vars
  <2>2. Committed' = Committed /\ Working'
    BY <2>1 DEF Committed, IInv, Working, Busy
  <2> QED
    BY <2>1, <2>2, TotalsKept
<1>2. CASE Next
  BY <1>2, CallKeeps, RejectKeeps, ReserveKeeps, ReleaseKeeps DEF Next
<1> QED
  BY <1>1, <1>2

(* A new gate.                                                             *)
LEMMA InitHolds ==
  ASSUME Sized, Init
  PROVE  IInv
<1>1. Committed = {}
  BY DEF Init, Committed
<1>2. IsFiniteSet({})
  BY FS_EmptySet
<1>3. Total = 0 /\ Gross = 0
  BY <1>1, <1>2, SumFirst DEF Total, Gross
<1>4. Working
  BY DEF Init, Working, Busy
<1>5. state_ = pack(Total, Gross)
  BY <1>3 DEF Init
<1>6. Gross <= max_notional_ /\ Total \in -max_position_ .. max_position_
  BY <1>3 DEF Sized
<1>7. freed \in BOOLEAN
  BY DEF Init
<1> QED
  BY <1>4, <1>5, <1>6, <1>7 DEF IInv

(* RiskGate, for any threads and any finite set of orders whose sums fit   *)
(* the halves of the word: no update is lost or half done and the limits   *)
(* hold, whatever reservations and releases race.                          *)
THEOREM GateHolds ==
  ASSUME Sized
  PROVE  Spec => [](CountersAddUp /\ LimitsHold)
<1>1. IInv /\ [Next]_vars => IInv'
  BY Inductive
<1>2. Init => IInv
  BY InitHolds
<1>3. IInv => CountersAddUp /\ LimitsHold
  BY Implied
<1> QED
  BY <1>1, <1>2, <1>3, PTL DEF Spec
=============================================================================
