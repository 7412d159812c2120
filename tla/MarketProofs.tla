---------------------------- MODULE MarketProofs ----------------------------
(***************************************************************************)
(* The proofs of what MCLibrary checks of the order book, the matching     *)
(* engine, the L2 book and the candles.                                    *)
(***************************************************************************)
EXTENDS Integers, Sequences, SequencesExt, FiniteSetsExt, FiniteSetTheorems,
        WellFoundedInduction, NaturalsInduction, TLAPS

CONSTANTS
  EngineIds, EnginePrices, EngineQtys,
  BucketMs, TradeTimes, TradePrices, TradeQtys, MaxTrades, MaxRolls,
  BookIds, BookPrices, BookQtys, MaxAdds,
  DepthPrices, DepthQtys

VARIABLES
  eBook, eIndex, eOrder, eArrived, ePlaced, eFilled, eTaken,
  ohCurrentBucket, ohCurrent, ohCompleted, ohHasTrade, ohTape, ohRolled,
  bById, bBook, bWant, bFrom, bStamp, bAdds,
  lHasSnapshot, lLevels, lMarket, lLost

-----------------------------------------------------------------------------
(* Numbers and sequences.                                                  *)

(* A set of numbers that is not empty has a least one.                     *)
LEMMA SmallestNat ==
  ASSUME NEW T \in SUBSET Nat, T # {} 
  PROVE  \E x \in T : \A y \in T : x <= y
<1> DEFINE R == OpToRel(<, Nat)
<1>1. IsWellFoundedOn(R, Nat)
  BY NatLessThanWellFounded
<1>2. \A x, y \in Nat : y < x => <<y, x>> \in R
  BY DEF OpToRel
<1> HIDE DEF R
<1>3. PICK x \in T : \A y \in T : ~ (<<y, x>> \in R)
  BY <1>1, WFMin
<1>4. ASSUME NEW y \in T PROVE x <= y
  <2>1. x \in Nat /\ y \in Nat
    OBVIOUS
  <2>2. ~(y < x)
    BY <2>1, <1>2, <1>3, Zenon
  <2> QED
    BY <2>1, <2>2
<1> QED
  BY <1>4

(* The least of a set of numbers is one of them and no more than any.      *)
LEMMA MinOf ==
  ASSUME NEW T, T \subseteq Nat, T # {}
  PROVE  Min(T) \in T /\ \A m \in T : Min(T) <= m
BY SmallestNat DEF Min

(* The least of a set of numbers is one of them.                           *)
LEMMA FirstIn ==
  ASSUME NEW T, T \subseteq Nat, T # {}
  PROVE  Min(T) \in T
BY MinOf

(* A sequence without its i-th element.                                    *)
LEMMA Removed ==
  ASSUME NEW S, NEW s \in Seq(S), NEW i \in 1 .. Len(s)
  PROVE  /\ RemoveAt(s, i) \in Seq(S)
         /\ Len(RemoveAt(s, i)) = Len(s) - 1
         /\ \A k \in 1 .. Len(s) - 1 : RemoveAt(s, i)[k] = IF k < i THEN s[k] ELSE s[k + 1]
<1>. DEFINE a == SubSeq(s, 1, i - 1)
            b == SubSeq(s, i + 1, Len(s))
<1>1. a \in Seq(S) /\ Len(a) = i - 1 /\ \A k \in 1 .. i - 1 : a[k] = s[k]
  OBVIOUS
<1>2. b \in Seq(S) /\ Len(b) = Len(s) - i /\ \A k \in 1 .. Len(s) - i : b[k] = s[k + i]
  OBVIOUS
<1>. HIDE DEF a, b
<1>3. /\ a \o b \in Seq(S) /\ Len(a \o b) = Len(s) - 1
      /\ \A k \in 1 .. Len(s) - 1 : (a \o b)[k] = IF k < i THEN s[k] ELSE s[k + 1]
  <2>1. a \o b \in Seq(S)
    BY <1>1, <1>2
  <2>2. Len(a \o b) = Len(s) - 1
    BY <1>1, <1>2
  <2>3. ASSUME NEW k \in 1 .. Len(s) - 1
        PROVE  (a \o b)[k] = IF k < i THEN s[k] ELSE s[k + 1]
    <3>1. CASE k < i
      BY <1>1, <1>2, <3>1
    <3>2. CASE ~(k < i)
      <4>1. k - (i - 1) \in 1 .. Len(s) - i /\ k - (i - 1) + i = k + 1
        BY <3>2
      <4>2. (a \o b)[k] = b[k - (i - 1)]
        BY <1>1, <1>2, <3>2
      <4>. QED BY <4>1, <4>2, <3>2, <1>2
    <3>. QED BY <3>1, <3>2
  <2>. QED BY <2>1, <2>2, <2>3
<1>. QED BY <1>3 DEF RemoveAt, a, b

(* A finite set of numbers that is not empty has a greatest one.           *)
LEMMA FiniteMax ==
  ASSUME NEW S \in SUBSET Int, IsFiniteSet(S), S # {}
  PROVE  \E x \in S : \A y \in S : y <= x
<1>. DEFINE Bad(n) == \E T \in SUBSET S : IsFiniteSet(T) /\ Cardinality(T) = n /\ T # {} /\ \A x \in T : \E y \in T : ~(y <= x)
            B == {n \in Nat : Bad(n)}
<1>. SUFFICES ASSUME \A x \in S : \E y \in S : ~(y <= x) PROVE FALSE
  OBVIOUS
<1>1. Cardinality(S) \in B
  <2>1. Cardinality(S) \in Nat
    BY FS_CardinalityType
  <2>. QED BY <2>1
<1>2. PICK n \in B : \A m \in B : n <= m
  <2>1. B \in SUBSET Nat /\ B # {}
    BY <1>1
  <2>. HIDE DEF B
  <2>. QED BY <2>1, SmallestNat
<1>3. PICK T \in SUBSET S : IsFiniteSet(T) /\ Cardinality(T) = n /\ T # {} /\ \A x \in T : \E y \in T : ~(y <= x)
  BY <1>2
<1>4. PICK a \in T : TRUE
  BY <1>3
<1>5. IsFiniteSet(T \ {a}) /\ Cardinality(T \ {a}) = n - 1
  BY <1>3, <1>4, FS_RemoveElement
<1>6. n \in Nat /\ n - 1 \in Nat /\ ~(n <= n - 1)
  <2>1. Cardinality(T \ {a}) \in Nat /\ n \in Nat
    BY <1>2, <1>5, FS_CardinalityType
  <2>. QED BY <2>1, <1>5
<1>7. n - 1 \notin B
  BY <1>2, <1>6
<1>8. ~Bad(n - 1)
  BY <1>6, <1>7
<1>9. T \ {a} = {} \/ \E x \in T \ {a} : \A y \in T \ {a} : y <= x
  BY <1>5, <1>8
<1>10. CASE T \ {a} = {}
  BY <1>3, <1>4, <1>10
<1>11. ASSUME NEW x \in T \ {a}, \A y \in T \ {a} : y <= x PROVE FALSE
  <2>1. a \in Int /\ x \in Int /\ T \subseteq Int
    OBVIOUS
  <2>2. CASE a <= x
    <3>1. \A y \in T : y <= x
      BY <1>11, <2>2
    <3>. QED BY <3>1, <1>3, <1>11
  <2>3. CASE ~(a <= x)
    <3>1. \A y \in T : y <= a
      BY <1>11, <2>1, <2>3
    <3>. QED BY <3>1, <1>3, <1>4
  <2>. QED BY <2>2, <2>3
<1>. QED BY <1>9, <1>10, <1>11

(* A finite set of numbers that is not empty has a least one.              *)
LEMMA FiniteMin ==
  ASSUME NEW S \in SUBSET Int, IsFiniteSet(S), S # {}
  PROVE  \E x \in S : \A y \in S : x <= y
<1>. DEFINE Bad(n) == \E T \in SUBSET S : IsFiniteSet(T) /\ Cardinality(T) = n /\ T # {} /\ \A x \in T : \E y \in T : ~(x <= y)
            B == {n \in Nat : Bad(n)}
<1>. SUFFICES ASSUME \A x \in S : \E y \in S : ~(x <= y) PROVE FALSE
  OBVIOUS
<1>1. Cardinality(S) \in B
  <2>1. Cardinality(S) \in Nat
    BY FS_CardinalityType
  <2>. QED BY <2>1
<1>2. PICK n \in B : \A m \in B : n <= m
  <2>1. B \in SUBSET Nat /\ B # {}
    BY <1>1
  <2>. HIDE DEF B
  <2>. QED BY <2>1, SmallestNat
<1>3. PICK T \in SUBSET S : IsFiniteSet(T) /\ Cardinality(T) = n /\ T # {} /\ \A x \in T : \E y \in T : ~(x <= y)
  BY <1>2
<1>4. PICK a \in T : TRUE
  BY <1>3
<1>5. IsFiniteSet(T \ {a}) /\ Cardinality(T \ {a}) = n - 1
  BY <1>3, <1>4, FS_RemoveElement
<1>6. n \in Nat /\ n - 1 \in Nat /\ ~(n <= n - 1)
  <2>1. Cardinality(T \ {a}) \in Nat /\ n \in Nat
    BY <1>2, <1>5, FS_CardinalityType
  <2>. QED BY <2>1, <1>5
<1>7. n - 1 \notin B
  BY <1>2, <1>6
<1>8. ~Bad(n - 1)
  BY <1>6, <1>7
<1>9. T \ {a} = {} \/ \E x \in T \ {a} : \A y \in T \ {a} : x <= y
  BY <1>5, <1>8
<1>10. CASE T \ {a} = {}
  BY <1>3, <1>4, <1>10
<1>11. ASSUME NEW x \in T \ {a}, \A y \in T \ {a} : x <= y PROVE FALSE
  <2>1. a \in Int /\ x \in Int /\ T \subseteq Int
    OBVIOUS
  <2>2. CASE x <= a
    <3>1. \A y \in T : x <= y
      BY <1>11, <2>2
    <3>. QED BY <3>1, <1>3, <1>11
  <2>3. CASE ~(x <= a)
    <3>1. \A y \in T : a <= y
      BY <1>11, <2>1, <2>3
    <3>. QED BY <3>1, <1>3, <1>4
  <2>. QED BY <2>2, <2>3
<1>. QED BY <1>9, <1>10, <1>11

(* The greatest and the least of a finite set of numbers.                  *)
LEMMA Extremes ==
  ASSUME NEW S \in SUBSET Int, IsFiniteSet(S), S # {}
  PROVE  /\ Max(S) \in S /\ \A y \in S : y <= Max(S)
         /\ Min(S) \in S /\ \A y \in S : Min(S) <= y
<1>1. Max(S) \in S /\ \A y \in S : Max(S) >= y
  <2>1. \E x \in S : \A y \in S : x >= y
    BY FiniteMax
  <2>. QED BY <2>1 DEF Max
<1>2. Min(S) \in S /\ \A y \in S : Min(S) <= y
  BY FiniteMin DEF Min
<1>. QED BY <1>1, <1>2

(* The less of two numbers.                                                *)
LEMMA MinOfTwo ==
  ASSUME NEW a \in Int, NEW b \in Int
  PROVE  Min({a, b}) = IF a <= b THEN a ELSE b
<1>1. \E x \in {a, b} : \A y \in {a, b} : x <= y
  OBVIOUS
<1>2. Min({a, b}) \in {a, b} /\ \A y \in {a, b} : Min({a, b}) <= y
  BY <1>1 DEF Min
<1>. QED BY <1>2

\* m is l without its n-th element.
Drops(m, l, n) == Len(m) = Len(l) - 1 /\ \A k \in 1 .. Len(l) - 1 : m[k] = IF k < n THEN l[k] ELSE l[k + 1]

(* Removing the i-th element drops it.                                     *)
LEMMA RemovedDrops ==
  ASSUME NEW S, NEW s \in Seq(S), NEW i \in 1 .. Len(s)
  PROVE  RemoveAt(s, i) \in Seq(S) /\ Drops(RemoveAt(s, i), s, i)
BY Removed DEF Drops

(* The tail drops the head.                                                *)
LEMMA TailDrops ==
  ASSUME NEW S, NEW s \in Seq(S), s # <<>>
  PROVE  Tail(s) \in Seq(S) /\ Drops(Tail(s), s, 1) /\ Head(s) = s[1] /\ 1 \in 1 .. Len(s)
<1>1. Tail(s) \in Seq(S) /\ Len(Tail(s)) = Len(s) - 1 /\ \A k \in 1 .. Len(s) - 1 : Tail(s)[k] = s[k + 1]
  OBVIOUS
<1>2. Len(s) \in Nat /\ Len(s) >= 1 /\ Head(s) = s[1]
  OBVIOUS
<1>. QED BY <1>1, <1>2 DEF Drops

(* Where the elements of what is left stood.                               *)
LEMMA DropsFrom ==
  ASSUME NEW S, NEW l \in Seq(S), NEW n \in 1 .. Len(l), NEW m \in Seq(S), Drops(m, l, n)
  PROVE  /\ \A k \in 1 .. Len(m) : \E x \in 1 .. Len(l) : x # n /\ m[k] = l[x]
         /\ \A x \in 1 .. Len(l) : x # n => \E k \in 1 .. Len(m) : m[k] = l[x]
         /\ \A j, k \in 1 .. Len(m) : j < k => \E x, y \in 1 .. Len(l) : x < y /\ x # n /\ y # n /\ m[j] = l[x] /\ m[k] = l[y]
<1>. DEFINE f(k) == IF k < n THEN k ELSE k + 1
<1>1. Len(l) \in Nat /\ Len(m) = Len(l) - 1 /\ \A k \in 1 .. Len(l) - 1 : m[k] = IF k < n THEN l[k] ELSE l[k + 1]
  BY DEF Drops
<1>2. \A k \in 1 .. Len(m) : f(k) \in 1 .. Len(l) /\ f(k) # n /\ m[k] = l[f(k)]
  BY <1>1
<1>3. \A j, k \in 1 .. Len(m) : j < k => f(j) < f(k)
  BY <1>1
<1>4. ASSUME NEW x \in 1 .. Len(l), x # n PROVE \E k \in 1 .. Len(m) : m[k] = l[x]
  <2>. DEFINE y == IF x < n THEN x ELSE x - 1
  <2>1. y \in 1 .. Len(m) /\ f(y) = x
    BY <1>1, <1>4
  <2>2. m[y] = l[f(y)]
    BY <2>1, <1>2
  <2>. QED BY <2>1, <2>2
<1>. HIDE DEF f
<1>. QED BY <1>2, <1>3, <1>4

-----------------------------------------------------------------------------
(* MatchingEngine.                                                         *)

Engine == INSTANCE MatchingEngine WITH Ids <- EngineIds,
        Prices <- EnginePrices, Qtys <- EngineQtys, book <- eBook,
        index_ <- eIndex, order <- eOrder, arrived <- eArrived,
        placed <- ePlaced, filled <- eFilled, taken <- eTaken

(* Engine's finite sets are those that the theorems on finite sets are     *)
(* about.                                                                  *)
LEMMA EngineCardinality ==
  ASSUME NEW S
  PROVE  Engine!Cardinality(S) = Cardinality(S) /\ (Engine!IsFiniteSet(S) <=> IsFiniteSet(S))
BY DEF Engine!Cardinality, Cardinality, Engine!IsFiniteSet, IsFiniteSet

(* The least of a set of numbers is one of them.                           *)
LEMMA EngineFirstIn ==
  ASSUME NEW T, T \subseteq Nat, T # {}
  PROVE  Engine!Min(T) \in T
BY FirstIn DEF Engine!Min, Min

(* A sequence without its i-th element.                                    *)
LEMMA EngineRemovedDrops ==
  ASSUME NEW S, NEW s \in Seq(S), NEW i \in 1 .. Len(s)
  PROVE  Engine!RemoveAt(s, i) \in Seq(S) /\ Drops(Engine!RemoveAt(s, i), s, i)
<1>1. Engine!RemoveAt(s, i) = RemoveAt(s, i)
  BY DEF Engine!RemoveAt, RemoveAt
<1> QED
  BY <1>1, RemovedDrops

(* The greatest and the least of a finite set of numbers.                  *)
LEMMA EngineExtremes ==
  ASSUME NEW S \in SUBSET Int, Engine!IsFiniteSet(S), S # {}
  PROVE  /\ Engine!Max(S) \in S /\ \A y \in S : y <= Engine!Max(S)
         /\ Engine!Min(S) \in S /\ \A y \in S : Engine!Min(S) <= y
<1>1. Engine!Max(S) = Max(S) /\ Engine!Min(S) = Min(S)
  BY DEF Engine!Max, Max, Engine!Min, Min
<1> QED
  BY <1>1, Extremes, EngineCardinality

(* The less of two numbers.                                                *)
LEMMA EngineMinOfTwo ==
  ASSUME NEW a \in Int, NEW b \in Int
  PROVE  Engine!Min({a, b}) = IF a <= b THEN a ELSE b
<1>1. Engine!Min({a, b}) = Min({a, b})
  BY DEF Engine!Min, Min
<1> QED
  BY <1>1, MinOfTwo

\* The entry e is in book b.
EngineIn(b, e) == \E s \in Engine!Sides, p \in EnginePrices : \E j \in 1 .. Len(b[s][p]) : b[s][p][j] = e

(* RestIn(b, i) is what b has of order i.                                  *)
LEMMA EngineInRest ==
  ASSUME NEW b \in Engine!Books, NEW i, NEW e
  PROVE  e \in Engine!RestIn(b, i) <=> EngineIn(b, e) /\ e.id = i
<1>1. \A s \in Engine!Sides, p \in EnginePrices : Engine!ToSet(b[s][p]) = {b[s][p][j] : j \in 1 .. Len(b[s][p])}
  BY DEF Engine!ToSet, Engine!Books
<1>2. ASSUME e \in Engine!RestIn(b, i) PROVE EngineIn(b, e) /\ e.id = i
  BY <1>1, <1>2 DEF Engine!RestIn, EngineIn
<1>3. ASSUME EngineIn(b, e), e.id = i PROVE e \in Engine!RestIn(b, i)
  <2>1a. PICK s \in Engine!Sides, p \in EnginePrices : \E j \in 1 .. Len(b[s][p]) : b[s][p][j] = e
    BY <1>3 DEF EngineIn
  <2>1. PICK j \in 1 .. Len(b[s][p]) : b[s][p][j] = e
    BY <2>1a
  <2>2. e \in Engine!ToSet(b[s][p])
    BY <2>1, <1>1
  <2>3. e \in UNION {Engine!ToSet(b[t][r]) : t \in Engine!Sides, r \in EnginePrices}
    BY <2>2
  <2>. QED BY <2>3, <1>3 DEF Engine!RestIn
<1>. QED BY <1>2, <1>3

(* What is in a book has an id and a quantity above zero.                  *)
LEMMA EngineInEntry ==
  ASSUME NEW b \in Engine!Books, NEW e, EngineIn(b, e)
  PROVE  e \in Engine!Entry /\ e.id \in EngineIds /\ e.qty \in Nat /\ e.qty > 0
<1>1a. PICK s \in Engine!Sides, p \in EnginePrices : \E j \in 1 .. Len(b[s][p]) : b[s][p][j] = e
  BY DEF EngineIn
<1>1. PICK j \in 1 .. Len(b[s][p]) : b[s][p][j] = e
  BY <1>1a
<1>2. PICK l \in Seq(Engine!Entry) : l = b[s][p]
  BY DEF Engine!Books
<1>3. e \in Engine!Entry
  BY <1>1, <1>2
<1>. QED BY <1>3 DEF Engine!Entry

(* No entry, no quantity; an entry, its quantity.                          *)
LEMMA EngineQtyNone ==
  ASSUME NEW b \in Engine!Books, NEW i, \A e : EngineIn(b, e) => e.id # i
  PROVE  Engine!QtyIn(b, i) = 0
<1>1. Engine!RestIn(b, i) = {}
  BY EngineInRest
<1>. QED BY <1>1 DEF Engine!QtyIn

\* An order has one entry.
EngineOneEach(b) == \A e, f : EngineIn(b, e) /\ EngineIn(b, f) /\ e.id = f.id => e = f

\* An order is in one place.
EngineOnePlace(b) ==
  \A s, t \in Engine!Sides, p, r \in EnginePrices : \A j \in 1 .. Len(b[s][p]), k \in 1 .. Len(b[t][r]) :
    b[s][p][j].id = b[t][r][k].id => s = t /\ p = r /\ j = k

(* An order with one entry rests with the quantity of that entry.          *)
LEMMA EngineQtyOne ==
  ASSUME NEW b \in Engine!Books, EngineOneEach(b), NEW e, EngineIn(b, e)
  PROVE  Engine!QtyIn(b, e.id) = e.qty
<1>1. e \in Engine!RestIn(b, e.id)
  BY EngineInRest
<1>2. \A f \in Engine!RestIn(b, e.id) : f = e
  BY EngineInRest DEF EngineOneEach
<1>. QED BY <1>1, <1>2 DEF Engine!QtyIn

(* Books that agree on an order agree on its quantity.                     *)
LEMMA EngineQtySame ==
  ASSUME NEW b \in Engine!Books, NEW c \in Engine!Books, NEW i, \A e : e.id = i => (EngineIn(b, e) <=> EngineIn(c, e))
  PROVE  Engine!QtyIn(b, i) = Engine!QtyIn(c, i)
<1>1. \A e : e \in Engine!RestIn(b, i) <=> e \in Engine!RestIn(c, i)
  BY EngineInRest
<1>2. Engine!RestIn(b, i) = Engine!RestIn(c, i)
  BY <1>1
<1>. QED BY <1>2 DEF Engine!QtyIn

(* What rests of an order is a number.                                     *)
LEMMA EngineQtyType ==
  ASSUME NEW b \in Engine!Books, NEW i
  PROVE  Engine!QtyIn(b, i) \in Nat
<1>1. CASE Engine!RestIn(b, i) = {}
  BY <1>1 DEF Engine!QtyIn
<1>2. CASE Engine!RestIn(b, i) # {}
  <2>1. PICK e \in Engine!RestIn(b, i) : e = CHOOSE f \in Engine!RestIn(b, i) : TRUE
    BY <1>2
  <2>2. e.qty \in Nat
    BY <2>1, EngineInRest, EngineInEntry
  <2>. QED BY <1>2, <2>1, <2>2 DEF Engine!QtyIn
<1>. QED BY <1>1, <1>2

(* In the book of the index, in order of arrival, an id stands once.       *)
LEMMA EngineUnique ==
  ASSUME NEW b \in Engine!Books, NEW x, NEW came,
         \A s \in Engine!Sides, p \in EnginePrices : Engine!Placed(b[s][p], x, s, p) /\ Engine!InOrder(b[s][p], came),
         \A i \in DOMAIN x : \E a \in 1 .. Len(came) : came[a] = i, Len(came) \in Nat
  PROVE  EngineOnePlace(b)
<1>. SUFFICES ASSUME NEW s \in Engine!Sides, NEW t \in Engine!Sides, NEW p \in EnginePrices, NEW r \in EnginePrices,
                     NEW j \in 1 .. Len(b[s][p]), NEW k \in 1 .. Len(b[t][r]), b[s][p][j].id = b[t][r][k].id
              PROVE  s = t /\ p = r /\ j = k
  BY DEF EngineOnePlace
<1>1. PICK l \in Seq(Engine!Entry), m \in Seq(Engine!Entry) : l = b[s][p] /\ m = b[t][r]
  BY DEF Engine!Books
<1>2. l[j].id \in DOMAIN x /\ x[l[j].id].side = s /\ x[l[j].id].price = p
  BY <1>1 DEF Engine!Placed
<1>3. x[m[k].id].side = t /\ x[m[k].id].price = r
  BY <1>1 DEF Engine!Placed
<1>4. s = t /\ p = r /\ l = m
  BY <1>1, <1>2, <1>3
<1>5. PICK a \in 1 .. Len(came) : came[a] = l[j].id
  BY <1>2
<1>6. a \in Nat /\ ~(a < a)
  OBVIOUS
<1>7. Engine!InOrder(l, came)
  BY <1>1
<1>8. l[j].id = l[k].id /\ j \in 1 .. Len(l) /\ k \in 1 .. Len(l)
  BY <1>1, <1>4
<1>9. ~(j < k) /\ ~(k < j)
  BY <1>5, <1>6, <1>7, <1>8 DEF Engine!InOrder
<1>10. j = k
  BY <1>8, <1>9
<1>. QED BY <1>4, <1>10

(* An order in one place has one entry.                                    *)
LEMMA EnginePlaceEach == ASSUME NEW b \in Engine!Books, EngineOnePlace(b) PROVE EngineOneEach(b)
<1>. SUFFICES ASSUME NEW e, NEW f, EngineIn(b, e), EngineIn(b, f), e.id = f.id PROVE e = f
  BY DEF EngineOneEach
<1>1. PICK s \in Engine!Sides, p \in EnginePrices : \E j \in 1 .. Len(b[s][p]) : b[s][p][j] = e
  BY DEF EngineIn
<1>2. PICK t \in Engine!Sides, r \in EnginePrices : \E k \in 1 .. Len(b[t][r]) : b[t][r][k] = f
  BY DEF EngineIn
<1>. QED BY <1>1, <1>2 DEF EngineOnePlace

(* A new engine.                                                           *)
LEMMA EngineInit == Engine!Sized /\ Engine!Init => Engine!IInv
<1>. SUFFICES ASSUME Engine!Sized, Engine!Init PROVE Engine!IInv
  OBVIOUS
<1>1. Engine!WellTyped
  BY DEF Engine!Init, Engine!WellTyped, Engine!Books, Engine!Sides, Engine!NoOrder
<1>2. \A s \in Engine!Sides, p \in EnginePrices : eBook[s][p] = <<>>
  BY DEF Engine!Init
<1>3. Engine!Known
  BY DEF Engine!Init, Engine!Known, Engine!Arrived, Engine!NoOrder
<1>4. Engine!Queues
  BY <1>2 DEF Engine!Queues, Engine!Placed, Engine!InOrder
<1>5. Engine!Uncrossed
  BY <1>2 DEF Engine!Uncrossed, Engine!Levels, Engine!Sides
<1>6. Engine!Accounts
  BY DEF Engine!Init, Engine!Accounts, Engine!Arrived
<1>. QED BY <1>1, <1>3, <1>4, <1>5, <1>6 DEF Engine!IInv

(* Of each order the book has one entry, in one place: all entries of an   *)
(* id are in the queue of its index entry, and within a queue the ids came *)
(* one after the other.                                                    *)
LEMMA EngineBookOne == Engine!IInv => EngineOnePlace(eBook) /\ EngineOneEach(eBook)
<1>. SUFFICES ASSUME Engine!IInv PROVE EngineOnePlace(eBook) /\ EngineOneEach(eBook)
  OBVIOUS
<1>1. /\ \A s \in Engine!Sides, p \in EnginePrices : Engine!Placed(eBook[s][p], eIndex, s, p) /\ Engine!InOrder(eBook[s][p], eArrived)
      /\ \A i \in DOMAIN eIndex : \E a \in 1 .. Len(eArrived) : eArrived[a] = i
      /\ Len(eArrived) \in Nat /\ eBook \in Engine!Books
  BY DEF Engine!IInv, Engine!Queues, Engine!Known, Engine!Arrived, Engine!WellTyped
<1>. QED BY <1>1, EngineUnique, EnginePlaceEach

(* What the invariant promises: the book is uncrossed, the index and the   *)
(* queues hold the same orders, and every quantity is traded, taken back,  *)
(* resting or being matched.                                               *)
LEMMA EngineImplied == Engine!IInv => Engine!BookMatched
<1>. SUFFICES ASSUME Engine!IInv PROVE Engine!BookMatched
  OBVIOUS
<1>1. Engine!WellTyped /\ Engine!Known /\ Engine!Queues /\ Engine!Uncrossed /\ Engine!Accounts /\ eBook \in Engine!Books
  BY DEF Engine!IInv, Engine!WellTyped
<1>2. \A i : Engine!Resting(i) = Engine!RestIn(eBook, i) /\ Engine!RestingQty(i) = Engine!QtyIn(eBook, i)
  BY DEF Engine!Resting, Engine!RestIn, Engine!RestingQty, Engine!QtyIn, Engine!Entries
<1>3. DOMAIN eArrived = 1 .. Len(eArrived)
  BY <1>1 DEF Engine!WellTyped
<1>4. Engine!Conserved
  <2>. SUFFICES ASSUME NEW i \in Engine!ToSet(eArrived)
                PROVE  /\ \A e, f \in Engine!Resting(i) : e = f
                       /\ ePlaced[i] = eFilled[i] + eTaken[i] + Engine!RestingQty(i) + (IF eOrder.id = i THEN eOrder.qty ELSE 0)
    BY DEF Engine!Conserved
  <2>1. i \in EngineIds /\ Engine!Arrived(i)
    BY <1>1, <1>3 DEF Engine!ToSet, Engine!Arrived, Engine!WellTyped
  <2>2. \A e, f \in Engine!Resting(i) : e = f
    BY <1>1, <1>2, EngineBookOne, EngineInRest DEF EngineOneEach
  <2>. QED BY <2>1, <2>2, <1>1, <1>2 DEF Engine!Accounts, Engine!Working
<1>5. ASSUME NEW s \in Engine!Sides, NEW p \in EnginePrices
      PROVE  /\ \A e \in Engine!Entries(s, p) : /\ e.qty > 0
                                                /\ e.id \in DOMAIN eIndex
                                                /\ eIndex[e.id] = [side |-> s, price |-> p]
             /\ \A j, k \in DOMAIN eBook[s][p] :
                  j < k => Engine!Arrival(eBook[s][p][j].id) < Engine!Arrival(eBook[s][p][k].id)
  <2>1. PICK l \in Seq(Engine!Entry) : l = eBook[s][p]
    BY <1>1 DEF Engine!Books
  <2>2. DOMAIN l = 1 .. Len(l)
    BY <2>1
  <2>3. Engine!Placed(l, eIndex, s, p) /\ Engine!InOrder(l, eArrived)
    BY <1>1, <2>1 DEF Engine!Queues
  <2>4. ASSUME NEW e \in Engine!Entries(s, p) PROVE e.qty > 0 /\ e.id \in DOMAIN eIndex /\ eIndex[e.id] = [side |-> s, price |-> p]
    <3>1. PICK j \in 1 .. Len(l) : l[j] = e
      BY <2>1, <2>2 DEF Engine!Entries, Engine!ToSet
    <3>2. e \in Engine!Entry
      BY <3>1
    <3>3. e.qty > 0
      BY <3>2 DEF Engine!Entry
    <3>4. e.id \in DOMAIN eIndex /\ eIndex[e.id].side = s /\ eIndex[e.id].price = p
      BY <3>1, <2>3 DEF Engine!Placed
    <3>5. eIndex[e.id] \in Engine!Loc
      BY <3>4, <1>1 DEF Engine!WellTyped
    <3>. QED BY <3>3, <3>4, <3>5 DEF Engine!Loc
  <2>5. ASSUME NEW j \in DOMAIN l, NEW k \in DOMAIN l, j < k PROVE Engine!Arrival(l[j].id) < Engine!Arrival(l[k].id)
    <3>1. l[j].id \in DOMAIN eIndex /\ l[k].id \in DOMAIN eIndex
      BY <2>2, <2>3 DEF Engine!Placed
    <3>2. Engine!Arrived(l[j].id) /\ Engine!Arrived(l[k].id)
      BY <3>1, <1>1 DEF Engine!Known
    <3>3. Engine!Arrival(l[j].id) \in 1 .. Len(eArrived) /\ eArrived[Engine!Arrival(l[j].id)] = l[j].id
      BY <3>2, <1>3 DEF Engine!Arrived, Engine!Arrival
    <3>4. Engine!Arrival(l[k].id) \in 1 .. Len(eArrived) /\ eArrived[Engine!Arrival(l[k].id)] = l[k].id
      BY <3>2, <1>3 DEF Engine!Arrived, Engine!Arrival
    <3>. QED BY <3>3, <3>4, <2>2, <2>3, <2>5 DEF Engine!InOrder
  <2>. QED BY <2>1, <2>4, <2>5
<1>. QED BY <1>1, <1>4, <1>5 DEF Engine!BookMatched, Engine!Uncrossed

\* c is b with the queue of s and p replaced by m.
EngineDiffers(b, c, s, p, m) ==
  /\ c \in Engine!Books
  /\ \A a \in Engine!Sides, r \in EnginePrices : c[a][r] = IF a = s /\ r = p THEN m ELSE b[a][r]

(* Assigning one queue changes no other.                                   *)
LEMMA EngineQueueSet ==
  ASSUME NEW b \in Engine!Books, NEW s \in Engine!Sides, NEW p \in EnginePrices, NEW q \in Seq(Engine!Entry)
  PROVE  EngineDiffers(b, [b EXCEPT ![s][p] = q], s, p, q)
<1>1. PICK l \in [EnginePrices -> Seq(Engine!Entry)] : l = [b[s] EXCEPT ![p] = q]
  BY DEF Engine!Books
<1>2. PICK c : c = [b EXCEPT ![s][p] = q]
  OBVIOUS
<1>3. c = [b EXCEPT ![s] = l]
  BY <1>1, <1>2
<1>4. \A r \in EnginePrices : l[r] = IF r = p THEN q ELSE b[s][r]
  BY <1>1 DEF Engine!Books
<1>5. c \in Engine!Books
  BY <1>3 DEF Engine!Books
<1>6. \A a \in Engine!Sides, r \in EnginePrices : c[a][r] = IF a = s /\ r = p THEN q ELSE b[a][r]
  BY <1>3, <1>4 DEF Engine!Books
<1>7. EngineDiffers(b, c, s, p, q)
  BY <1>5, <1>6 DEF EngineDiffers
<1>. QED BY <1>2, <1>7

(* Without its n-th entry a queue, and so the book, lacks that order only. *)
LEMMA EngineInDropped ==
  ASSUME NEW b \in Engine!Books, EngineOnePlace(b), NEW s \in Engine!Sides, NEW p \in EnginePrices, NEW l \in Seq(Engine!Entry), l = b[s][p],
         NEW n \in 1 .. Len(l), NEW m \in Seq(Engine!Entry), Drops(m, l, n), NEW c, EngineDiffers(b, c, s, p, m), NEW e
  PROVE  EngineIn(c, e) <=> EngineIn(b, e) /\ e.id # l[n].id
<1>0. /\ \A k \in 1 .. Len(m) : \E x \in 1 .. Len(l) : x # n /\ m[k] = l[x]
      /\ \A x \in 1 .. Len(l) : x # n => \E k \in 1 .. Len(m) : m[k] = l[x]
  <2>1. l \in Seq(Engine!Entry) /\ n \in 1 .. Len(l) /\ m \in Seq(Engine!Entry) /\ Drops(m, l, n)
    OBVIOUS
  <2>. QED BY ONLY <2>1, DropsFrom
<1>1. ASSUME EngineIn(c, e) PROVE EngineIn(b, e) /\ e.id # l[n].id
  <2>1. PICK a \in Engine!Sides, r \in EnginePrices : \E j \in 1 .. Len(c[a][r]) : c[a][r][j] = e
    BY <1>1 DEF EngineIn
  <2>2. PICK j \in 1 .. Len(c[a][r]) : c[a][r][j] = e
    BY <2>1
  <2>3. CASE a = s /\ r = p
    <3>1. c[a][r] = m
      BY <2>3 DEF EngineDiffers
    <3>2. PICK x \in 1 .. Len(l) : x # n /\ m[j] = l[x]
      BY <3>1, <1>0
    <3>3. l[x].id # l[n].id
      BY <3>2 DEF EngineOnePlace
    <3>. QED BY <2>2, <3>1, <3>2, <3>3 DEF EngineIn
  <2>4. CASE ~(a = s /\ r = p)
    <3>1. c[a][r] = b[a][r]
      BY <2>4 DEF EngineDiffers
    <3>2. b[a][r][j].id # l[n].id
      BY <3>1, <2>2, <2>4 DEF EngineOnePlace
    <3>. QED BY <2>2, <3>1, <3>2 DEF EngineIn
  <2>. QED BY <2>3, <2>4
<1>2. ASSUME EngineIn(b, e), e.id # l[n].id PROVE EngineIn(c, e)
  <2>1. PICK a \in Engine!Sides, r \in EnginePrices : \E j \in 1 .. Len(b[a][r]) : b[a][r][j] = e
    BY <1>2 DEF EngineIn
  <2>2. PICK j \in 1 .. Len(b[a][r]) : b[a][r][j] = e
    BY <2>1
  <2>3. CASE a = s /\ r = p
    <3>1. c[a][r] = m /\ b[a][r] = l
      BY <2>3 DEF EngineDiffers
    <3>2. j # n /\ j \in 1 .. Len(l)
      BY <3>1, <2>2, <1>2
    <3>3. PICK k \in 1 .. Len(m) : m[k] = l[j]
      BY <3>2, <1>0
    <3>. QED BY <2>2, <3>1, <3>3 DEF EngineIn
  <2>4. CASE ~(a = s /\ r = p)
    BY <2>2, <2>4 DEF EngineDiffers, EngineIn
  <2>. QED BY <2>3, <2>4
<1>. QED BY <1>1, <1>2

\* m is l with another first entry of the same id.
EngineRefits(m, l, h) ==
  /\ Len(m) = Len(l) /\ Len(l) > 0 /\ m[1] = h /\ h.id = l[1].id
  /\ \A k \in 1 .. Len(l) : k # 1 => m[k] = l[k]

(* With another quantity at the head the book has that order otherwise,    *)
(* and the others as before.                                               *)
LEMMA EngineInRefitted ==
  ASSUME NEW b \in Engine!Books, EngineOnePlace(b), NEW s \in Engine!Sides, NEW p \in EnginePrices, NEW l \in Seq(Engine!Entry), l = b[s][p],
         NEW h \in Engine!Entry, NEW m \in Seq(Engine!Entry), EngineRefits(m, l, h), NEW c, EngineDiffers(b, c, s, p, m), NEW e
  PROVE  EngineIn(c, e) <=> (EngineIn(b, e) /\ e.id # h.id) \/ e = h
<1>0. Len(l) \in Nat /\ Len(l) > 0 /\ 1 \in 1 .. Len(l) /\ h.id = l[1].id
  BY DEF EngineRefits
<1>1. ASSUME EngineIn(c, e) PROVE (EngineIn(b, e) /\ e.id # h.id) \/ e = h
  <2>1. PICK a \in Engine!Sides, r \in EnginePrices : \E j \in 1 .. Len(c[a][r]) : c[a][r][j] = e
    BY <1>1 DEF EngineIn
  <2>2. PICK j \in 1 .. Len(c[a][r]) : c[a][r][j] = e
    BY <2>1
  <2>3. CASE a = s /\ r = p
    <3>1. c[a][r] = m
      BY <2>3 DEF EngineDiffers
    <3>2. CASE j = 1
      BY <3>1, <3>2, <2>2 DEF EngineRefits
    <3>3. CASE j # 1
      <4>1. m[j] = l[j] /\ j \in 1 .. Len(l)
        BY <3>1, <3>3 DEF EngineRefits
      <4>2. l[j].id # l[1].id
        BY <4>1, <3>3, <1>0 DEF EngineOnePlace
      <4>. QED BY <4>1, <4>2, <3>1, <2>2, <1>0 DEF EngineIn
    <3>. QED BY <3>2, <3>3
  <2>4. CASE ~(a = s /\ r = p)
    <3>1. c[a][r] = b[a][r]
      BY <2>4 DEF EngineDiffers
    <3>2. b[a][r][j].id # l[1].id
      BY <3>1, <2>2, <2>4, <1>0 DEF EngineOnePlace
    <3>. QED BY <2>2, <3>1, <3>2, <1>0 DEF EngineIn
  <2>. QED BY <2>3, <2>4
<1>2. ASSUME EngineIn(b, e), e.id # h.id PROVE EngineIn(c, e)
  <2>1. PICK a \in Engine!Sides, r \in EnginePrices : \E j \in 1 .. Len(b[a][r]) : b[a][r][j] = e
    BY <1>2 DEF EngineIn
  <2>2. PICK j \in 1 .. Len(b[a][r]) : b[a][r][j] = e
    BY <2>1
  <2>3. CASE a = s /\ r = p
    <3>1. c[a][r] = m /\ b[a][r] = l
      BY <2>3 DEF EngineDiffers
    <3>2. j # 1 /\ j \in 1 .. Len(l)
      BY <3>1, <2>2, <1>0, <1>2
    <3>3. j \in 1 .. Len(m) /\ m[j] = l[j]
      BY <3>2 DEF EngineRefits
    <3>. QED BY <2>2, <3>1, <3>3 DEF EngineIn
  <2>4. CASE ~(a = s /\ r = p)
    BY <2>2, <2>4 DEF EngineDiffers, EngineIn
  <2>. QED BY <2>3, <2>4
<1>3. EngineIn(c, h)
  <2>1. c[s][p] = m /\ 1 \in 1 .. Len(m) /\ m[1] = h
    BY <1>0 DEF EngineDiffers, EngineRefits
  <2>. QED BY <2>1 DEF EngineIn
<1>. QED BY <1>1, <1>2, <1>3

\* m is l and then h.
EngineAdds(m, l, h) == Len(m) = Len(l) + 1 /\ m[Len(l) + 1] = h /\ \A k \in 1 .. Len(l) : m[k] = l[k]

(* With one more entry at the end the book has that order too.             *)
LEMMA EngineInAppended ==
  ASSUME NEW b \in Engine!Books, NEW s \in Engine!Sides, NEW p \in EnginePrices, NEW l \in Seq(Engine!Entry), l = b[s][p],
         NEW h \in Engine!Entry, NEW m \in Seq(Engine!Entry), EngineAdds(m, l, h), NEW c, EngineDiffers(b, c, s, p, m), NEW e
  PROVE  EngineIn(c, e) <=> EngineIn(b, e) \/ e = h
<1>0. Len(l) \in Nat /\ Len(m) = Len(l) + 1 /\ m[Len(l) + 1] = h /\ \A k \in 1 .. Len(l) : m[k] = l[k]
  BY DEF EngineAdds
<1>1. ASSUME EngineIn(c, e) PROVE EngineIn(b, e) \/ e = h
  <2>1. PICK a \in Engine!Sides, r \in EnginePrices : \E j \in 1 .. Len(c[a][r]) : c[a][r][j] = e
    BY <1>1 DEF EngineIn
  <2>2. PICK j \in 1 .. Len(c[a][r]) : c[a][r][j] = e
    BY <2>1
  <2>3. CASE a = s /\ r = p
    <3>1. c[a][r] = m
      BY <2>3 DEF EngineDiffers
    <3>2. j = Len(l) + 1 \/ j \in 1 .. Len(l)
      BY <3>1, <1>0
    <3>. QED BY <3>1, <3>2, <2>2, <1>0 DEF EngineIn
  <2>4. CASE ~(a = s /\ r = p)
    BY <2>2, <2>4 DEF EngineDiffers, EngineIn
  <2>. QED BY <2>3, <2>4
<1>2. ASSUME EngineIn(b, e) PROVE EngineIn(c, e)
  <2>1. PICK a \in Engine!Sides, r \in EnginePrices : \E j \in 1 .. Len(b[a][r]) : b[a][r][j] = e
    BY <1>2 DEF EngineIn
  <2>2. PICK j \in 1 .. Len(b[a][r]) : b[a][r][j] = e
    BY <2>1
  <2>3. CASE a = s /\ r = p
    <3>1. c[a][r] = m /\ b[a][r] = l
      BY <2>3 DEF EngineDiffers
    <3>2. j \in 1 .. Len(m) /\ m[j] = l[j]
      BY <3>1, <2>2, <1>0
    <3>. QED BY <2>2, <3>1, <3>2 DEF EngineIn
  <2>4. CASE ~(a = s /\ r = p)
    BY <2>2, <2>4 DEF EngineDiffers, EngineIn
  <2>. QED BY <2>3, <2>4
<1>3. EngineIn(c, h)
  <2>1. c[s][p] = m
    BY DEF EngineDiffers
  <2>2. Len(l) + 1 \in 1 .. Len(m)
    BY <1>0
  <2>. QED BY <2>1, <2>2, <1>0 DEF EngineIn
<1>. QED BY <1>1, <1>2, <1>3

(* A queue that lost an entry, or whose first one lost quantity, is a      *)
(* queue still.                                                            *)
LEMMA EngineQueueDropped ==
  ASSUME NEW l \in Seq(Engine!Entry), NEW n \in 1 .. Len(l), NEW m \in Seq(Engine!Entry), Drops(m, l, n),
         NEW x, NEW s, NEW p, NEW came, Engine!Placed(l, x, s, p), Engine!InOrder(l, came)
  PROVE  Engine!Placed(m, x, s, p) /\ Engine!InOrder(m, came) /\ l # <<>>
<1>1. /\ \A k \in 1 .. Len(m) : \E y \in 1 .. Len(l) : y # n /\ m[k] = l[y]
      /\ \A j, k \in 1 .. Len(m) : j < k => \E y, z \in 1 .. Len(l) : y < z /\ y # n /\ z # n /\ m[j] = l[y] /\ m[k] = l[z]
  BY DropsFrom
<1>2. Engine!Placed(m, x, s, p)
  <2>. SUFFICES ASSUME NEW k \in 1 .. Len(m)
                PROVE  m[k].id \in DOMAIN x /\ x[m[k].id].side = s /\ x[m[k].id].price = p
    BY DEF Engine!Placed
  <2>1. PICK y \in 1 .. Len(l) : m[k] = l[y]
    BY <1>1
  <2>. QED BY <2>1 DEF Engine!Placed
<1>3. ASSUME NEW j \in 1 .. Len(m), NEW k \in 1 .. Len(m), j < k, NEW c \in 1 .. Len(came), NEW d \in 1 .. Len(came),
             came[c] = m[j].id, came[d] = m[k].id
      PROVE  c < d
  <2>1. PICK y \in 1 .. Len(l), z \in 1 .. Len(l) : y < z /\ m[j] = l[y] /\ m[k] = l[z]
    BY <1>1, <1>3
  <2>. QED BY <2>1, <1>3 DEF Engine!InOrder
<1>4. Engine!InOrder(m, came)
  BY <1>3 DEF Engine!InOrder
<1>. QED BY <1>2, <1>4

(* Another quantity at the head changes neither place nor order.           *)
LEMMA EngineQueueRefitted ==
  ASSUME NEW l \in Seq(Engine!Entry), NEW m \in Seq(Engine!Entry), NEW h, EngineRefits(m, l, h),
         NEW x, NEW s, NEW p, NEW came, Engine!Placed(l, x, s, p), Engine!InOrder(l, came)
  PROVE  Engine!Placed(m, x, s, p) /\ Engine!InOrder(m, came) /\ l # <<>>
<1>1. Len(m) = Len(l) /\ l # <<>>
  BY DEF EngineRefits
<1>2. \A k \in 1 .. Len(l) : m[k].id = l[k].id
  BY DEF EngineRefits
<1>. QED BY <1>1, <1>2 DEF Engine!Placed, Engine!InOrder

(* The front of a side.                                                    *)
LEMMA EngineBestLevel ==
  ASSUME Engine!Sized, NEW s \in Engine!Sides, Engine!Levels(s) # {}
  PROVE  /\ Engine!Best(s) \in EnginePrices /\ eBook[s][Engine!Best(s)] # <<>>
         /\ s = "Buy" => \A p \in Engine!Levels(s) : p <= Engine!Best(s)
         /\ s = "Sell" => \A p \in Engine!Levels(s) : Engine!Best(s) <= p
<1>1. Engine!Levels(s) \in SUBSET Int /\ Engine!IsFiniteSet(Engine!Levels(s))
  <2>1. Engine!Levels(s) \subseteq EnginePrices
    BY DEF Engine!Levels
  <2>. QED BY <2>1, FS_Subset, EngineCardinality DEF Engine!Sized
<1>2. /\ Engine!Max(Engine!Levels(s)) \in Engine!Levels(s) /\ \A y \in Engine!Levels(s) : y <= Engine!Max(Engine!Levels(s))
      /\ Engine!Min(Engine!Levels(s)) \in Engine!Levels(s) /\ \A y \in Engine!Levels(s) : Engine!Min(Engine!Levels(s)) <= y
  BY <1>1, EngineExtremes
<1>3. Engine!Best(s) \in Engine!Levels(s)
  BY <1>2 DEF Engine!Best
<1>4. Engine!Best(s) \in EnginePrices /\ eBook[s][Engine!Best(s)] # <<>>
  BY <1>3 DEF Engine!Levels
<1>. QED BY <1>2, <1>4 DEF Engine!Best

(* add_order() on its way into the match loop.                             *)
LEMMA EngineAddKeeps ==
  ASSUME Engine!Sized, Engine!IInv, NEW i \in EngineIds, NEW s \in Engine!Sides, NEW p \in EnginePrices, NEW q \in EngineQtys, Engine!AddOrder(i, s, p, q)
  PROVE  Engine!IInv'
<1>0. Engine!WellTyped /\ Engine!Known /\ Engine!Queues /\ Engine!Uncrossed /\ Engine!Accounts /\ eBook \in Engine!Books
  BY DEF Engine!IInv, Engine!WellTyped
<1>1. /\ eBook' = eBook /\ eIndex' = eIndex /\ eFilled' = eFilled /\ eTaken' = eTaken
      /\ eArrived' = Append(eArrived, i) /\ ePlaced' = [ePlaced EXCEPT ![i] = q]
      /\ eOrder' = [id |-> i, side |-> s, price |-> p, qty |-> q]
      /\ eOrder.qty = 0 /\ i \notin Engine!ToSet(eArrived)
  BY DEF Engine!AddOrder, Engine!Idle, Engine!NoOrder
<1>2. q \in Nat
  BY DEF Engine!Sized
<1>3. ~Engine!Arrived(i)
  BY <1>0, <1>1 DEF Engine!Arrived, Engine!ToSet, Engine!WellTyped
<1>4a. eArrived \in Seq(EngineIds)
  BY <1>0 DEF Engine!WellTyped
<1>4. PICK c \in Seq(EngineIds) : c = eArrived'
  BY <1>1, <1>4a
<1>5. /\ Len(c) = Len(eArrived) + 1 /\ c[Len(c)] = i /\ Len(eArrived) \in Nat /\ Len(c) \in Nat
      /\ \A a \in 1 .. Len(eArrived) : c[a] = eArrived[a]
  BY <1>0, <1>1, <1>4 DEF Engine!WellTyped
<1>6. \A a \in 1 .. Len(c) : a \in 1 .. Len(eArrived) \/ a = Len(c)
  BY <1>5
<1>7. \A x : Engine!Arrived(x)' <=> Engine!Arrived(x) \/ x = i
  <2>1. ASSUME NEW x, Engine!Arrived(x)' PROVE Engine!Arrived(x) \/ x = i
    BY <2>1, <1>4, <1>5, <1>6 DEF Engine!Arrived
  <2>2. ASSUME NEW x, Engine!Arrived(x) PROVE Engine!Arrived(x)'
    <3>1. PICK a \in 1 .. Len(eArrived) : eArrived[a] = x
      BY <2>2 DEF Engine!Arrived
    <3>2. a \in 1 .. Len(c) /\ c[a] = x
      BY <3>1, <1>5
    <3>. QED BY <3>2, <1>4 DEF Engine!Arrived
  <2>3. Engine!Arrived(i)'
    <3>1. Len(c) \in 1 .. Len(c)
      BY <1>5
    <3>. QED BY <3>1, <1>4, <1>5 DEF Engine!Arrived
  <2>. QED BY <2>1, <2>2, <2>3
<1>8. i \notin DOMAIN eIndex /\ eFilled[i] = 0 /\ eTaken[i] = 0
  BY <1>0, <1>3 DEF Engine!Known
<1>9. Engine!WellTyped'
  BY <1>0, <1>1, <1>2, <1>4 DEF Engine!WellTyped
<1>10. Engine!Known'
  <2>1. \A a, b \in 1 .. Len(c) : c[a] = c[b] => a = b
    <3>1. \A a \in 1 .. Len(eArrived) : c[a] # i
      BY <1>3, <1>5 DEF Engine!Arrived
    <3>2. \A a, b \in 1 .. Len(eArrived) : c[a] = c[b] => a = b
      BY <1>0, <1>5 DEF Engine!Known
    <3>. QED BY <3>1, <3>2, <1>5, <1>6
  <2>2. \A x \in EngineIds : ~Engine!Arrived(x)' => eFilled'[x] = 0 /\ eTaken'[x] = 0
    BY <1>0, <1>1, <1>7 DEF Engine!Known
  <2>3. \A x \in DOMAIN eIndex' : Engine!Arrived(x)' /\ x \in EngineIds /\ eTaken'[x] = 0
    BY <1>0, <1>1, <1>7 DEF Engine!Known
  <2>4. /\ eOrder'.id = i /\ eOrder'.price = p /\ eOrder'.id \notin DOMAIN eIndex' /\ eTaken'[i] = 0
        /\ Len(eArrived') > 0 /\ eArrived'[Len(eArrived')] = i
    BY <1>1, <1>4, <1>5, <1>8
  <2>. QED BY <2>1, <2>2, <2>3, <2>4, <1>4 DEF Engine!Known
<1>11. Engine!Queues'
  <2>1. ASSUME NEW t \in Engine!Sides, NEW r \in EnginePrices PROVE Engine!Placed(eBook[t][r], eIndex, t, r) /\ Engine!InOrder(eBook[t][r], c)
    <3>1. Engine!Placed(eBook[t][r], eIndex, t, r) /\ Engine!InOrder(eBook[t][r], eArrived)
      BY <1>0 DEF Engine!Queues
    <3>2. ASSUME NEW j \in 1 .. Len(eBook[t][r]) PROVE eBook[t][r][j].id # i
      BY <3>1, <1>8 DEF Engine!Placed
    <3>3. ASSUME NEW j \in 1 .. Len(eBook[t][r]), NEW k \in 1 .. Len(eBook[t][r]), j < k,
                 NEW a \in 1 .. Len(c), NEW d \in 1 .. Len(c), c[a] = eBook[t][r][j].id, c[d] = eBook[t][r][k].id
          PROVE  a < d
      <4>1. a \in 1 .. Len(eArrived) /\ d \in 1 .. Len(eArrived)
        BY <3>2, <3>3, <1>5, <1>6
      <4>2. eArrived[a] = eBook[t][r][j].id /\ eArrived[d] = eBook[t][r][k].id
        BY <4>1, <3>3, <1>5
      <4>. QED BY <4>1, <4>2, <3>1, <3>3 DEF Engine!InOrder
    <3>. QED BY <3>1, <3>3 DEF Engine!InOrder
  <2>. QED BY <2>1, <1>1, <1>4 DEF Engine!Queues
<1>12. Engine!Uncrossed'
  BY <1>0, <1>1 DEF Engine!Uncrossed, Engine!Levels
<1>13. Engine!Accounts'
  <2>1. Engine!QtyIn(eBook, i) = 0
    <3>1. ASSUME NEW e, EngineIn(eBook, e) PROVE e.id # i
      BY <3>1, <1>0, <1>8 DEF EngineIn, Engine!Queues, Engine!Placed
    <3>. QED BY <3>1, <1>0, EngineQtyNone
  <2>2. ASSUME NEW x \in EngineIds, Engine!Arrived(x)'
        PROVE  ePlaced'[x] = eFilled[x] + eTaken[x] + Engine!QtyIn(eBook, x) + Engine!Working(eOrder', x)
    <3>1. CASE x = i
      BY <3>1, <2>1, <1>0, <1>1, <1>2, <1>8 DEF Engine!Working, Engine!WellTyped
    <3>2. CASE x # i
      <4>1. ePlaced[x] = eFilled[x] + eTaken[x] + Engine!QtyIn(eBook, x) + Engine!Working(eOrder, x)
        BY <3>2, <2>2, <1>0, <1>7 DEF Engine!Accounts
      <4>2. Engine!Working(eOrder, x) = 0 /\ Engine!Working(eOrder', x) = 0
        BY <3>2, <1>1 DEF Engine!Working
      <4>. QED BY <4>1, <4>2, <3>2, <1>0, <1>1 DEF Engine!WellTyped
    <3>. QED BY <3>1, <3>2
  <2>. QED BY <2>2, <1>1 DEF Engine!Accounts
<1>. QED BY <1>9, <1>10, <1>11, <1>12, <1>13 DEF Engine!IInv

(* What the match loop leaves of the order rests at the end of its queue:  *)
(* no level of the other side is matched by its price any more.            *)
LEMMA EngineRestKeeps == ASSUME Engine!Sized, Engine!IInv, Engine!Rest PROVE Engine!IInv'
<1>0. Engine!WellTyped /\ Engine!Known /\ Engine!Queues /\ Engine!Uncrossed /\ Engine!Accounts /\ eBook \in Engine!Books
  BY DEF Engine!IInv, Engine!WellTyped
<1>1. /\ eOrder' = Engine!NoOrder /\ eArrived' = eArrived /\ ePlaced' = ePlaced /\ eFilled' = eFilled /\ eTaken' = eTaken
      /\ \A x : Engine!Arrived(x)' <=> Engine!Arrived(x)
  BY DEF Engine!Rest, Engine!Arrived
<1>2. \A x : Engine!Working(eOrder', x) = 0
  BY <1>1 DEF Engine!Working, Engine!NoOrder
<1>3. CASE eOrder.qty = 0
  <2>1. eBook' = eBook /\ eIndex' = eIndex
    BY <1>3 DEF Engine!Rest
  <2>2. Engine!WellTyped'
    BY <1>0, <1>1, <2>1 DEF Engine!WellTyped, Engine!NoOrder, Engine!Sides
  <2>3. Engine!Known'
    BY <1>0, <1>1, <2>1 DEF Engine!Known, Engine!NoOrder
  <2>4. Engine!Queues' /\ Engine!Uncrossed'
    BY <1>0, <1>1, <2>1 DEF Engine!Queues, Engine!Uncrossed, Engine!Levels
  <2>5. \A x : Engine!Working(eOrder, x) = 0
    BY <1>3 DEF Engine!Working
  <2>6. Engine!Accounts'
    BY <1>0, <1>1, <1>2, <2>1, <2>5 DEF Engine!Accounts
  <2>. QED BY <2>2, <2>3, <2>4, <2>6 DEF Engine!IInv
<1>4. CASE eOrder.qty # 0
  <2>p. PICK s, p, i : s = eOrder.side /\ p = eOrder.price /\ i = eOrder.id
    OBVIOUS
  <2>0. /\ s \in Engine!Sides /\ p \in EnginePrices /\ i \in EngineIds /\ eOrder.qty \in Nat \ {0} /\ i \notin DOMAIN eIndex
        /\ eTaken[i] = 0 /\ Len(eArrived) > 0 /\ eArrived[Len(eArrived)] = i /\ eArrived \in Seq(EngineIds)
    BY <1>0, <1>4, <2>p DEF Engine!WellTyped, Engine!Known
  <2>1. /\ ~Engine!Crosses(eOrder)
        /\ eBook' = [eBook EXCEPT ![s][p] = Append(@, [id |-> i, qty |-> eOrder.qty])]
        /\ eIndex' = [x \in DOMAIN eIndex \cup {i} |-> IF x = i THEN [side |-> s, price |-> p] ELSE eIndex[x]]
    BY <1>4, <2>p DEF Engine!Rest
  <2>2. PICK l \in Seq(Engine!Entry) : l = eBook[s][p]
    BY <1>0, <2>0 DEF Engine!Books
  <2>3. PICK h \in Engine!Entry : h = [id |-> i, qty |-> eOrder.qty]
    BY <2>0 DEF Engine!Entry
  <2>4. h.id = i /\ h.qty = eOrder.qty
    BY <2>3
  <2>5. PICK m \in Seq(Engine!Entry) : m = Append(l, h)
    <3>1. Append(l, h) \in Seq(Engine!Entry)
      OBVIOUS
    <3>. QED BY ONLY <3>1
  <2>6. eBook' = [eBook EXCEPT ![s][p] = m]
    BY <2>1, <2>2, <2>3, <2>5
  <2>7. EngineDiffers(eBook, eBook', s, p, m) /\ eBook' \in Engine!Books
    <3>1. EngineDiffers(eBook, [eBook EXCEPT ![s][p] = m], s, p, m)
      BY ONLY <2>0, <1>0, m \in Seq(Engine!Entry), EngineQueueSet
    <3>. QED BY <3>1, <2>6 DEF EngineDiffers
  <2>9. Len(l) \in Nat /\ Len(m) = Len(l) + 1 /\ m[Len(l) + 1] = h /\ \A k \in 1 .. Len(l) : m[k] = l[k]
    BY <2>5
  <2>8. \A e : EngineIn(eBook', e) <=> EngineIn(eBook, e) \/ e = h
    <3>1. PICK b, c : b = eBook /\ c = eBook'
      OBVIOUS
    <3>2. /\ b \in Engine!Books /\ s \in Engine!Sides /\ p \in EnginePrices /\ l \in Seq(Engine!Entry) /\ l = b[s][p] /\ h \in Engine!Entry
          /\ m \in Seq(Engine!Entry) /\ EngineAdds(m, l, h) /\ EngineDiffers(b, c, s, p, m)
      BY <3>1, <2>0, <2>2, <2>5, <2>7, <2>9, <1>0 DEF EngineAdds
    <3>3. \A e : EngineIn(c, e) <=> EngineIn(b, e) \/ e = h
      BY ONLY <3>2, EngineInAppended
    <3>. QED BY <3>1, <3>3
  <2>10. Engine!WellTyped'
    <3>1. [side |-> s, price |-> p] \in Engine!Loc
      BY <2>0 DEF Engine!Loc
    <3>2. eIndex' \in [DOMAIN eIndex' -> Engine!Loc]
      BY <3>1, <2>1, <1>0 DEF Engine!WellTyped
    <3>. QED BY <3>2, <2>7, <1>0, <1>1 DEF Engine!WellTyped, Engine!NoOrder, Engine!Sides
  <2>11. Engine!Known'
    <3>1. DOMAIN eIndex' = DOMAIN eIndex \cup {i}
      BY <2>1
    <3>2. Engine!Arrived(i)
      <4>1. Len(eArrived) \in 1 .. Len(eArrived)
        BY <2>0
      <4>. QED BY <4>1, <2>0 DEF Engine!Arrived
    <3>3. \A x \in DOMAIN eIndex' : Engine!Arrived(x)' /\ x \in EngineIds /\ eTaken'[x] = 0
      BY <3>1, <3>2, <2>0, <1>0, <1>1 DEF Engine!Known
    <3>. QED BY <3>3, <1>0, <1>1 DEF Engine!Known, Engine!NoOrder
  <2>12. \A x \in DOMAIN eIndex : x \in DOMAIN eIndex' /\ eIndex'[x] = eIndex[x]
    BY <2>0, <2>1
  <2>13. i \in DOMAIN eIndex' /\ eIndex'[i].side = s /\ eIndex'[i].price = p
    <3>1. i \in DOMAIN eIndex' /\ eIndex'[i] = [side |-> s, price |-> p]
      BY <2>1
    <3>. QED BY <3>1
  <2>14. Engine!Queues'
    <3>1. \A t \in Engine!Sides, r \in EnginePrices : Engine!Placed(eBook[t][r], eIndex', t, r) /\ Engine!InOrder(eBook[t][r], eArrived)
      BY <2>12, <1>0 DEF Engine!Queues, Engine!Placed
    <3>2. Engine!Placed(m, eIndex', s, p)
      <4>. SUFFICES ASSUME NEW k \in 1 .. Len(m)
                    PROVE  m[k].id \in DOMAIN eIndex' /\ eIndex'[m[k].id].side = s /\ eIndex'[m[k].id].price = p
        BY DEF Engine!Placed
      <4>1. CASE k \in 1 .. Len(l)
        <5>1. m[k] = l[k]
          BY <4>1, <2>9
        <5>2. Engine!Placed(l, eIndex', s, p)
          BY <3>1, <2>0, <2>2
        <5>. QED BY ONLY <4>1, <5>1, <5>2 DEF Engine!Placed
      <4>2. CASE k \notin 1 .. Len(l)
        <5>1. m[k] = h
          BY <4>2, <2>9
        <5>. QED BY <5>1, <2>4, <2>13
      <4>. QED BY <4>1, <4>2
    <3>3. ASSUME NEW j \in 1 .. Len(m), NEW k \in 1 .. Len(m), j < k, NEW c \in 1 .. Len(eArrived),
                 NEW d \in 1 .. Len(eArrived), eArrived[c] = m[j].id, eArrived[d] = m[k].id
          PROVE  c < d
      <4>1. j \in 1 .. Len(l) /\ m[j] = l[j]
        BY <3>3, <2>9
      <4>2. CASE k \in 1 .. Len(l)
        <5>1. m[k] = l[k] /\ Engine!InOrder(l, eArrived)
          BY <4>2, <2>9, <3>1, <2>0, <2>2
        <5>. QED BY <5>1, <4>1, <4>2, <3>3 DEF Engine!InOrder
      <4>3. CASE k \notin 1 .. Len(l)
        <5>1. m[k] = h
          BY <4>3, <2>9
        <5>2. Len(eArrived) \in 1 .. Len(eArrived)
          BY <2>0
        <5>3. d = Len(eArrived)
          BY <5>1, <5>2, <3>3, <2>0, <2>4, <1>0 DEF Engine!Known
        <5>4. l[j].id \in DOMAIN eIndex
          BY <4>1, <2>0, <2>2, <1>0 DEF Engine!Queues, Engine!Placed
        <5>5. c # d
          BY <5>1, <5>4, <4>1, <3>3, <2>0, <2>4
        <5>. QED BY <5>2, <5>3, <5>5
      <4>. QED BY <4>2, <4>3
    <3>4. Engine!InOrder(m, eArrived)
      BY <3>3 DEF Engine!InOrder
    <3>. QED BY <3>1, <3>2, <3>4, <2>7, <1>1 DEF Engine!Queues, EngineDiffers
  <2>15. Engine!Uncrossed'
    <3>0. \A t \in Engine!Sides, r \in EnginePrices : eBook'[t][r] = IF t = s /\ r = p THEN m ELSE eBook[t][r]
      BY <2>7 DEF EngineDiffers
    <3>1. /\ \A t \in Engine!Sides : t # s => Engine!Levels(t)' = Engine!Levels(t)
          /\ Engine!Levels(s)' \subseteq Engine!Levels(s) \cup {p}
      <4>1. ASSUME NEW t \in Engine!Sides, t # s PROVE Engine!Levels(t)' = Engine!Levels(t)
        BY <3>0, <4>1 DEF Engine!Levels
      <4>2. Engine!Levels(s)' \subseteq Engine!Levels(s) \cup {p}
        BY <3>0, <2>0 DEF Engine!Levels
      <4>. QED BY <4>1, <4>2
    <3>2. CASE s = "Buy"
      <4>1. Engine!Levels("Sell") = {} \/ ~(Engine!Best("Sell") <= p)
        BY <3>2, <2>1, <2>p DEF Engine!Crosses, Engine!Opposite
      <4>2. ASSUME NEW a \in Engine!Levels("Sell") PROVE p < a
        <5>1. Engine!Best("Sell") \in EnginePrices /\ Engine!Best("Sell") <= a /\ a \in EnginePrices
          BY <4>2, EngineBestLevel DEF Engine!Sides, Engine!Levels
        <5>2. Engine!Best("Sell") \in Int /\ a \in Int /\ p \in Int
          BY <5>1, <2>0 DEF Engine!Sized
        <5>. QED BY <5>1, <5>2, <4>1, <4>2
      <4>3. Engine!Levels("Sell")' = Engine!Levels("Sell") /\ Engine!Levels("Buy")' \subseteq Engine!Levels("Buy") \cup {p}
        BY <3>1, <3>2 DEF Engine!Sides
      <4>. QED BY <4>2, <4>3, <1>0 DEF Engine!Uncrossed
    <3>3. CASE s = "Sell"
      <4>1. Engine!Levels("Buy") = {} \/ ~(Engine!Best("Buy") >= p)
        BY <3>3, <2>1, <2>p DEF Engine!Crosses, Engine!Opposite
      <4>2. ASSUME NEW b \in Engine!Levels("Buy") PROVE b < p
        <5>1. Engine!Best("Buy") \in EnginePrices /\ b <= Engine!Best("Buy") /\ b \in EnginePrices
          BY <4>2, EngineBestLevel DEF Engine!Sides, Engine!Levels
        <5>2. Engine!Best("Buy") \in Int /\ b \in Int /\ p \in Int
          BY <5>1, <2>0 DEF Engine!Sized
        <5>. QED BY <5>1, <5>2, <4>1, <4>2
      <4>3. Engine!Levels("Buy")' = Engine!Levels("Buy") /\ Engine!Levels("Sell")' \subseteq Engine!Levels("Sell") \cup {p}
        BY <3>1, <3>3 DEF Engine!Sides
      <4>. QED BY <4>2, <4>3, <1>0 DEF Engine!Uncrossed
    <3>. QED BY <3>2, <3>3, <2>0 DEF Engine!Sides
  <2>16. Engine!Accounts'
    <3>1. \A e : EngineIn(eBook, e) => e.id # i
      BY <2>0, <1>0 DEF EngineIn, Engine!Queues, Engine!Placed
    <3>2. Engine!QtyIn(eBook, i) = 0
      BY <3>1, <1>0, EngineQtyNone
    <3>3. Engine!QtyIn(eBook', i) = eOrder.qty
      <4>1. EngineOneEach(eBook')
        BY <2>8, <2>4, <3>1, EngineBookOne DEF EngineOneEach
      <4>2. EngineIn(eBook', h)
        BY <2>8
      <4>. QED BY <4>1, <4>2, <2>4, <2>7, EngineQtyOne
    <3>4. ASSUME NEW x, x # i PROVE Engine!QtyIn(eBook', x) = Engine!QtyIn(eBook, x)
      <4>1. \A e : e.id = x => (EngineIn(eBook, e) <=> EngineIn(eBook', e))
        BY <2>4, <2>8, <3>4
      <4>. QED BY <4>1, <1>0, <2>7, EngineQtySame
    <3>5. Engine!Working(eOrder, i) = eOrder.qty /\ \A x : x # i => Engine!Working(eOrder, x) = 0
      BY <2>p DEF Engine!Working
    <3>6. ASSUME NEW x \in EngineIds, Engine!Arrived(x)
          PROVE  ePlaced[x] = eFilled[x] + eTaken[x] + Engine!QtyIn(eBook', x) + Engine!Working(eOrder', x)
      <4>1. ePlaced[x] = eFilled[x] + eTaken[x] + Engine!QtyIn(eBook, x) + Engine!Working(eOrder, x)
        BY <3>6, <1>0 DEF Engine!Accounts
      <4>2. Engine!QtyIn(eBook, x) + Engine!Working(eOrder, x) = Engine!QtyIn(eBook', x) + Engine!Working(eOrder', x)
        BY <3>2, <3>3, <3>4, <3>5, <1>2, <2>0
      <4>3. eFilled[x] \in Nat /\ eTaken[x] \in Nat /\ Engine!QtyIn(eBook, x) \in Nat /\ Engine!QtyIn(eBook', x) \in Nat /\ Engine!Working(eOrder, x) \in Nat
        BY <1>0, <2>7, EngineQtyType, <3>5, <2>0 DEF Engine!WellTyped
      <4>. QED BY <4>1, <4>2, <4>3, <1>2
    <3>. QED BY <3>6, <1>1 DEF Engine!Accounts
  <2>. QED BY <2>10, <2>11, <2>14, <2>15, <2>16 DEF Engine!IInv
<1>. QED BY <1>3, <1>4

(* A book in which one queue gave place to a shorter or smaller one.       *)
LEMMA EngineSmallerBook ==
  ASSUME NEW b \in Engine!Books, NEW c, NEW x, NEW came, NEW s \in Engine!Sides, NEW p \in EnginePrices, NEW m,
         EngineDiffers(b, c, s, p, m), Engine!Placed(m, x, s, p), Engine!InOrder(m, came), b[s][p] # <<>>,
         \A t \in Engine!Sides, r \in EnginePrices : Engine!Placed(b[t][r], x, t, r) /\ Engine!InOrder(b[t][r], came)
  PROVE  /\ \A t \in Engine!Sides, r \in EnginePrices : Engine!Placed(c[t][r], x, t, r) /\ Engine!InOrder(c[t][r], came)
         /\ \A t \in Engine!Sides, r \in EnginePrices : c[t][r] # <<>> => b[t][r] # <<>>
<1>1. ASSUME NEW t \in Engine!Sides, NEW r \in EnginePrices
      PROVE  Engine!Placed(c[t][r], x, t, r) /\ Engine!InOrder(c[t][r], came) /\ (c[t][r] # <<>> => b[t][r] # <<>>)
  <2>1. CASE t = s /\ r = p
    <3>1. c[t][r] = m
      BY <2>1 DEF EngineDiffers
    <3>. QED BY <2>1, <3>1
  <2>2. CASE ~(t = s /\ r = p)
    <3>1. c[t][r] = b[t][r]
      BY <2>2 DEF EngineDiffers
    <3>. QED BY <3>1
  <2>. QED BY <2>1, <2>2
<1>. QED BY <1>1

\* The queue l of b, whose head is h, gives place to m, and b becomes c.
EngineFillOf(b, c, s, p, l, h, f, m) ==
  l = b[s][p] /\ l # <<>> /\ h = Head(l) /\ m = Engine!AfterFill(l, f) /\ c = [b EXCEPT ![s][p] = m]

(* What a fill makes of a queue and of the quantities of its orders.       *)
LEMMA EngineFilled ==
  ASSUME NEW b \in Engine!Books, EngineOnePlace(b), NEW s \in Engine!Sides, NEW p \in EnginePrices, NEW l \in Seq(Engine!Entry),
         NEW h \in Engine!Entry, NEW f \in Nat, f <= h.qty, NEW m, NEW c, EngineFillOf(b, c, s, p, l, h, f, m),
         NEW x, NEW came, Engine!Placed(l, x, s, p), Engine!InOrder(l, came)
  PROVE  /\ EngineDiffers(b, c, s, p, m) /\ Engine!Placed(m, x, s, p) /\ Engine!InOrder(m, came)
         /\ Engine!QtyIn(c, h.id) = h.qty - f
         /\ \A i : i # h.id => Engine!QtyIn(c, i) = Engine!QtyIn(b, i)
<1>0. l = b[s][p] /\ l # <<>> /\ h = Head(l) /\ m = Engine!AfterFill(l, f) /\ c = [b EXCEPT ![s][p] = m]
  BY DEF EngineFillOf
<1>1. Tail(l) \in Seq(Engine!Entry) /\ Drops(Tail(l), l, 1) /\ h = l[1] /\ 1 \in 1 .. Len(l)
  BY <1>0, TailDrops
<1>2. h.qty \in Nat \ {0} /\ h.id \in EngineIds /\ h = [id |-> h.id, qty |-> h.qty]
  BY DEF Engine!Entry
<1>3. EngineIn(b, h)
  BY <1>0, <1>1 DEF EngineIn
<1>4. EngineOneEach(b)
  BY EnginePlaceEach
<1>9. l = b[s][p]
  BY <1>0
<1>5. CASE h.qty = f
  <2>0. m = Tail(l)
    BY <1>0, <1>5 DEF Engine!AfterFill
  <2>1. m \in Seq(Engine!Entry) /\ 1 \in 1 .. Len(l)
    BY <1>1, <2>0
  <2>2. EngineDiffers(b, c, s, p, m)
    <3>1. EngineDiffers(b, [b EXCEPT ![s][p] = m], s, p, m)
      <4>1. m \in Seq(Engine!Entry)
        BY <2>1
      <4>. QED BY ONLY <4>1, b \in Engine!Books, s \in Engine!Sides, p \in EnginePrices, EngineQueueSet
    <3>. QED BY <3>1, <1>0
  <2>3. Drops(m, l, 1)
    BY <1>1, <2>0
  <2>4. Engine!Placed(m, x, s, p) /\ Engine!InOrder(m, came)
    BY ONLY <2>1, <2>3, l \in Seq(Engine!Entry), Engine!Placed(l, x, s, p), Engine!InOrder(l, came), EngineQueueDropped
  <2>5. ASSUME NEW e PROVE EngineIn(c, e) <=> EngineIn(b, e) /\ e.id # l[1].id
    BY ONLY <2>1, <2>2, <2>3, b \in Engine!Books, EngineOnePlace(b), s \in Engine!Sides, p \in EnginePrices, l \in Seq(Engine!Entry), <1>9, EngineInDropped
  <2>6. c \in Engine!Books
    BY <2>2 DEF EngineDiffers
  <2>7. Engine!QtyIn(c, h.id) = 0
    <3>1. \A e : EngineIn(c, e) => e.id # h.id
      BY <1>1, <2>5
    <3>. QED BY ONLY <3>1, <2>6, EngineQtyNone
  <2>8. ASSUME NEW i, i # h.id PROVE Engine!QtyIn(c, i) = Engine!QtyIn(b, i)
    <3>1. \A e : e.id = i => (EngineIn(b, e) <=> EngineIn(c, e))
      BY <1>1, <2>5, <2>8
    <3>. QED BY <3>1, <2>6, EngineQtySame
  <2>9. Engine!QtyIn(c, h.id) = h.qty - f
    BY <1>2, <1>5, <2>7
  <2>. QED BY ONLY <2>2, <2>4, <2>8, <2>9
<1>6. CASE h.qty # f
  <2>1. PICK g \in Engine!Entry : g = [h EXCEPT !.qty = @ - f]
    <3>1. [h EXCEPT !.qty = @ - f] = [id |-> h.id, qty |-> h.qty - f]
      BY <1>2
    <3>2. h.qty - f \in Nat \ {0}
      BY <1>2, <1>6
    <3>. QED BY <3>1, <3>2, <1>2 DEF Engine!Entry
  <2>2. g.id = h.id /\ g.qty = h.qty - f
    BY <1>2, <2>1
  <2>3. m = <<g>> \o Tail(l)
    BY <1>0, <1>6, <2>1 DEF Engine!AfterFill
  <2>4. PICK t \in Seq(Engine!Entry) : t = Tail(l)
    BY <1>1
  <2>5. Len(t) \in Nat /\ Len(t) = Len(l) - 1 /\ \A k \in 1 .. Len(t) : t[k] = l[k + 1]
    BY <2>4, <1>1
  <2>6. <<g>> \in Seq(Engine!Entry) /\ Len(<<g>>) = 1 /\ <<g>>[1] = g
    OBVIOUS
  <2>7. m \in Seq(Engine!Entry) /\ Len(m) = 1 + Len(t)
    BY <2>3, <2>4, <2>6
  <2>8. m[1] = g /\ \A k \in 1 .. Len(l) : k # 1 => m[k] = l[k]
    BY <2>3, <2>4, <2>5, <2>6
  <2>9. EngineRefits(m, l, g)
    <3>1. Len(m) = Len(l) /\ Len(l) > 0
      BY <2>5, <2>7, <1>1
    <3>2. g.id = l[1].id
      BY <2>2, <1>1
    <3>. QED BY ONLY <3>1, <3>2, <2>8 DEF EngineRefits
  <2>10. EngineDiffers(b, c, s, p, m)
    <3>1. EngineDiffers(b, [b EXCEPT ![s][p] = m], s, p, m)
      BY ONLY <2>7, b \in Engine!Books, s \in Engine!Sides, p \in EnginePrices, EngineQueueSet
    <3>. QED BY <3>1, <1>0
  <2>11. Engine!Placed(m, x, s, p) /\ Engine!InOrder(m, came)
    BY ONLY <2>7, <2>9, l \in Seq(Engine!Entry), Engine!Placed(l, x, s, p), Engine!InOrder(l, came), EngineQueueRefitted
  <2>12. ASSUME NEW e PROVE EngineIn(c, e) <=> (EngineIn(b, e) /\ e.id # g.id) \/ e = g
    BY ONLY <2>7, <2>9, <2>10, g \in Engine!Entry, b \in Engine!Books, EngineOnePlace(b), s \in Engine!Sides, p \in EnginePrices, l \in Seq(Engine!Entry), <1>9, EngineInRefitted
  <2>13. c \in Engine!Books
    BY <2>10 DEF EngineDiffers
  <2>14. Engine!QtyIn(c, g.id) = g.qty
    <3>1. EngineOneEach(c)
      BY <2>12, <1>4 DEF EngineOneEach
    <3>2. EngineIn(c, g)
      BY <2>12
    <3>. QED BY <3>1, <3>2, <2>13, EngineQtyOne
  <2>15. ASSUME NEW i, i # h.id PROVE Engine!QtyIn(c, i) = Engine!QtyIn(b, i)
    <3>1. \A e : e.id = i => (EngineIn(b, e) <=> EngineIn(c, e))
      BY <2>2, <2>12, <2>15
    <3>. QED BY <3>1, <2>13, EngineQtySame
  <2>. QED BY <2>2, <2>10, <2>11, <2>14, <2>15
<1>. QED BY <1>5, <1>6

(* One round of the match loop: the head of the best level trades with the *)
(* order.                                                                  *)
LEMMA EngineFillKeeps == ASSUME Engine!Sized, Engine!IInv, Engine!Fill PROVE Engine!IInv'
<1>0. /\ Engine!WellTyped /\ Engine!Known /\ Engine!Queues /\ Engine!Uncrossed /\ Engine!Accounts /\ eBook \in Engine!Books /\ EngineOnePlace(eBook)
      /\ eFilled \in [EngineIds -> Nat]
  BY EngineBookOne DEF Engine!IInv, Engine!WellTyped
<1>1. PICK s, p, i, l, h, f : /\ s = Engine!Opposite(eOrder.side) /\ p = Engine!Best(s) /\ i = eOrder.id /\ l = eBook[s][p] /\ h = Head(l)
                              /\ f = Engine!Min({eOrder.qty, h.qty})
  OBVIOUS
<1>2. /\ eOrder.qty > 0 /\ Engine!Crosses(eOrder)
      /\ eBook' = [eBook EXCEPT ![s][p] = Engine!AfterFill(l, f)]
      /\ eOrder' = [eOrder EXCEPT !.qty = @ - f]
      /\ eFilled' = [eFilled EXCEPT ![i] = @ + f, ![h.id] = @ + f]
      /\ eIndex' = eIndex /\ eArrived' = eArrived /\ ePlaced' = ePlaced /\ eTaken' = eTaken
  BY <1>1 DEF Engine!Fill
<1>3. s \in Engine!Sides /\ Engine!Levels(s) # {}
  BY <1>1, <1>2 DEF Engine!Opposite, Engine!Sides, Engine!Crosses
<1>4. p \in EnginePrices /\ l # <<>>
  BY <1>1, <1>3, EngineBestLevel
<1>5. l \in Seq(Engine!Entry)
  BY <1>0, <1>1, <1>3, <1>4 DEF Engine!Books
<1>6. h = l[1] /\ 1 \in 1 .. Len(l) /\ h \in Engine!Entry
  BY <1>1, <1>4, <1>5
<1>7. h.qty \in Nat \ {0} /\ h.id \in EngineIds /\ eOrder.qty \in Nat \ {0}
  BY <1>0, <1>2, <1>6 DEF Engine!Entry, Engine!WellTyped
<1>8. f \in Nat /\ f <= h.qty /\ f <= eOrder.qty
  <2>1. f = IF eOrder.qty <= h.qty THEN eOrder.qty ELSE h.qty
    BY <1>1, <1>7, EngineMinOfTwo
  <2>. QED BY <2>1, <1>7
<1>9. Engine!Placed(l, eIndex, s, p) /\ Engine!InOrder(l, eArrived)
  BY <1>0, <1>1, <1>3, <1>4 DEF Engine!Queues
<1>10. /\ h.id \in DOMAIN eIndex /\ i \notin DOMAIN eIndex /\ h.id # i /\ i \in EngineIds
       /\ Engine!Arrived(h.id) /\ Engine!Arrived(i)
  <2>1. h.id \in DOMAIN eIndex
    BY <1>6, <1>9 DEF Engine!Placed
  <2>2. i \notin DOMAIN eIndex /\ i \in EngineIds /\ Len(eArrived) > 0 /\ eArrived[Len(eArrived)] = i
    BY <1>0, <1>1, <1>2 DEF Engine!Known
  <2>3. Len(eArrived) \in 1 .. Len(eArrived)
    BY <2>2, <1>0 DEF Engine!WellTyped
  <2>4. Engine!Arrived(i)
    BY <2>2, <2>3 DEF Engine!Arrived
  <2>5. Engine!Arrived(h.id)
    BY <2>1, <1>0 DEF Engine!Known
  <2>. QED BY <2>1, <2>2, <2>4, <2>5
<1>11. PICK m : m = Engine!AfterFill(l, f)
  OBVIOUS
<1>12. eBook' = [eBook EXCEPT ![s][p] = m]
  BY <1>2, <1>11
<1>13. /\ EngineDiffers(eBook, eBook', s, p, m) /\ Engine!Placed(m, eIndex, s, p) /\ Engine!InOrder(m, eArrived)
       /\ Engine!QtyIn(eBook', h.id) = h.qty - f
       /\ \A x : x # h.id => Engine!QtyIn(eBook', x) = Engine!QtyIn(eBook, x)
  <2>1. PICK b, c : b = eBook /\ c = eBook'
    OBVIOUS
  <2>2. EngineFillOf(b, c, s, p, l, h, f, m) /\ b \in Engine!Books /\ EngineOnePlace(b) /\ h \in Engine!Entry
    BY <1>0, <1>1, <1>4, <1>6, <1>11, <1>12, <2>1 DEF EngineFillOf
  <2>3. /\ EngineDiffers(b, c, s, p, m) /\ Engine!Placed(m, eIndex, s, p) /\ Engine!InOrder(m, eArrived)
        /\ Engine!QtyIn(c, h.id) = h.qty - f
        /\ \A x : x # h.id => Engine!QtyIn(c, x) = Engine!QtyIn(b, x)
    BY ONLY <2>2, <1>3, <1>4, <1>5, <1>8, <1>9, EngineFilled
  <2>. QED BY <2>1, <2>3
<1>14. eBook' \in Engine!Books
  BY <1>13 DEF EngineDiffers
<1>15. eOrder' = [id |-> eOrder.id, side |-> eOrder.side, price |-> eOrder.price, qty |-> eOrder.qty - f]
  BY <1>0, <1>2 DEF Engine!WellTyped
<1>16. eOrder'.id = eOrder.id /\ eOrder'.side = eOrder.side /\ eOrder'.price = eOrder.price /\ eOrder'.qty = eOrder.qty - f
  BY <1>15
<1>17. eFilled' \in [EngineIds -> Nat] /\ \A x \in EngineIds : eFilled'[x] = IF x = i \/ x = h.id THEN eFilled[x] + f ELSE eFilled[x]
  BY <1>0, <1>2, <1>7, <1>8, <1>10
<1>18. Engine!WellTyped'
  <2>1. eOrder'.side \in Engine!Sides /\ eOrder'.qty \in Nat
    BY <1>0, <1>7, <1>8, <1>16 DEF Engine!WellTyped
  <2>2. eOrder' = [id |-> eOrder'.id, side |-> eOrder'.side, price |-> eOrder'.price, qty |-> eOrder'.qty]
    BY <1>15, <1>16
  <2>. QED BY <2>1, <2>2, <1>0, <1>2, <1>14, <1>17 DEF Engine!WellTyped
<1>19. \A x : Engine!Arrived(x)' <=> Engine!Arrived(x)
  BY <1>2 DEF Engine!Arrived
<1>20. Engine!Known'
  <2>1. \A x \in EngineIds : ~Engine!Arrived(x) => eFilled'[x] = 0 /\ eTaken[x] = 0
    BY <1>0, <1>10, <1>17 DEF Engine!Known
  <2>2. eOrder'.qty > 0 => /\ eOrder'.id \in EngineIds /\ eOrder'.price \in EnginePrices /\ eOrder'.id \notin DOMAIN eIndex
                           /\ eTaken[eOrder'.id] = 0
                           /\ Len(eArrived) > 0 /\ eArrived[Len(eArrived)] = eOrder'.id
    BY <1>0, <1>2, <1>16 DEF Engine!Known
  <2>. QED BY <2>1, <2>2, <1>0, <1>2, <1>19 DEF Engine!Known
<1>21. /\ \A t \in Engine!Sides, r \in EnginePrices : Engine!Placed(eBook'[t][r], eIndex, t, r) /\ Engine!InOrder(eBook'[t][r], eArrived)
       /\ \A t \in Engine!Sides, r \in EnginePrices : eBook'[t][r] # <<>> => eBook[t][r] # <<>>
  <2>1. \A t \in Engine!Sides, r \in EnginePrices : Engine!Placed(eBook[t][r], eIndex, t, r) /\ Engine!InOrder(eBook[t][r], eArrived)
    BY <1>0 DEF Engine!Queues
  <2>2. eBook[s][p] # <<>>
    BY <1>1, <1>4
  <2>. QED BY ONLY <2>1, <2>2, <1>0, <1>3, <1>4, <1>13, EngineSmallerBook
<1>22. Engine!Queues'
  BY <1>2, <1>21 DEF Engine!Queues
<1>23. Engine!Uncrossed'
  <2>1. \A t \in Engine!Sides : Engine!Levels(t)' \subseteq Engine!Levels(t)
    BY <1>21 DEF Engine!Levels
  <2>. QED BY <2>1, <1>0 DEF Engine!Uncrossed, Engine!Sides
<1>24. Engine!Accounts'
  <2>1. EngineOneEach(eBook) /\ EngineIn(eBook, h)
    BY <1>1, <1>3, <1>4, <1>6, EngineBookOne DEF EngineIn
  <2>2. Engine!QtyIn(eBook, h.id) = h.qty
    BY <2>1, <1>0, EngineQtyOne
  <2>3. ASSUME NEW x \in EngineIds, Engine!Arrived(x)
        PROVE  ePlaced[x] = eFilled'[x] + eTaken[x] + Engine!QtyIn(eBook', x) + Engine!Working(eOrder', x)
    <3>1. ePlaced[x] = eFilled[x] + eTaken[x] + Engine!QtyIn(eBook, x) + Engine!Working(eOrder, x)
      BY <2>3, <1>0 DEF Engine!Accounts
    <3>2. eFilled[x] \in Nat /\ eTaken[x] \in Nat /\ Engine!QtyIn(eBook, x) \in Nat
      BY <1>0, EngineQtyType DEF Engine!WellTyped
    <3>3. CASE x = i
      <4>1. Engine!Working(eOrder, x) = eOrder.qty /\ Engine!Working(eOrder', x) = eOrder.qty - f
        BY <3>3, <1>1, <1>16 DEF Engine!Working
      <4>2. eFilled'[x] = eFilled[x] + f /\ Engine!QtyIn(eBook', x) = Engine!QtyIn(eBook, x)
        BY <3>3, <1>10, <1>13, <1>17
      <4>. QED BY <4>1, <4>2, <3>1, <3>2, <1>7, <1>8
    <3>4. CASE x = h.id
      <4>1. Engine!Working(eOrder, x) = 0 /\ Engine!Working(eOrder', x) = 0
        BY <3>4, <1>1, <1>10, <1>16 DEF Engine!Working
      <4>2. eFilled'[x] = eFilled[x] + f /\ Engine!QtyIn(eBook', x) = h.qty - f /\ Engine!QtyIn(eBook, x) = h.qty
        BY <3>4, <2>2, <1>13, <1>17
      <4>. QED BY <4>1, <4>2, <3>1, <3>2, <1>7, <1>8
    <3>5. CASE x # i /\ x # h.id
      <4>1. Engine!Working(eOrder, x) = 0 /\ Engine!Working(eOrder', x) = 0
        BY <3>5, <1>1, <1>16 DEF Engine!Working
      <4>2. eFilled'[x] = eFilled[x] /\ Engine!QtyIn(eBook', x) = Engine!QtyIn(eBook, x)
        BY <3>5, <1>13, <1>17
      <4>. QED BY <4>1, <4>2, <3>1
    <3>. QED BY <3>3, <3>4, <3>5
  <2>. QED BY <2>3, <1>2, <1>19 DEF Engine!Accounts
<1>. QED BY <1>18, <1>20, <1>22, <1>23, <1>24 DEF Engine!IInv

(* cancel_order() erases the entry that the index leads to.                *)
LEMMA EngineCancelKeeps == ASSUME Engine!Sized, Engine!IInv, NEW i \in EngineIds, Engine!CancelOrder(i) PROVE Engine!IInv'
<1>0. /\ Engine!WellTyped /\ Engine!Known /\ Engine!Queues /\ Engine!Uncrossed /\ Engine!Accounts /\ eBook \in Engine!Books /\ EngineOnePlace(eBook)
      /\ eTaken \in [EngineIds -> Nat]
  BY EngineBookOne DEF Engine!IInv, Engine!WellTyped
<1>1. /\ i \in DOMAIN eIndex /\ eIndex' = Engine!Restrict(eIndex, DOMAIN eIndex \ {i})
      /\ eOrder' = eOrder /\ eArrived' = eArrived /\ ePlaced' = ePlaced /\ eFilled' = eFilled
      /\ eOrder.qty = 0
  BY DEF Engine!CancelOrder, Engine!Idle, Engine!NoOrder
<1>2. /\ DOMAIN eIndex' = DOMAIN eIndex \ {i} /\ eIndex' \in [DOMAIN eIndex' -> Engine!Loc]
      /\ \A x \in DOMAIN eIndex \ {i} : eIndex'[x] = eIndex[x]
  BY <1>0, <1>1 DEF Engine!Restrict, Engine!WellTyped
<1>3. PICK s \in Engine!Sides, p \in EnginePrices : s = eIndex[i].side /\ p = eIndex[i].price
  <2>1. eIndex[i] \in Engine!Loc
    BY <1>0, <1>1 DEF Engine!WellTyped
  <2>. QED BY <2>1 DEF Engine!Loc
<1>4. PICK l \in Seq(Engine!Entry) : l = eBook[s][p]
  BY <1>0 DEF Engine!Books
<1>5. PICK mine : mine = {k \in DOMAIN l : l[k].id = i}
  OBVIOUS
<1>6. IF mine = {} THEN eBook' = eBook /\ eTaken' = eTaken
      ELSE /\ eBook' = [eBook EXCEPT ![s][p] = Engine!RemoveAt(l, Engine!Min(mine))]
           /\ eTaken' = [eTaken EXCEPT ![i] = l[Engine!Min(mine)].qty]
  BY <1>3, <1>4, <1>5 DEF Engine!CancelOrder
<1>7. DOMAIN l = 1 .. Len(l)
  OBVIOUS
<1>8. \A x : Engine!Arrived(x)' <=> Engine!Arrived(x)
  BY <1>1 DEF Engine!Arrived
<1>9. \A x : Engine!Working(eOrder, x) = 0 /\ Engine!Working(eOrder', x) = 0
  BY <1>1 DEF Engine!Working
<1>10. eTaken[i] = 0 /\ Engine!Arrived(i)
  BY <1>0, <1>1 DEF Engine!Known
<1>11. ASSUME NEW t \in Engine!Sides, NEW r \in EnginePrices, NEW j \in 1 .. Len(eBook[t][r]), eBook[t][r][j].id = i
       PROVE  t = s /\ r = p /\ j \in mine
  <2>1. Engine!Placed(eBook[t][r], eIndex, t, r)
    BY <1>0 DEF Engine!Queues
  <2>2. t = s /\ r = p
    BY <2>1, <1>3, <1>11 DEF Engine!Placed
  <2>. QED BY <2>2, <1>4, <1>5, <1>7, <1>11
<1>12. CASE mine = {}
  <2>1. eBook' = eBook /\ eTaken' = eTaken
    BY <1>6, <1>12
  <2>2. Engine!WellTyped'
    BY <1>0, <1>1, <1>2, <2>1 DEF Engine!WellTyped
  <2>3. Engine!Known'
    BY <1>0, <1>1, <1>2, <1>8, <2>1 DEF Engine!Known
  <2>4. Engine!Queues'
    <3>1. ASSUME NEW t \in Engine!Sides, NEW r \in EnginePrices
          PROVE  Engine!Placed(eBook[t][r], eIndex', t, r) /\ Engine!InOrder(eBook[t][r], eArrived)
      <4>1. Engine!Placed(eBook[t][r], eIndex, t, r) /\ Engine!InOrder(eBook[t][r], eArrived)
        BY <1>0 DEF Engine!Queues
      <4>2. \A j \in 1 .. Len(eBook[t][r]) : eBook[t][r][j].id # i
        BY <1>11, <1>12
      <4>. QED BY <4>1, <4>2, <1>2 DEF Engine!Placed
    <3>. QED BY <3>1, <2>1, <1>1 DEF Engine!Queues
  <2>5. Engine!Uncrossed'
    BY <1>0, <2>1 DEF Engine!Uncrossed, Engine!Levels
  <2>6. Engine!Accounts'
    BY <1>0, <1>1, <1>8, <2>1 DEF Engine!Accounts
  <2>. QED BY <2>2, <2>3, <2>4, <2>5, <2>6 DEF Engine!IInv
<1>13. CASE mine # {}
  <2>1. PICK n \in 1 .. Len(l) : n = Engine!Min(mine) /\ n \in mine
    <3>1. mine \subseteq Nat /\ mine \subseteq 1 .. Len(l)
      BY <1>5, <1>7
    <3>2. Engine!Min(mine) \in mine
      BY <3>1, <1>13, EngineFirstIn
    <3>. QED BY <3>1, <3>2
  <2>2. l[n].id = i
    BY <2>1, <1>5
  <2>3. PICK h \in Engine!Entry : h = l[n]
    OBVIOUS
  <2>4. h.id = i /\ h.qty \in Nat
    BY <2>2, <2>3 DEF Engine!Entry
  <2>5. PICK m : m = Engine!RemoveAt(l, n)
    OBVIOUS
  <2>6. m \in Seq(Engine!Entry) /\ Drops(m, l, n)
    BY <2>5, EngineRemovedDrops
  <2>7. eBook' = [eBook EXCEPT ![s][p] = m] /\ eTaken' = [eTaken EXCEPT ![i] = h.qty]
    BY <1>6, <1>13, <2>1, <2>3, <2>5
  <2>8. EngineDiffers(eBook, eBook', s, p, m)
    <3>1. m \in Seq(Engine!Entry)
      BY <2>6
    <3>2. EngineDiffers(eBook, [eBook EXCEPT ![s][p] = m], s, p, m)
      BY ONLY <3>1, <1>0, s \in Engine!Sides, p \in EnginePrices, EngineQueueSet
    <3>. QED BY ONLY <3>2, <2>7
  <2>9. eBook' \in Engine!Books
    BY <2>8 DEF EngineDiffers
  <2>10. ASSUME NEW e PROVE EngineIn(eBook', e) <=> EngineIn(eBook, e) /\ e.id # i
    <3>1. PICK b, c : b = eBook /\ c = eBook'
      OBVIOUS
    <3>2. b \in Engine!Books /\ EngineOnePlace(b) /\ l = b[s][p] /\ EngineDiffers(b, c, s, p, m)
      BY <3>1, <1>0, <1>4, <2>8
    <3>3. EngineIn(c, e) <=> EngineIn(b, e) /\ e.id # l[n].id
      BY ONLY <3>2, <2>6, s \in Engine!Sides, p \in EnginePrices, l \in Seq(Engine!Entry), n \in 1 .. Len(l), EngineInDropped
    <3>. QED BY <3>1, <3>3, <2>2
  <2>11. Engine!WellTyped'
    BY <1>0, <1>1, <1>2, <2>4, <2>7, <2>9 DEF Engine!WellTyped
  <2>12. eTaken'[i] = h.qty /\ \A x \in EngineIds : x # i => eTaken'[x] = eTaken[x]
    BY <1>0, <2>7
  <2>13. Engine!Known'
    <3>1. \A x \in EngineIds : ~Engine!Arrived(x)' => eFilled'[x] = 0 /\ eTaken'[x] = 0
      BY <1>0, <1>1, <1>8, <1>10, <2>12 DEF Engine!Known
    <3>2. \A x \in DOMAIN eIndex' : Engine!Arrived(x)' /\ x \in EngineIds /\ eTaken'[x] = 0
      BY <1>0, <1>2, <1>8, <2>12 DEF Engine!Known
    <3>3. \A a, b \in 1 .. Len(eArrived') : eArrived'[a] = eArrived'[b] => a = b
      BY <1>0, <1>1 DEF Engine!Known
    <3>4. ~(eOrder'.qty > 0)
      BY <1>1
    <3>. QED BY <3>1, <3>2, <3>3, <3>4 DEF Engine!Known
  <2>14. Engine!Placed(l, eIndex, s, p) /\ Engine!InOrder(l, eArrived)
    BY <1>0, <1>4 DEF Engine!Queues
  <2>15. Engine!Placed(m, eIndex, s, p) /\ Engine!InOrder(m, eArrived)
    BY ONLY <2>6, <2>14, l \in Seq(Engine!Entry), n \in 1 .. Len(l), EngineQueueDropped
  <2>16. /\ \A t \in Engine!Sides, r \in EnginePrices : Engine!Placed(eBook'[t][r], eIndex, t, r) /\ Engine!InOrder(eBook'[t][r], eArrived)
         /\ \A t \in Engine!Sides, r \in EnginePrices : eBook'[t][r] # <<>> => eBook[t][r] # <<>>
    <3>1. \A t \in Engine!Sides, r \in EnginePrices : Engine!Placed(eBook[t][r], eIndex, t, r) /\ Engine!InOrder(eBook[t][r], eArrived)
      BY <1>0 DEF Engine!Queues
    <3>2. eBook[s][p] # <<>>
      BY <1>4, <2>1
    <3>. QED BY ONLY <3>1, <3>2, <1>0, s \in Engine!Sides, p \in EnginePrices, <2>8, <2>15, EngineSmallerBook
  <2>17. Engine!Queues'
    <3>1. ASSUME NEW t \in Engine!Sides, NEW r \in EnginePrices
          PROVE  Engine!Placed(eBook'[t][r], eIndex', t, r) /\ Engine!InOrder(eBook'[t][r], eArrived)
      <4>1. Engine!Placed(eBook'[t][r], eIndex, t, r) /\ Engine!InOrder(eBook'[t][r], eArrived)
        BY <2>16
      <4>2. ASSUME NEW j \in 1 .. Len(eBook'[t][r]) PROVE eBook'[t][r][j].id # i
        <5>1. EngineIn(eBook', eBook'[t][r][j])
          BY DEF EngineIn
        <5>. QED BY <5>1, <2>10
      <4>. QED BY <4>1, <4>2, <1>2 DEF Engine!Placed
    <3>. QED BY <3>1, <1>1 DEF Engine!Queues
  <2>18. Engine!Uncrossed'
    <3>1. \A t \in Engine!Sides : Engine!Levels(t)' \subseteq Engine!Levels(t)
      BY <2>16 DEF Engine!Levels
    <3>. QED BY <3>1, <1>0 DEF Engine!Uncrossed, Engine!Sides
  <2>19. Engine!Accounts'
    <3>1. EngineOneEach(eBook) /\ EngineIn(eBook, h)
      BY <1>4, <2>3, EngineBookOne DEF EngineIn
    <3>2. Engine!QtyIn(eBook, i) = h.qty
      BY <3>1, <1>0, <2>4, EngineQtyOne
    <3>3. Engine!QtyIn(eBook', i) = 0
      BY <2>9, <2>10, EngineQtyNone
    <3>4. ASSUME NEW x, x # i PROVE Engine!QtyIn(eBook', x) = Engine!QtyIn(eBook, x)
      <4>1. \A e : e.id = x => (EngineIn(eBook, e) <=> EngineIn(eBook', e))
        BY <2>10, <3>4
      <4>. QED BY <4>1, <1>0, <2>9, EngineQtySame
    <3>5. ASSUME NEW x \in EngineIds, Engine!Arrived(x)
          PROVE  ePlaced[x] = eFilled[x] + eTaken'[x] + Engine!QtyIn(eBook', x) + Engine!Working(eOrder', x)
      <4>1. ePlaced[x] = eFilled[x] + eTaken[x] + Engine!QtyIn(eBook, x) + Engine!Working(eOrder, x)
        BY <3>5, <1>0 DEF Engine!Accounts
      <4>2. eFilled[x] \in Nat
        BY <1>0 DEF Engine!WellTyped
      <4>3. CASE x = i
        BY <4>1, <4>2, <4>3, <3>2, <3>3, <1>9, <1>10, <2>4, <2>12
      <4>4. CASE x # i
        BY <4>1, <4>4, <3>4, <1>9, <2>12
      <4>. QED BY <4>3, <4>4
    <3>. QED BY <3>5, <1>1, <1>8 DEF Engine!Accounts
  <2>. QED BY <2>11, <2>13, <2>17, <2>18, <2>19 DEF Engine!IInv
<1>. QED BY <1>12, <1>13

(* Every step keeps the invariant.                                         *)
LEMMA EngineInductive == Engine!Sized /\ Engine!IInv /\ [Engine!Next]_Engine!vars => Engine!IInv'
<1>. SUFFICES ASSUME Engine!Sized, Engine!IInv, [Engine!Next]_Engine!vars PROVE Engine!IInv'
  OBVIOUS
<1>1. CASE UNCHANGED Engine!vars
  BY <1>1 DEF Engine!vars, Engine!IInv, Engine!WellTyped, Engine!Known, Engine!Queues, Engine!Uncrossed, Engine!Accounts, Engine!Arrived, Engine!Levels
<1>2. CASE Engine!Next
  BY <1>2, EngineAddKeeps, EngineFillKeeps, EngineRestKeeps, EngineCancelKeeps DEF Engine!Next
<1>. QED BY <1>1, <1>2

-----------------------------------------------------------------------------
(* OhlcvAggregator.                                                        *)

Candles == INSTANCE OhlcvAggregator WITH bucket_ms_ <- BucketMs,
        Times <- TradeTimes, Prices <- TradePrices, Qtys <- TradeQtys,
        current_bucket_ <- ohCurrentBucket, current_ <- ohCurrent,
        completed_ <- ohCompleted, has_trade_ <- ohHasTrade, tape <- ohTape,
        rolled <- ohRolled

(* Candles's finite sets are those that the theorems on finite sets are    *)
(* about.                                                                  *)
LEMMA CandleCardinality ==
  ASSUME NEW S
  PROVE  Candles!Cardinality(S) = Cardinality(S) /\ (Candles!IsFiniteSet(S) <=> IsFiniteSet(S))
BY DEF Candles!Cardinality, Cardinality, Candles!IsFiniteSet, IsFiniteSet

(* The greatest and the least of a finite set of numbers.                  *)
LEMMA CandleExtremes ==
  ASSUME NEW S \in SUBSET Int, Candles!IsFiniteSet(S), S # {}
  PROVE  /\ Candles!Max(S) \in S /\ \A y \in S : y <= Candles!Max(S)
         /\ Candles!Min(S) \in S /\ \A y \in S : Candles!Min(S) <= y
<1>1. Candles!Max(S) = Max(S) /\ Candles!Min(S) = Min(S)
  BY DEF Candles!Max, Max, Candles!Min, Min
<1> QED
  BY <1>1, Extremes, CandleCardinality

\* What the i-th trade adds to the volume of a bucket.
CandleShare(t, b, e, i) == IF i \in Candles!Mine(t, b, e) THEN t[i].qty ELSE 0

\* g runs up to the volume of the first n trades.
CandleRuns(t, b, e, n, g) == g = [i \in 0 .. n |-> IF i = 0 THEN 0 ELSE g[i - 1] + CandleShare(t, b, e, i)]

(* The running volume exists as a function, for a tape of any length: a    *)
(* function that is defined by recursion exists up to any n, if not up to  *)
(* a least n, up to which it can be extended.                              *)
LEMMA CandleRunsExist ==
  ASSUME NEW t, NEW b, NEW e, NEW n \in Nat
  PROVE  \E g : CandleRuns(t, b, e, n, g)
<1>. DEFINE B == {k \in Nat : ~\E g : CandleRuns(t, b, e, k, g)}
<1>. SUFFICES ASSUME B # {} PROVE FALSE
  OBVIOUS
<1>0. B \in SUBSET Nat
  OBVIOUS
<1>1. PICK k \in B : \A j \in B : k <= j
  <2>. HIDE DEF B
  <2>. QED BY <1>0, SmallestNat
<1>2. k \in Nat /\ ~\E g : CandleRuns(t, b, e, k, g)
  OBVIOUS
<1>3. CASE k = 0
  <2>1. PICK g : g = [i \in 0 .. 0 |-> 0]
    OBVIOUS
  <2>2. CandleRuns(t, b, e, 0, g)
    BY <2>1 DEF CandleRuns
  <2>. QED BY <2>2, <1>2, <1>3
<1>4. CASE k # 0
  <2>1. k - 1 \in Nat /\ k - 1 \notin B
    BY <1>1, <1>2, <1>4
  <2>2. PICK g : CandleRuns(t, b, e, k - 1, g)
    BY <2>1
  <2>3. g = [i \in 0 .. k - 1 |-> IF i = 0 THEN 0 ELSE g[i - 1] + CandleShare(t, b, e, i)]
    BY <2>2 DEF CandleRuns
  <2>4. PICK h : h = [i \in 0 .. k |-> IF i = k THEN g[k - 1] + CandleShare(t, b, e, k) ELSE g[i]]
    OBVIOUS
  <2>5. \A i \in 0 .. k - 1 : h[i] = g[i] /\ g[i] = IF i = 0 THEN 0 ELSE g[i - 1] + CandleShare(t, b, e, i)
    BY <2>3, <2>4, <1>2, <1>4
  <2>6. ASSUME NEW i \in 0 .. k PROVE h[i] = IF i = 0 THEN 0 ELSE h[i - 1] + CandleShare(t, b, e, i)
    <3>1. CASE i = k
      <4>1. h[k] = g[k - 1] + CandleShare(t, b, e, k) /\ h[k - 1] = g[k - 1]
        BY <2>4, <2>5, <1>2, <1>4
      <4>. QED BY <4>1, <3>1, <1>4
    <3>2. CASE i = 0
      BY <2>5, <3>2, <1>2, <1>4
    <3>3. CASE i # 0 /\ i # k
      <4>1. i \in 0 .. k - 1 /\ i - 1 \in 0 .. k - 1
        BY <3>3, <1>2
      <4>. QED BY <4>1, <3>3, <2>5
    <3>. QED BY <3>1, <3>2, <3>3
  <2>7. CandleRuns(t, b, e, k, h)
    <3>1. h = [i \in 0 .. k |-> h[i]]
      BY <2>4
    <3>. QED BY <3>1, <2>6 DEF CandleRuns
  <2>. QED BY <2>7, <1>2
<1>. QED BY <1>3, <1>4

(* Volumes is that function.                                               *)
LEMMA CandleVolumesRun ==
  ASSUME NEW t, NEW b, NEW e, Len(t) \in Nat
  PROVE  CandleRuns(t, b, e, Len(t), Candles!Volumes(t, b, e))
<1>1. \E g : CandleRuns(t, b, e, Len(t), g)
  BY CandleRunsExist
<1>2. Candles!Volumes(t, b, e) = CHOOSE g : CandleRuns(t, b, e, Len(t), g)
  BY DEF Candles!Volumes, CandleRuns, CandleShare
<1>. QED BY <1>1, <1>2

\* The first n trades add the same in t and u.
CandleSameShares(t, u, b, e, n) ==
  \A i \in 1 .. n : CandleShare(t, b, e, i) \in Nat /\ CandleShare(u, b, e, i) = CandleShare(t, b, e, i)

(* Running volumes of tapes that agree so far agree so far, and are        *)
(* numbers.                                                                *)
LEMMA CandleRunsAgree ==
  ASSUME NEW t, NEW u, NEW b, NEW e, NEW n \in Nat, NEW m \in Nat, n <= m, NEW g, NEW h,
         CandleRuns(t, b, e, n, g), CandleRuns(u, b, e, m, h),
         CandleSameShares(t, u, b, e, n)
  PROVE  \A i \in 0 .. n : g[i] \in Nat /\ h[i] = g[i]
<1>. DEFINE B == {k \in Nat : k <= n /\ ~(g[k] \in Nat /\ h[k] = g[k])}
<1>. SUFFICES ASSUME B # {} PROVE FALSE
  OBVIOUS
<1>0. B \in SUBSET Nat
  OBVIOUS
<1>1. PICK k \in B : \A j \in B : k <= j
  <2>. HIDE DEF B
  <2>. QED BY <1>0, SmallestNat
<1>2. k \in Nat /\ k <= n /\ ~(g[k] \in Nat /\ h[k] = g[k])
  OBVIOUS
<1>3. /\ \A i \in 0 .. n : g[i] = IF i = 0 THEN 0 ELSE g[i - 1] + CandleShare(t, b, e, i)
      /\ \A i \in 0 .. m : h[i] = IF i = 0 THEN 0 ELSE h[i - 1] + CandleShare(u, b, e, i)
  <2>1. \A i \in 0 .. n : g[i] = IF i = 0 THEN 0 ELSE g[i - 1] + CandleShare(t, b, e, i)
    BY ONLY CandleRuns(t, b, e, n, g) DEF CandleRuns
  <2>2. \A i \in 0 .. m : h[i] = IF i = 0 THEN 0 ELSE h[i - 1] + CandleShare(u, b, e, i)
    BY ONLY CandleRuns(u, b, e, m, h) DEF CandleRuns
  <2>. QED BY <2>1, <2>2
<1>4. k # 0
  BY <1>2, <1>3
<1>5. k - 1 \in Nat /\ k - 1 <= n /\ k - 1 \notin B
  BY <1>1, <1>2, <1>4
<1>6. g[k - 1] \in Nat /\ h[k - 1] = g[k - 1]
  BY <1>5
<1>7. g[k] = g[k - 1] + CandleShare(t, b, e, k) /\ h[k] = h[k - 1] + CandleShare(u, b, e, k) /\ k \in 1 .. n
  BY <1>2, <1>3, <1>4
<1>. QED BY <1>2, <1>6, <1>7 DEF CandleSameShares

\* Trade x, the one after t, in u.
CandleComes(u, t, x) ==
  /\ Len(u) = Len(t) + 1 /\ u[Len(u)] = x
  /\ \A i \in 1 .. Len(t) : u[i] = t[i]

\* Trade x is of that bucket.
CandleBelongs(x, b, e) == x.bucket = b /\ x.epoch = e

(* The trades of a bucket after one more trade.                            *)
LEMMA CandleMineComes ==
  ASSUME NEW t \in Seq(Candles!Trade), NEW u \in Seq(Candles!Trade), NEW x \in Candles!Trade, CandleComes(u, t, x), NEW b, NEW e
  PROVE  Candles!Mine(u, b, e) = Candles!Mine(t, b, e) \cup (IF CandleBelongs(x, b, e) THEN {Len(t) + 1} ELSE {})
<1>1. Len(t) \in Nat /\ Len(u) = Len(t) + 1 /\ u[Len(t) + 1] = x /\ \A i \in 1 .. Len(t) : u[i] = t[i]
  BY DEF CandleComes
<1>2. ASSUME NEW i PROVE i \in 1 .. Len(u) <=> i \in 1 .. Len(t) \/ i = Len(t) + 1
  BY <1>1
<1>. QED BY <1>1, <1>2 DEF Candles!Mine, CandleBelongs

(* The volume of a bucket after one more trade.                            *)
LEMMA CandleVolumeComes ==
  ASSUME NEW t \in Seq(Candles!Trade), NEW u \in Seq(Candles!Trade), NEW x \in Candles!Trade, CandleComes(u, t, x), NEW b, NEW e
  PROVE  /\ Candles!Volumes(t, b, e)[Len(t)] \in Nat
         /\ Candles!Volumes(u, b, e)[Len(u)] = Candles!Volumes(t, b, e)[Len(t)] + (IF CandleBelongs(x, b, e) THEN x.qty ELSE 0)
<1>1. Len(t) \in Nat /\ Len(u) \in Nat /\ Len(u) = Len(t) + 1 /\ u[Len(t) + 1] = x /\ \A i \in 1 .. Len(t) : u[i] = t[i]
  BY DEF CandleComes
<1>2. PICK g, h : g = Candles!Volumes(t, b, e) /\ h = Candles!Volumes(u, b, e)
  OBVIOUS
<1>3. CandleRuns(t, b, e, Len(t), g) /\ CandleRuns(u, b, e, Len(u), h)
  BY <1>1, <1>2, CandleVolumesRun
<1>4. CandleSameShares(t, u, b, e, Len(t))
  <2>1. \A i \in 1 .. Len(t) : i \in Candles!Mine(u, b, e) <=> i \in Candles!Mine(t, b, e)
    BY <1>1 DEF Candles!Mine
  <2>2. ASSUME NEW i \in 1 .. Len(t) PROVE t[i].qty \in Nat
    <3>1. PICK y \in Candles!Trade : y = t[i]
      OBVIOUS
    <3>. QED BY <3>1 DEF Candles!Trade
  <2>. QED BY <2>1, <2>2, <1>1 DEF CandleShare, CandleSameShares
<1>5. \A i \in 0 .. Len(t) : g[i] \in Nat /\ h[i] = g[i]
  <2>1. PICK n \in Nat, m \in Nat : n = Len(t) /\ m = Len(u)
    BY <1>1
  <2>2. n <= m /\ CandleRuns(t, b, e, n, g) /\ CandleRuns(u, b, e, m, h) /\ CandleSameShares(t, u, b, e, n)
    BY <2>1, <1>1, <1>3, <1>4
  <2>3. \A i \in 0 .. n : g[i] \in Nat /\ h[i] = g[i]
    BY ONLY <2>2, n \in Nat, m \in Nat, CandleRunsAgree
  <2>. QED BY <2>1, <2>3
<1>6. h[Len(u)] = h[Len(u) - 1] + CandleShare(u, b, e, Len(u))
  <2>1. \A i \in 0 .. Len(u) : h[i] = IF i = 0 THEN 0 ELSE h[i - 1] + CandleShare(u, b, e, i)
    BY ONLY <1>3 DEF CandleRuns
  <2>2. Len(u) \in 0 .. Len(u) /\ Len(u) # 0
    BY <1>1
  <2>. QED BY <2>1, <2>2
<1>7. CandleShare(u, b, e, Len(u)) = IF CandleBelongs(x, b, e) THEN x.qty ELSE 0
  BY <1>1 DEF CandleShare, Candles!Mine, CandleBelongs
<1>8. Len(u) - 1 = Len(t) /\ Len(t) \in 0 .. Len(t)
  BY <1>1
<1>. QED BY <1>2, <1>5, <1>6, <1>7, <1>8

(* The volume of a bucket without trades.                                  *)
LEMMA CandleVolumeNone ==
  ASSUME NEW t \in Seq(Candles!Trade), NEW b, NEW e, Candles!Mine(t, b, e) = {}
  PROVE  Candles!Volumes(t, b, e)[Len(t)] = 0
<1>0. PICK n \in Nat : n = Len(t)
  OBVIOUS
<1>1. PICK g, h : g = Candles!Volumes(t, b, e) /\ h = [i \in 0 .. n |-> 0]
  OBVIOUS
<1>2. CandleRuns(t, b, e, n, g)
  BY <1>0, <1>1, CandleVolumesRun
<1>3. \A i : CandleShare(t, b, e, i) = 0
  BY DEF CandleShare
<1>4. CandleRuns(t, b, e, n, h)
  BY <1>1, <1>3 DEF CandleRuns
<1>5. CandleSameShares(t, t, b, e, n)
  BY <1>3 DEF CandleSameShares
<1>6. n <= n
  BY <1>0
<1>7. \A i \in 0 .. n : h[i] = g[i]
  BY ONLY <1>2, <1>4, <1>5, <1>6, n \in Nat, CandleRunsAgree
<1>. QED BY <1>0, <1>1, <1>7

(* The prices of some trades of a tape are finitely many numbers.          *)
LEMMA CandlePricesFinite ==
  ASSUME Candles!Sized, NEW t \in Seq(Candles!Trade), NEW M \in SUBSET (1 .. Len(t)), NEW P, P = {t[i].price : i \in M}
  PROVE  P \in SUBSET Int /\ Candles!IsFiniteSet(P)
<1>1. ASSUME NEW i \in 1 .. Len(t) PROVE t[i].price \in TradePrices
  <2>1. PICK y \in Candles!Trade : y = t[i]
    OBVIOUS
  <2>. QED BY <2>1 DEF Candles!Trade
<1>2. P \subseteq TradePrices
  BY <1>1
<1>. QED BY <1>2, FS_Subset, CandleCardinality DEF Candles!Sized

(* Highest and lowest of the old prices and another.                       *)
LEMMA CandleOneMore ==
  ASSUME NEW P \in SUBSET Int, Candles!IsFiniteSet(P), P # {}, NEW p \in Int
  PROVE  Candles!Max(P \cup {p}) = Candles!Max({Candles!Max(P), p}) /\ Candles!Min(P \cup {p}) = Candles!Min({Candles!Min(P), p})
<1>1. P \cup {p} \in SUBSET Int /\ Candles!IsFiniteSet(P \cup {p}) /\ P \cup {p} # {}
  BY FS_AddElement, CandleCardinality
<1>2. /\ Candles!Max(P) \in P /\ \A y \in P : y <= Candles!Max(P)
      /\ Candles!Min(P) \in P /\ \A y \in P : Candles!Min(P) <= y
  BY CandleExtremes
<1>3. PICK Q : Q = P \cup {p}
  OBVIOUS
<1>4. /\ Candles!Max(Q) \in Q /\ \A y \in Q : y <= Candles!Max(Q)
      /\ Candles!Min(Q) \in Q /\ \A y \in Q : Candles!Min(Q) <= y
  BY <1>1, <1>3, CandleExtremes
<1>5. PICK a \in Int, z \in Int : a = Candles!Max(P) /\ z = Candles!Min(P)
  BY <1>2
<1>6. {a, p} \in SUBSET Int /\ Candles!IsFiniteSet({a, p}) /\ {a, p} # {} /\ {z, p} \in SUBSET Int /\ Candles!IsFiniteSet({z, p}) /\ {z, p} # {}
  <2>1. \A y \in Int : Candles!IsFiniteSet({y}) /\ Candles!IsFiniteSet({y} \cup {p})
    BY FS_Singleton, FS_AddElement, CandleCardinality
  <2>2. {a} \cup {p} = {a, p} /\ {z} \cup {p} = {z, p}
    OBVIOUS
  <2>. QED BY <2>1, <2>2
<1>7. /\ Candles!Max({a, p}) \in {a, p} /\ \A y \in {a, p} : y <= Candles!Max({a, p})
      /\ Candles!Min({z, p}) \in {z, p} /\ \A y \in {z, p} : Candles!Min({z, p}) <= y
  BY <1>6, CandleExtremes
<1>8. Candles!Max(Q) = Candles!Max({a, p})
  <2>1. PICK x, y : x = Candles!Max(Q) /\ y = Candles!Max({a, p})
    OBVIOUS
  <2>2. x \in Q /\ (\A v \in Q : v <= x) /\ a \in P /\ (\A v \in P : v <= a) /\ (y = a \/ y = p) /\ a <= y /\ p <= y
    BY <2>1, <1>2, <1>4, <1>5, <1>7
  <2>3. x \in Int /\ y \in Int /\ a \in Q /\ p \in Q /\ (x \in P \/ x = p)
    BY <2>2, <1>3
  <2>4. y <= x /\ x <= y
    BY <2>2, <2>3
  <2>. QED BY <2>1, <2>3, <2>4
<1>9. Candles!Min(Q) = Candles!Min({z, p})
  <2>1. PICK x, y : x = Candles!Min(Q) /\ y = Candles!Min({z, p})
    OBVIOUS
  <2>2. x \in Q /\ (\A v \in Q : x <= v) /\ z \in P /\ (\A v \in P : z <= v) /\ (y = z \/ y = p) /\ y <= z /\ y <= p
    BY <2>1, <1>2, <1>4, <1>5, <1>7
  <2>3. x \in Int /\ y \in Int /\ z \in Q /\ p \in Q /\ (x \in P \/ x = p)
    BY <2>2, <1>3
  <2>4. y <= x /\ x <= y
    BY <2>2, <2>3
  <2>. QED BY <2>1, <2>3, <2>4
<1>. QED BY <1>3, <1>5, <1>8, <1>9

(* The extremes of one price.                                              *)
LEMMA CandleSingle == ASSUME NEW p \in Int PROVE Candles!Max({p}) = p /\ Candles!Min({p}) = p
<1>1. {p} \in SUBSET Int /\ Candles!IsFiniteSet({p}) /\ {p} # {}
  BY FS_Singleton, CandleCardinality
<1>. QED BY <1>1, CandleExtremes

(* The candle of a tape: unless x is of it, x changes nothing.             *)
LEMMA CandleReferenceOther ==
  ASSUME NEW t \in Seq(Candles!Trade), NEW u \in Seq(Candles!Trade), NEW x \in Candles!Trade, CandleComes(u, t, x), NEW b, NEW e, ~CandleBelongs(x, b, e)
  PROVE  Candles!Reference(u, b, e) = Candles!Reference(t, b, e)
<1>1. PICK M : M = Candles!Mine(t, b, e)
  OBVIOUS
<1>2. Candles!Mine(u, b, e) = M
  <2>1. Candles!Mine(u, b, e) = Candles!Mine(t, b, e) \cup (IF CandleBelongs(x, b, e) THEN {Len(t) + 1} ELSE {})
    BY ONLY CandleMineComes, t \in Seq(Candles!Trade), u \in Seq(Candles!Trade), x \in Candles!Trade, CandleComes(u, t, x)
  <2>. QED BY <2>1, <1>1
<1>3. M \subseteq 1 .. Len(t)
  BY <1>1 DEF Candles!Mine
<1>4. \A i \in M : u[i] = t[i]
  BY <1>3 DEF CandleComes
<1>5. {u[i].price : i \in M} = {t[i].price : i \in M}
  BY <1>4
<1>6. Candles!Volumes(u, b, e)[Len(u)] = Candles!Volumes(t, b, e)[Len(t)]
  BY CandleVolumeComes
<1>7. M # {} => Candles!Min(M) \in M /\ Candles!Max(M) \in M
  <2>1. ASSUME M # {} PROVE Candles!Min(M) \in M /\ Candles!Max(M) \in M
    <3>0. Len(t) \in Nat
      OBVIOUS
    <3>1. M \in SUBSET Int /\ Candles!IsFiniteSet(M)
      <4>1. Candles!IsFiniteSet(1 .. Len(t))
        BY <3>0, FS_Interval, CandleCardinality
      <4>2. Candles!IsFiniteSet(M)
        BY ONLY <4>1, <1>3, FS_Subset, CandleCardinality
      <4>3. M \in SUBSET Int
        BY ONLY <3>0, <1>3
      <4>. QED BY <4>2, <4>3
    <3>. QED BY <3>1, <2>1, CandleExtremes
  <2>. QED BY <2>1
<1>. QED BY <1>1, <1>2, <1>4, <1>5, <1>6, <1>7 DEF Candles!Reference

(* A trade of it is folded into it.                                        *)
LEMMA CandleReferenceOwn ==
  ASSUME Candles!Sized, NEW t \in Seq(Candles!Trade), NEW u \in Seq(Candles!Trade), NEW x \in Candles!Trade, CandleComes(u, t, x),
         NEW b \in Nat, NEW e, CandleBelongs(x, b, e)
  PROVE  Candles!Reference(u, b, e) = Candles!Fold(Candles!Reference(t, b, e), Candles!Mine(t, b, e) # {}, x.price, x.qty)
<1>0. Len(t) \in Nat /\ x.price \in Int /\ x.qty \in Nat
  <2>1. x.price \in TradePrices /\ x.qty \in Nat
    BY DEF Candles!Trade
  <2>2. TradePrices \subseteq Int
    BY DEF Candles!Sized
  <2>3. Len(t) \in Nat
    OBVIOUS
  <2>. QED BY <2>1, <2>2, <2>3
<1>1. PICK M, N, n : M = Candles!Mine(t, b, e) /\ N = Candles!Mine(u, b, e) /\ n = Len(t) + 1
  OBVIOUS
<1>2. N = M \cup {n}
  BY <1>1, CandleMineComes
<1>3. M \subseteq 1 .. Len(t) /\ n \notin M /\ \A i \in M : i < n
  BY <1>0, <1>1 DEF Candles!Mine
<1>4. u[n] = x /\ \A i \in M : u[i] = t[i]
  BY <1>1, <1>3 DEF CandleComes
<1>5. PICK P, Q : P = {t[i].price : i \in M} /\ Q = {u[i].price : i \in N}
  OBVIOUS
<1>6. Q = P \cup {x.price}
  BY <1>2, <1>4, <1>5
<1>7. Candles!Volumes(t, b, e)[Len(t)] \in Nat /\ Candles!Volumes(u, b, e)[Len(u)] = Candles!Volumes(t, b, e)[Len(t)] + x.qty
  BY CandleVolumeComes
<1>8. M \in SUBSET Int /\ Candles!IsFiniteSet(M) /\ N \in SUBSET Int /\ Candles!IsFiniteSet(N) /\ n \in Int
  <2>1. Candles!IsFiniteSet(1 .. Len(t))
    BY <1>0, FS_Interval, CandleCardinality
  <2>2. Candles!IsFiniteSet(M)
    BY <2>1, <1>3, FS_Subset, CandleCardinality
  <2>3. Candles!IsFiniteSet(N)
    BY <2>2, <1>2, FS_AddElement, CandleCardinality
  <2>. QED BY <2>2, <2>3, <1>0, <1>1, <1>2, <1>3
<1>9. Candles!Max(N) = n
  <2>1. Candles!Max(N) \in N /\ \A y \in N : y <= Candles!Max(N)
    BY <1>2, <1>8, CandleExtremes
  <2>2. PICK y : y = Candles!Max(N)
    OBVIOUS
  <2>3. y \in N /\ n <= y
    BY <2>1, <2>2, <1>2
  <2>4. y \in M \/ y = n
    BY <2>3, <1>2
  <2>5. y \in Int /\ ~(y < n)
    BY ONLY <2>3, <1>8
  <2>. QED BY <2>2, <2>4, <2>5, <1>3
<1>10. Candles!Reference(u, b, e) = [open_time |-> b * BucketMs, open |-> u[Candles!Min(N)].price, close |-> u[Candles!Max(N)].price,
                                     high |-> Candles!Max(Q), low |-> Candles!Min(Q), volume |-> Candles!Volumes(u, b, e)[Len(u)]]
  BY <1>1, <1>2, <1>5 DEF Candles!Reference
<1>11. CASE M = {}
  <2>1. N = {n} /\ Q = {x.price}
    BY <1>2, <1>5, <1>6, <1>11
  <2>2. Candles!Min(N) = n /\ Candles!Max(Q) = x.price /\ Candles!Min(Q) = x.price
    BY <2>1, <1>0, <1>8, CandleSingle
  <2>3. Candles!Volumes(t, b, e)[Len(t)] = 0
    BY <1>1, <1>11, CandleVolumeNone
  <2>4. Candles!Reference(t, b, e) = Candles!Empty(b)
    BY <1>1, <1>11 DEF Candles!Reference
  <2>. QED BY <1>1, <1>4, <1>7, <1>9, <1>10, <1>11, <2>2, <2>3, <2>4 DEF Candles!Fold, Candles!Empty
<1>12. CASE M # {}
  <2>1. /\ P \in SUBSET Int /\ Candles!IsFiniteSet(P) /\ P # {}
    BY <1>3, <1>5, <1>12, CandlePricesFinite
  <2>2. Candles!Max(Q) = Candles!Max({Candles!Max(P), x.price}) /\ Candles!Min(Q) = Candles!Min({Candles!Min(P), x.price})
    BY <2>1, <1>0, <1>6, CandleOneMore
  <2>3. Candles!Min(N) = Candles!Min(M) /\ Candles!Min(M) \in M
    <3>1. /\ Candles!Min(M) \in M /\ (\A y \in M : Candles!Min(M) <= y) /\ Candles!Min(N) \in N /\ \A y \in N : Candles!Min(N) <= y
      BY <1>2, <1>8, <1>12, CandleExtremes
    <3>2. PICK y, z : y = Candles!Min(M) /\ z = Candles!Min(N)
      OBVIOUS
    <3>3. y \in M /\ y \in N /\ (z \in M \/ z = n) /\ y \in Int /\ z \in Int /\ y < n /\ z <= y /\ (z \in M => y <= z)
      BY <3>1, <3>2, <1>2, <1>3, <1>8
    <3>4. y = z
      BY <3>3, <1>8
    <3>. QED BY <3>1, <3>2, <3>4
  <2>4. Candles!Reference(t, b, e) = [open_time |-> b * BucketMs, open |-> t[Candles!Min(M)].price, close |-> t[Candles!Max(M)].price,
                                      high |-> Candles!Max(P), low |-> Candles!Min(P), volume |-> Candles!Volumes(t, b, e)[Len(t)]]
    BY <1>1, <1>5, <1>12 DEF Candles!Reference
  <2>5. u[Candles!Min(N)].price = t[Candles!Min(M)].price /\ u[Candles!Max(N)].price = x.price
    BY <2>3, <1>4, <1>9
  <2>. QED BY <1>1, <1>7, <1>10, <1>12, <2>2, <2>4, <2>5 DEF Candles!Fold
<1>. QED BY <1>11, <1>12

(* A time has a bucket.                                                    *)
LEMMA CandleDivided == ASSUME NEW a \in Nat, NEW m \in Nat \ {0} PROVE a \div m \in Nat
OBVIOUS

(* An empty candle is a candle.                                            *)
LEMMA CandleEmptyType == ASSUME Candles!Sized, NEW b \in Int PROVE Candles!Empty(b) \in Candles!Candle
<1>1. b * BucketMs \in Int
  BY DEF Candles!Sized
<1>. QED BY <1>1 DEF Candles!Empty, Candles!Candle

(* A candle with one more trade is a candle.                               *)
LEMMA CandleFoldType ==
  ASSUME NEW c \in Candles!Candle, NEW traded \in BOOLEAN, NEW price \in Int, NEW qty \in Int
  PROVE  Candles!Fold(c, traded, price, qty) \in Candles!Candle
<1>1. c.open_time \in Int /\ c.open \in Int /\ c.high \in Int /\ c.low \in Int /\ c.volume \in Int
  BY DEF Candles!Candle
<1>2. Candles!Max({c.high, price}) \in Int /\ Candles!Min({c.low, price}) \in Int
  <2>1. \A a \in Int : {a, price} \in SUBSET Int /\ Candles!IsFiniteSet({a, price}) /\ {a, price} # {}
    <3>1. \A a \in Int : Candles!IsFiniteSet({a}) /\ Candles!IsFiniteSet({a} \cup {price})
      BY FS_Singleton, FS_AddElement, CandleCardinality
    <3>2. \A a \in Int : {a} \cup {price} = {a, price}
      OBVIOUS
    <3>. QED BY <3>1, <3>2
  <2>2. \A a \in Int : Candles!Max({a, price}) \in {a, price} /\ Candles!Min({a, price}) \in {a, price}
    BY <2>1, CandleExtremes
  <2>. QED BY <2>2, <1>1
<1>3. c.volume + qty \in Int
  BY <1>1
<1>. QED BY <1>1, <1>2, <1>3 DEF Candles!Fold, Candles!Candle

(* Counting the rolls before a place, when one is added at the end.        *)
LEMMA CandleRolls ==
  ASSUME NEW n \in Nat, NEW r \in SUBSET (1 .. n)
  PROVE  /\ Candles!IsFiniteSet(r) /\ Candles!Cardinality(r) \in Nat
         /\ \A k \in Int : k > n => Candles!Before(r, k) = Candles!Cardinality(r)
         /\ \A k \in Int : k <= n + 1 => Candles!Before(r \cup {n + 1}, k) = Candles!Before(r, k)
         /\ Candles!Cardinality(r \cup {n + 1}) = Candles!Cardinality(r) + 1
<1>1. Candles!IsFiniteSet(1 .. n)
  BY FS_Interval, CandleCardinality
<1>2. Candles!IsFiniteSet(r)
  BY <1>1, FS_Subset, CandleCardinality
<1>3. Candles!Cardinality(r) \in Nat
  BY <1>2, FS_CardinalityType, CandleCardinality
<1>4. ASSUME NEW k \in Int, k > n PROVE Candles!Before(r, k) = Candles!Cardinality(r)
  <2>0. \A x \in r : x < k
    BY <1>4
  <2>1. {x \in r : x < k} = r
    BY <2>0
  <2>. QED BY <2>1 DEF Candles!Before
<1>5. ASSUME NEW k \in Int, k <= n + 1 PROVE Candles!Before(r \cup {n + 1}, k) = Candles!Before(r, k)
  <2>1. {x \in r \cup {n + 1} : x < k} = {x \in r : x < k}
    BY <1>5
  <2>. QED BY <2>1 DEF Candles!Before
<1>6. n + 1 \notin r
  OBVIOUS
<1>7. Candles!Cardinality(r \cup {n + 1}) = Candles!Cardinality(r) + 1
  BY <1>2, <1>6, FS_AddElement, CandleCardinality
<1>. QED BY <1>2, <1>3, <1>4, <1>5, <1>7

(* A new aggregator.                                                       *)
LEMMA CandlesInit == Candles!Sized /\ Candles!Init => Candles!IInv
<1>. SUFFICES ASSUME Candles!Sized, Candles!Init PROVE Candles!IInv
  OBVIOUS
<1>1. ohCurrent \in Candles!Candle
  BY CandleEmptyType DEF Candles!Init
<1>. QED BY <1>1 DEF Candles!Init, Candles!IInv, Candles!Within

(* What the invariant promises: the candles done and the open one are      *)
(* those of the trades.                                                    *)
LEMMA CandlesImplied == Candles!Sized /\ Candles!IInv => Candles!CandlesExact
<1>. SUFFICES ASSUME Candles!Sized, Candles!IInv, ohCurrentBucket # -1, NEW k \in DOMAIN Candles!Candles
              PROVE  Candles!Candles[k] = Candles!Reference(ohTape, k - 1 - Candles!Before(ohRolled, k), Candles!Before(ohRolled, k))
  BY DEF Candles!CandlesExact, Candles!Before
<1>1. PICK n \in Nat : n = Len(ohCompleted)
  BY DEF Candles!IInv
<1>2. DOMAIN Candles!Candles = 1 .. n + 1
  BY <1>1 DEF Candles!Candles, Candles!IInv
<1>3. /\ Candles!Epoch \in Nat /\ \A j \in Int : j > n => Candles!Before(ohRolled, j) = Candles!Epoch
  <2>1. ohRolled \in SUBSET (1 .. n)
    BY <1>1 DEF Candles!IInv
  <2>. QED BY <2>1, CandleRolls DEF Candles!Epoch
<1>6. Candles!OpenExact
  BY DEF Candles!IInv
<1>4. CASE k = n + 1
  <2>1. Candles!Candles[k] = ohCurrent
    BY <1>1, <1>4 DEF Candles!Candles, Candles!IInv
  <2>2. Candles!Before(ohRolled, k) = Candles!Epoch /\ k - 1 - Candles!Epoch = ohCurrentBucket
    BY <1>1, <1>3, <1>4, <1>6 DEF Candles!OpenExact
  <2>. QED BY <2>1, <2>2, <1>6 DEF Candles!OpenExact
<1>5. CASE k # n + 1
  <2>1. k \in 1 .. n
    BY <1>2, <1>5
  <2>2. Candles!Candles[k] = ohCompleted[k]
    BY <2>1, <1>1 DEF Candles!Candles, Candles!IInv
  <2>. QED BY <2>1, <2>2, <1>1, <1>6 DEF Candles!OpenExact, Candles!Done
<1>. QED BY <1>4, <1>5

(* A bucket of which the tape has nothing has the empty candle.            *)
LEMMA CandleReferenceNone ==
  ASSUME NEW t, NEW b, NEW e, \A i \in 1 .. Len(t) : ~(t[i].bucket = b /\ t[i].epoch = e)
  PROVE  Candles!Mine(t, b, e) = {} /\ Candles!Reference(t, b, e) = Candles!Empty(b)
<1>1. Candles!Mine(t, b, e) = {}
  BY DEF Candles!Mine
<1>. QED BY <1>1 DEF Candles!Reference

(* What every trade that is taken does to the tape.                        *)
LEMMA CandleTaken ==
  ASSUME Candles!Sized, Candles!IInv, NEW b \in Nat, NEW price \in TradePrices, NEW qty \in TradeQtys, Candles!Take(b, price, qty)
  PROVE  \E x \in Candles!Trade : /\ x.bucket = b /\ x.price = price /\ x.qty = qty /\ x.epoch = Candles!Epoch /\ ohTape' \in Seq(Candles!Trade)
                                  /\ CandleComes(ohTape', ohTape, x)
<1>1. Candles!Epoch \in Nat
  <2>1. PICK n \in Nat : n = Len(ohCompleted)
    BY DEF Candles!IInv
  <2>2. ohRolled \in SUBSET (1 .. n)
    BY <2>1 DEF Candles!IInv
  <2>. QED BY <2>2, CandleRolls DEF Candles!Epoch
<1>2. PICK x \in Candles!Trade : x = [bucket |-> b, price |-> price, qty |-> qty, epoch |-> Candles!Epoch]
  <2>1. qty \in Nat
    BY DEF Candles!Sized
  <2>. QED BY <1>1, <2>1 DEF Candles!Trade
<1>3. x.bucket = b /\ x.price = price /\ x.qty = qty /\ x.epoch = Candles!Epoch
  BY <1>2
<1>4. ohTape' = Append(ohTape, x) /\ ohTape \in Seq(Candles!Trade)
  BY <1>2 DEF Candles!Take, Candles!Epoch, Candles!IInv
<1>5. ohTape' \in Seq(Candles!Trade)
  BY <1>4
<1>6. CandleComes(ohTape', ohTape, x)
  <2>1. Len(ohTape) \in Nat /\ Len(ohTape') = Len(ohTape) + 1 /\ ohTape'[Len(ohTape) + 1] = x
    BY <1>4
  <2>2. \A i \in 1 .. Len(ohTape) : ohTape'[i] = ohTape[i]
    BY <1>4
  <2>. QED BY <2>1, <2>2 DEF CandleComes
<1>. QED BY <1>3, <1>5, <1>6

(* A trade of bucket b after all rolls is of no candle before it.          *)
LEMMA CandleDoneStays ==
  ASSUME NEW t \in Seq(Candles!Trade), NEW u \in Seq(Candles!Trade), NEW x \in Candles!Trade, CandleComes(u, t, x), NEW n \in Nat, NEW r \in SUBSET (1 .. n),
         x.epoch = Candles!Cardinality(r), x.bucket + Candles!Cardinality(r) >= n, NEW k \in 1 .. n
  PROVE  Candles!Reference(u, k - 1 - Candles!Before(r, k), Candles!Before(r, k)) = Candles!Reference(t, k - 1 - Candles!Before(r, k), Candles!Before(r, k))
<1>1. PICK e : e = Candles!Before(r, k)
  OBVIOUS
<1>2. Candles!Cardinality(r) \in Nat /\ x.bucket \in Nat
  BY CandleRolls DEF Candles!Trade
<1>3. ~CandleBelongs(x, k - 1 - e, e)
  <2>. SUFFICES ASSUME x.bucket = k - 1 - e, x.epoch = e PROVE FALSE
    BY DEF CandleBelongs
  <2>. QED BY <1>2
<1>4. PICK b : b = k - 1 - e
  OBVIOUS
<1>5. ~CandleBelongs(x, b, e)
  BY <1>3, <1>4
<1>6. Candles!Reference(u, b, e) = Candles!Reference(t, b, e)
  BY ONLY <1>5, t \in Seq(Candles!Trade), u \in Seq(Candles!Trade), x \in Candles!Trade, CandleComes(u, t, x), CandleReferenceOther
<1>. QED BY <1>1, <1>4, <1>6

(* A trade of bucket b is the last of its tape.                            *)
LEMMA CandleTapeKnown ==
  ASSUME NEW t \in Seq(Candles!Trade), NEW u \in Seq(Candles!Trade), NEW x \in Candles!Trade, CandleComes(u, t, x), NEW a \in Int, NEW b \in Nat, a <= b,
         NEW c \in Nat, x.bucket = b, x.epoch = c, Candles!Within(t, a, c)
  PROVE  /\ Candles!Within(u, b, c)
         /\ Candles!Mine(u, b, c) # {}
<1>1. Len(t) \in Nat /\ Len(u) = Len(t) + 1 /\ u[Len(t) + 1] = x /\ \A i \in 1 .. Len(t) : u[i] = t[i]
  BY DEF CandleComes
<1>2. ASSUME NEW i \in 1 .. Len(u) PROVE u[i].bucket <= b /\ u[i].epoch <= c
  <2>1. CASE i = Len(t) + 1
    BY <1>1, <2>1
  <2>2. CASE i # Len(t) + 1
    <3>1. i \in 1 .. Len(t) /\ u[i] = t[i]
      BY <1>1, <2>2
    <3>2. PICK y \in Candles!Trade : y = t[i]
      BY <3>1
    <3>3. y.bucket \in Nat /\ y.bucket <= a /\ y.epoch <= c
      BY <3>1, <3>2 DEF Candles!Trade, Candles!Within
    <3>. QED BY <3>1, <3>2, <3>3
  <2>. QED BY <2>1, <2>2
<1>3. Len(t) + 1 \in Candles!Mine(u, b, c)
  BY <1>1 DEF Candles!Mine
<1>. QED BY <1>2, <1>3 DEF Candles!Within

(* The empty candles of the buckets without trades.                        *)
LEMMA CandleEmptyRun ==
  ASSUME Candles!Sized, NEW a \in Int, NEW b \in Int, a <= b
  PROVE  /\ Candles!AppendEmptyCandle(a, b) \in Seq(Candles!Candle) /\ Len(Candles!AppendEmptyCandle(a, b)) = b - a
         /\ \A i \in 1 .. b - a : Candles!AppendEmptyCandle(a, b)[i] = Candles!Empty(a + i - 1)
<1>1. \A i \in 1 .. b - a : Candles!Empty(a + i - 1) \in Candles!Candle
  BY CandleEmptyType
<1>2. b - a \in Nat
  OBVIOUS
<1>. QED BY <1>1, <1>2 DEF Candles!AppendEmptyCandle

(* roll() closes the open candle, if one is open.                          *)
LEMMA CandleRollKeeps == ASSUME Candles!Sized, Candles!IInv, Candles!roll PROVE Candles!IInv'
<1>1. ohHasTrade' = FALSE /\ ohCurrentBucket' = ohCurrentBucket /\ ohTape' = ohTape
  BY DEF Candles!roll
<1>2. CASE ohCurrentBucket = -1
  <2>1. ohCurrent' = Candles!Empty(0) /\ ohCompleted' = ohCompleted /\ ohRolled' = ohRolled
    BY <1>2 DEF Candles!roll
  <2>2. ohCurrent' \in Candles!Candle
    BY <2>1, CandleEmptyType
  <2>3. Candles!Epoch' = Candles!Epoch
    BY <2>1 DEF Candles!Epoch
  <2>. QED BY <1>1, <1>2, <2>1, <2>2, <2>3 DEF Candles!IInv
<1>3. CASE ohCurrentBucket # -1
  <2>1. /\ ohCompleted' = Append(ohCompleted, ohCurrent) /\ ohRolled' = ohRolled \cup {Len(ohCompleted) + 1}
        /\ ohCurrent' = Candles!Empty(ohCurrentBucket)
    BY <1>3 DEF Candles!roll
  <2>2. PICK n \in Nat : n = Len(ohCompleted)
    BY DEF Candles!IInv
  <2>3. ohRolled \in SUBSET (1 .. n) /\ ohRolled' = ohRolled \cup {n + 1}
    BY <2>1, <2>2 DEF Candles!IInv
  <2>4. /\ Candles!Epoch \in Nat /\ Candles!Epoch' = Candles!Epoch + 1
        /\ \A k \in Int : k > n => Candles!Before(ohRolled, k) = Candles!Epoch
        /\ \A k \in Int : k <= n + 1 => Candles!Before(ohRolled', k) = Candles!Before(ohRolled, k)
    BY <2>3, CandleRolls DEF Candles!Epoch
  <2>5. /\ ohCompleted \in Seq(Candles!Candle) /\ ohCurrent \in Candles!Candle /\ ohTape \in Seq(Candles!Trade) /\ ohCurrentBucket \in Nat
        /\ ohCurrentBucket = n - Candles!Epoch /\ ohCurrent = Candles!Reference(ohTape, ohCurrentBucket, Candles!Epoch) /\ Candles!Done(ohCompleted, ohTape, ohRolled)
        /\ Candles!Within(ohTape, ohCurrentBucket, Candles!Epoch)
    BY <1>3, <2>2 DEF Candles!IInv, Candles!OpenExact, Candles!Within
  <2>6. ohCompleted' \in Seq(Candles!Candle) /\ Len(ohCompleted') = n + 1 /\ ohCompleted'[n + 1] = ohCurrent
        /\ \A k \in 1 .. n : ohCompleted'[k] = ohCompleted[k]
    BY <2>1, <2>2, <2>5
  <2>7. ohCurrent' \in Candles!Candle
    BY <2>1, <2>5, CandleEmptyType
  <2>8. Candles!Mine(ohTape, ohCurrentBucket, Candles!Epoch + 1) = {} /\ Candles!Reference(ohTape, ohCurrentBucket, Candles!Epoch + 1) = Candles!Empty(ohCurrentBucket)
    <3>1. ASSUME NEW i \in 1 .. Len(ohTape) PROVE ~(ohTape[i].bucket = ohCurrentBucket /\ ohTape[i].epoch = Candles!Epoch + 1)
      BY <2>4, <2>5 DEF Candles!Within
    <3>. QED BY <3>1, CandleReferenceNone
  <2>9. Candles!Done(ohCompleted', ohTape, ohRolled')
    <3>. SUFFICES ASSUME NEW k \in 1 .. n + 1
                  PROVE  ohCompleted'[k] = Candles!Reference(ohTape, k - 1 - Candles!Before(ohRolled', k), Candles!Before(ohRolled', k))
      BY <2>6 DEF Candles!Done
    <3>1. Candles!Before(ohRolled', k) = Candles!Before(ohRolled, k)
      BY <2>4
    <3>2. CASE k = n + 1
      <4>1. Candles!Before(ohRolled, k) = Candles!Epoch /\ k - 1 - Candles!Epoch = ohCurrentBucket
        BY <2>4, <2>5, <3>2
      <4>. QED BY <4>1, <3>1, <3>2, <2>5, <2>6
    <3>3. CASE k # n + 1
      <4>1. k \in 1 .. n
        BY <3>3
      <4>. QED BY <4>1, <3>1, <2>2, <2>5, <2>6 DEF Candles!Done
    <3>. QED BY <3>2, <3>3
  <2>10. ohRolled' \subseteq 1 .. n + 1
    BY <2>3
  <2>11. ohCurrentBucket = Len(ohCompleted') - Candles!Epoch'
    BY <2>4, <2>5, <2>6
  <2>12. \A i \in 1 .. Len(ohTape) : ohTape[i].bucket <= ohCurrentBucket /\ ohTape[i].epoch <= Candles!Epoch'
    <3>1. ASSUME NEW i \in 1 .. Len(ohTape) PROVE ohTape[i].epoch <= Candles!Epoch'
      <4>1. PICK y \in Candles!Trade : y = ohTape[i]
        BY <2>5
      <4>2. y.epoch \in Nat /\ y.epoch <= Candles!Epoch
        BY <4>1, <2>5 DEF Candles!Trade, Candles!Within
      <4>. QED BY <4>1, <4>2, <2>4
    <3>. QED BY <3>1, <2>5 DEF Candles!Within
  <2>13. Candles!OpenExact'
    BY <1>1, <2>1, <2>4, <2>5, <2>8, <2>9, <2>11 DEF Candles!OpenExact
  <2>. QED BY <1>1, <1>3, <2>5, <2>6, <2>7, <2>10, <2>12, <2>13 DEF Candles!IInv, Candles!Within
<1>. QED BY <1>2, <1>3

(* add_trade() drops a late trade, adds to the open candle, or closes it,  *)
(* fills the gap and opens the one of the trade.                           *)
LEMMA CandleTradeKeeps ==
  ASSUME Candles!Sized, Candles!IInv, NEW ts \in TradeTimes, NEW price \in TradePrices, NEW qty \in TradeQtys, Candles!add_trade(ts, price, qty)
  PROVE  Candles!IInv'
<1>1. PICK b \in Nat : b = ts \div BucketMs
  BY CandleDivided DEF Candles!Sized
<1>2. ohRolled' = ohRolled /\ Candles!Epoch' = Candles!Epoch
  BY DEF Candles!add_trade, Candles!Epoch
<1>3. PICK n \in Nat : n = Len(ohCompleted)
  BY DEF Candles!IInv
<1>4. ohRolled \in SUBSET (1 .. n)
  BY <1>3 DEF Candles!IInv
<1>5. Candles!Epoch \in Nat /\ \A k \in Int : k > n => Candles!Before(ohRolled, k) = Candles!Epoch
  BY <1>4, CandleRolls DEF Candles!Epoch
<1>6. /\ ohCompleted \in Seq(Candles!Candle) /\ ohCurrent \in Candles!Candle /\ ohTape \in Seq(Candles!Trade) /\ ohCurrentBucket \in Int
      /\ Candles!Within(ohTape, ohCurrentBucket, Candles!Epoch)
  BY DEF Candles!IInv
<1>7. price \in Int /\ qty \in Int
  BY DEF Candles!Sized
<1>8. ASSUME Candles!Take(b, price, qty), NEW m \in Nat, n <= m, b = m - Candles!Epoch, ohCurrentBucket <= b,
             ohCurrentBucket' = b, ohHasTrade' = TRUE,
             ohCurrent' = Candles!Fold(Candles!Reference(ohTape, b, Candles!Epoch), Candles!Mine(ohTape, b, Candles!Epoch) # {}, price, qty), ohCurrent' \in Candles!Candle,
             NEW c \in Seq(Candles!Candle), ohCompleted' = c, Len(c) = m,
             \A k \in 1 .. m : c[k] = Candles!Reference(ohTape, k - 1 - Candles!Before(ohRolled, k), Candles!Before(ohRolled, k))
      PROVE  Candles!IInv'
  <2>1. PICK x \in Candles!Trade : /\ x.bucket = b /\ x.price = price /\ x.qty = qty /\ x.epoch = Candles!Epoch /\ ohTape' \in Seq(Candles!Trade)
                                   /\ CandleComes(ohTape', ohTape, x)
    BY <1>8, CandleTaken
  <2>2. PICK u \in Seq(Candles!Trade) : u = ohTape'
    BY <2>1
  <2>3. CandleComes(u, ohTape, x) /\ CandleBelongs(x, b, Candles!Epoch)
    BY <2>1, <2>2 DEF CandleBelongs
  <2>4. Candles!Reference(u, b, Candles!Epoch) = Candles!Fold(Candles!Reference(ohTape, b, Candles!Epoch), Candles!Mine(ohTape, b, Candles!Epoch) # {}, x.price, x.qty)
    BY ONLY <1>6, <2>3, x \in Candles!Trade, u \in Seq(Candles!Trade), b \in Nat, Candles!Sized, CandleReferenceOwn
  <2>5. ohCurrent' = Candles!Reference(u, b, Candles!Epoch)
    BY <2>1, <2>4, <1>8
  <2>6. ASSUME NEW k \in 1 .. m
        PROVE  c[k] = Candles!Reference(u, k - 1 - Candles!Before(ohRolled, k), Candles!Before(ohRolled, k))
    <3>1. ohRolled \in SUBSET (1 .. m)
      BY <1>4, <1>8
    <3>2. x.epoch = Candles!Cardinality(ohRolled) /\ x.bucket + Candles!Cardinality(ohRolled) >= m
      BY <2>1, <1>5, <1>8 DEF Candles!Epoch
    <3>3. Candles!Reference(u, k - 1 - Candles!Before(ohRolled, k), Candles!Before(ohRolled, k)) = Candles!Reference(ohTape, k - 1 - Candles!Before(ohRolled, k), Candles!Before(ohRolled, k))
      BY ONLY <3>1, <3>2, <2>3, <1>6, x \in Candles!Trade, u \in Seq(Candles!Trade), m \in Nat, k \in 1 .. m, CandleDoneStays, ZenonT(30)
    <3>. QED BY <3>3, <1>8
  <2>7. Candles!Within(u, b, Candles!Epoch) /\ Candles!Mine(u, b, Candles!Epoch) # {}
    <3>1. x.bucket = b /\ x.epoch = Candles!Epoch /\ ohCurrentBucket <= b
      BY <2>1, <1>8
    <3>. QED BY ONLY <3>1, <2>3, <1>5, <1>6, x \in Candles!Trade, u \in Seq(Candles!Trade), b \in Nat, CandleTapeKnown
  <2>8. Candles!Done(ohCompleted', ohTape', ohRolled')
    BY <2>2, <2>6, <1>2, <1>8 DEF Candles!Done
  <2>9. ohRolled' \subseteq 1 .. Len(ohCompleted')
    BY <1>2, <1>4, <1>8
  <2>10. b # -1 /\ b \in Nat /\ b \in Int
    OBVIOUS
  <2>11. ohCurrentBucket' = Len(ohCompleted') - Candles!Epoch'
    BY <1>2, <1>8
  <2>12. ohCurrent' = Candles!Reference(ohTape', ohCurrentBucket', Candles!Epoch') /\ ohHasTrade' = (Candles!Mine(ohTape', ohCurrentBucket', Candles!Epoch') # {})
    BY <2>2, <2>5, <2>7, <1>2, <1>8
  <2>13. ohTape' \in Seq(Candles!Trade) /\ ohCompleted' \in Seq(Candles!Candle) /\ ohCurrent' \in Candles!Candle /\ ohCurrentBucket' # -1 /\ ohCurrentBucket' \in Nat
    BY <2>1, <2>10, <1>8
  <2>14. Candles!Within(ohTape', ohCurrentBucket', Candles!Epoch')
    BY <2>2, <2>7, <1>2, <1>8
  <2>15. Candles!OpenExact'
    BY ONLY <2>8, <2>11, <2>12, <2>13 DEF Candles!OpenExact
  <2>16. ohCurrentBucket' \in Int
    BY <2>13
  <2>. QED BY ONLY <2>9, <2>13, <2>14, <2>15, <2>16 DEF Candles!IInv
<1>9. CASE ohCurrentBucket = -1 /\ ohCompleted' = ohCompleted \o Candles!AppendEmptyCandle(0, b)
           /\ ohCurrent' = Candles!Fold(Candles!Empty(b), ohHasTrade, price, qty)
           /\ ohCurrentBucket' = b /\ ohHasTrade' = TRUE /\ Candles!Take(b, price, qty)
  <2>1. n = 0 /\ ohRolled = {} /\ ohTape = <<>> /\ ohHasTrade = FALSE /\ ohCompleted = <<>>
    BY <1>3, <1>9 DEF Candles!IInv
  <2>2. Candles!Epoch = 0
    BY <2>1, FS_EmptySet, CandleCardinality DEF Candles!Epoch
  <2>3. \A d, e : Candles!Mine(ohTape, d, e) = {} /\ Candles!Reference(ohTape, d, e) = Candles!Empty(d)
    <3>1. 1 .. Len(ohTape) = {}
      BY <2>1
    <3>. QED BY <3>1, CandleReferenceNone
  <2>4. PICK c \in Seq(Candles!Candle) : c = Candles!AppendEmptyCandle(0, b)
    BY CandleEmptyRun
  <2>5. Len(c) = b /\ \A k \in 1 .. b : c[k] = Candles!Empty(k - 1)
    <3>1. 0 \in Int /\ b \in Int /\ 0 <= b
      OBVIOUS
    <3>2. Len(c) = b - 0 /\ \A k \in 1 .. b - 0 : c[k] = Candles!Empty(0 + k - 1)
      BY <3>1, <2>4, CandleEmptyRun
    <3>3. \A k \in 1 .. b : 0 + k - 1 = k - 1
      OBVIOUS
    <3>. QED BY <3>2, <3>3
  <2>6. ohCompleted' = c
    BY <1>9, <2>1, <2>4
  <2>7. \A k \in 1 .. b : c[k] = Candles!Reference(ohTape, k - 1 - Candles!Before(ohRolled, k), Candles!Before(ohRolled, k))
    <3>1. ASSUME NEW k \in 1 .. b PROVE k - 1 - Candles!Before(ohRolled, k) = k - 1
      <4>1. Candles!Before(ohRolled, k) = 0
        BY <1>5, <2>1, <2>2
      <4>. QED BY <4>1
    <3>. QED BY <3>1, <2>3, <2>5
  <2>8. ohCurrent' = Candles!Fold(Candles!Reference(ohTape, b, Candles!Epoch), Candles!Mine(ohTape, b, Candles!Epoch) # {}, price, qty)
    BY <1>9, <2>1, <2>3
  <2>9. ohCurrent' \in Candles!Candle
    <3>1. Candles!Empty(b) \in Candles!Candle
      BY CandleEmptyType
    <3>. QED BY <3>1, <1>7, <1>9, <2>1, CandleFoldType
  <2>10. n <= b /\ b = b - Candles!Epoch /\ ohCurrentBucket <= b
    BY <1>9, <2>1, <2>2
  <2>. QED BY <1>8, <1>9, <2>5, <2>6, <2>7, <2>8, <2>9, <2>10
<1>10. CASE UNCHANGED Candles!vars
  BY <1>10 DEF Candles!vars, Candles!IInv, Candles!OpenExact, Candles!Epoch
<1>11. CASE b = ohCurrentBucket /\ ohCurrent' = Candles!Fold(ohCurrent, ohHasTrade, price, qty)
            /\ ohHasTrade' = TRUE /\ Candles!Take(b, price, qty)
            /\ ohCompleted' = ohCompleted /\ ohCurrentBucket' = ohCurrentBucket
  <2>1. /\ ohCurrentBucket # -1 /\ ohCurrentBucket = n - Candles!Epoch /\ ohCurrent = Candles!Reference(ohTape, b, Candles!Epoch)
        /\ Candles!Done(ohCompleted, ohTape, ohRolled) /\ ohHasTrade = (Candles!Mine(ohTape, b, Candles!Epoch) # {})
    BY <1>3, <1>11 DEF Candles!IInv, Candles!OpenExact
  <2>2. ohCurrent' = Candles!Fold(Candles!Reference(ohTape, b, Candles!Epoch), Candles!Mine(ohTape, b, Candles!Epoch) # {}, price, qty)
    BY <1>11, <2>1
  <2>3. ohCurrent' \in Candles!Candle
    BY <1>6, <1>7, <1>11, <2>1, CandleFoldType
  <2>4. \A k \in 1 .. n : ohCompleted[k] = Candles!Reference(ohTape, k - 1 - Candles!Before(ohRolled, k), Candles!Before(ohRolled, k))
    BY <1>3, <2>1 DEF Candles!Done
  <2>5. n <= n /\ ohCurrentBucket <= b /\ b = n - Candles!Epoch /\ ohCurrentBucket' = b
    BY <1>5, <1>11, <2>1
  <2>. QED BY <1>3, <1>6, <1>8, <1>11, <2>2, <2>3, <2>4, <2>5
<1>12. CASE ohCurrentBucket # -1 /\ b > ohCurrentBucket
            /\ ohCompleted' = Append(ohCompleted, ohCurrent) \o Candles!AppendEmptyCandle(ohCurrentBucket + 1, b)
            /\ ohCurrent' = Candles!Fold(Candles!Empty(b), FALSE, price, qty)
            /\ ohCurrentBucket' = b /\ ohHasTrade' = TRUE /\ Candles!Take(b, price, qty)
  <2>1. /\ ohCurrentBucket \in Nat /\ ohCurrentBucket = n - Candles!Epoch /\ ohCurrent = Candles!Reference(ohTape, ohCurrentBucket, Candles!Epoch)
        /\ Candles!Done(ohCompleted, ohTape, ohRolled)
    BY <1>3, <1>12 DEF Candles!IInv, Candles!OpenExact
  <2>2. \A d \in Int : d > ohCurrentBucket => Candles!Mine(ohTape, d, Candles!Epoch) = {} /\ Candles!Reference(ohTape, d, Candles!Epoch) = Candles!Empty(d)
    <3>1. ASSUME NEW d \in Int, d > ohCurrentBucket, NEW i \in 1 .. Len(ohTape)
          PROVE  ~(ohTape[i].bucket = d /\ ohTape[i].epoch = Candles!Epoch)
      BY <3>1, <1>6 DEF Candles!Within
    <3>. QED BY <3>1, CandleReferenceNone
  <2>3. PICK f \in Seq(Candles!Candle) : f = Append(ohCompleted, ohCurrent)
    <3>1. Append(ohCompleted, ohCurrent) \in Seq(Candles!Candle)
      BY <1>6
    <3>. QED BY ONLY <3>1
  <2>4. Len(f) = n + 1 /\ f[n + 1] = ohCurrent /\ \A k \in 1 .. n : f[k] = ohCompleted[k]
    BY <2>3, <1>3, <1>6
  <2>5. ohCurrentBucket + 1 \in Int /\ b \in Int /\ ohCurrentBucket + 1 <= b
    BY <1>6, <1>12, <2>1
  <2>6. PICK g \in Seq(Candles!Candle) : g = Candles!AppendEmptyCandle(ohCurrentBucket + 1, b)
    BY <2>5, CandleEmptyRun
  <2>7. Len(g) = b - (ohCurrentBucket + 1) /\ \A i \in 1 .. b - (ohCurrentBucket + 1) : g[i] = Candles!Empty(ohCurrentBucket + 1 + i - 1)
    BY <2>5, <2>6, CandleEmptyRun
  <2>8. PICK c \in Seq(Candles!Candle) : c = f \o g
    <3>1. f \o g \in Seq(Candles!Candle)
      OBVIOUS
    <3>. QED BY ONLY <3>1
  <2>9. ohCompleted' = c
    BY <1>12, <2>3, <2>6, <2>8
  <2>10. PICK m \in Nat : m = b + Candles!Epoch
    BY <1>5
  <2>11. Len(c) = m /\ n + 1 <= m
    <3>1. Len(c) = Len(f) + Len(g)
      BY <2>8
    <3>2. PICK o \in Int : o = ohCurrentBucket
      BY <1>6
    <3>3. o = n - Candles!Epoch /\ o + 1 <= b /\ Len(g) = b - (o + 1) /\ Len(f) = n + 1
      BY <2>1, <2>4, <2>5, <2>7, <3>2
    <3>. QED BY <3>1, <3>3, <2>10, <1>5
  <2>12. ASSUME NEW k \in 1 .. m PROVE c[k] = Candles!Reference(ohTape, k - 1 - Candles!Before(ohRolled, k), Candles!Before(ohRolled, k))
    <3>1. CASE k <= n
      <4>1. k \in 1 .. n /\ k \in 1 .. Len(f)
        BY <3>1, <2>4
      <4>2. c[k] = f[k]
        BY <4>1, <2>8
      <4>. QED BY <4>1, <4>2, <2>1, <2>4, <1>3 DEF Candles!Done
    <3>2. CASE k = n + 1
      <4>1. c[k] = ohCurrent
        BY <3>2, <2>4, <2>8
      <4>2. Candles!Before(ohRolled, k) = Candles!Epoch /\ k - 1 - Candles!Epoch = ohCurrentBucket
        BY <3>2, <2>1, <1>5
      <4>. QED BY <4>1, <4>2, <2>1
    <3>3. CASE k > n + 1
      <4>1. PICK i \in 1 .. Len(g) : k = n + 1 + i
        BY <3>3, <2>1, <2>7, <2>10, <1>5
      <4>2. c[k] = g[i]
        BY <4>1, <2>4, <2>8
      <4>3. g[i] = Candles!Empty(ohCurrentBucket + 1 + i - 1)
        BY <4>1, <2>7
      <4>4. Candles!Before(ohRolled, k) = Candles!Epoch
        BY <3>3, <1>5
      <4>5. PICK d \in Int : d = ohCurrentBucket + i /\ d > ohCurrentBucket
        BY <4>1, <2>1
      <4>6. ohCurrentBucket + 1 + i - 1 = d /\ k - 1 - Candles!Epoch = d
        BY <4>1, <4>5, <2>1, <1>5
      <4>7. Candles!Reference(ohTape, d, Candles!Epoch) = Candles!Empty(d)
        BY <4>5, <2>2
      <4>. QED BY <4>2, <4>3, <4>4, <4>6, <4>7
    <3>. QED BY <3>1, <3>2, <3>3
  <2>13. ohCurrent' = Candles!Fold(Candles!Reference(ohTape, b, Candles!Epoch), Candles!Mine(ohTape, b, Candles!Epoch) # {}, price, qty)
    BY <1>12, <2>2, <2>5
  <2>14. ohCurrent' \in Candles!Candle
    <3>1. Candles!Empty(b) \in Candles!Candle
      BY CandleEmptyType
    <3>. QED BY <3>1, <1>7, <1>12, CandleFoldType
  <2>15. n <= m /\ b = m - Candles!Epoch /\ ohCurrentBucket <= b
    BY <2>1, <2>5, <2>10, <2>11, <1>5
  <2>. QED BY <1>8, <1>12, <2>9, <2>11, <2>12, <2>13, <2>14, <2>15
<1>. QED BY <1>1, <1>9, <1>10, <1>11, <1>12 DEF Candles!add_trade

(* Every step keeps the invariant.                                         *)
LEMMA CandlesInductive == Candles!Sized /\ Candles!IInv /\ [Candles!Next]_Candles!vars => Candles!IInv'
<1>. SUFFICES ASSUME Candles!Sized, Candles!IInv, [Candles!Next]_Candles!vars PROVE Candles!IInv'
  OBVIOUS
<1>1. CASE UNCHANGED Candles!vars
  BY <1>1 DEF Candles!vars, Candles!IInv, Candles!OpenExact, Candles!Epoch
<1>2. CASE Candles!Next
  BY <1>2, CandleTradeKeeps, CandleRollKeeps DEF Candles!Next
<1>. QED BY <1>1, <1>2

-----------------------------------------------------------------------------
(* OrderBook.                                                              *)

Book == INSTANCE OrderBook WITH Ids <- BookIds, Prices <- BookPrices,
        Qtys <- BookQtys, by_id_ <- bById, book <- bBook, want <- bWant,
        from <- bFrom, stamp <- bStamp, adds <- bAdds

(* Book's finite sets are those that the theorems on finite sets are       *)
(* about.                                                                  *)
LEMMA BookCardinality ==
  ASSUME NEW S
  PROVE  Book!Cardinality(S) = Cardinality(S) /\ (Book!IsFiniteSet(S) <=> IsFiniteSet(S))
BY DEF Book!Cardinality, Cardinality, Book!IsFiniteSet, IsFiniteSet

(* The least of a set of numbers is one of them.                           *)
LEMMA BookFirstIn ==
  ASSUME NEW T, T \subseteq Nat, T # {}
  PROVE  Book!Min(T) \in T
BY FirstIn DEF Book!Min, Min

(* A sequence without its i-th element.                                    *)
LEMMA BookRemoved ==
  ASSUME NEW S, NEW s \in Seq(S), NEW i \in 1 .. Len(s)
  PROVE  /\ Book!RemoveAt(s, i) \in Seq(S)
         /\ Len(Book!RemoveAt(s, i)) = Len(s) - 1
         /\ \A k \in 1 .. Len(s) - 1 : Book!RemoveAt(s, i)[k] = IF k < i THEN s[k] ELSE s[k + 1]
<1>1. Book!RemoveAt(s, i) = RemoveAt(s, i)
  BY DEF Book!RemoveAt, RemoveAt
<1> QED
  BY <1>1, Removed

(* The greatest and the least of a finite set of numbers.                  *)
LEMMA BookExtremes ==
  ASSUME NEW S \in SUBSET Int, Book!IsFiniteSet(S), S # {}
  PROVE  /\ Book!Max(S) \in S /\ \A y \in S : y <= Book!Max(S)
         /\ Book!Min(S) \in S /\ \A y \in S : Book!Min(S) <= y
<1>1. Book!Max(S) = Max(S) /\ Book!Min(S) = Min(S)
  BY DEF Book!Max, Max, Book!Min, Min
<1> QED
  BY <1>1, Extremes, BookCardinality

(* The less of two numbers.                                                *)
LEMMA BookMinOfTwo ==
  ASSUME NEW a \in Int, NEW b \in Int
  PROVE  Book!Min({a, b}) = IF a <= b THEN a ELSE b
<1>1. Book!Min({a, b}) = Min({a, b})
  BY DEF Book!Min, Min
<1> QED
  BY <1>1, MinOfTwo

(* A new book.                                                             *)
LEMMA BookInit == Book!Init => Book!IInv
BY DEF Book!Init, Book!IInv, Book!WellTyped, Book!Stamped, Book!Agree, Book!NoOrders, Book!NoLevels, Book!Order

(* What the invariant promises: the queues and the index hold the same     *)
(* orders, the queues in the order of arrival.                             *)
LEMMA BookImplied == Book!IInv => Book!IndexesAgree
<1>. SUFFICES ASSUME Book!IInv, NEW s \in Book!Sides, NEW p \in BookPrices
              PROVE  /\ Book!ToSet(bBook[s][p]) = {i \in DOMAIN bById : bById[i].side = s /\ bById[i].price = p}
                     /\ \A j, k \in DOMAIN bBook[s][p] : j < k => bStamp[bBook[s][p][j]] < bStamp[bBook[s][p][k]]
  BY DEF Book!IndexesAgree
<1>1. Book!Agree(s, p) /\ bBook[s][p] \in Seq(BookIds)
  BY DEF Book!IInv, Book!WellTyped
<1>2. PICK b \in Seq(BookIds) : b = bBook[s][p]
  BY <1>1
<1>3. /\ \A j \in 1 .. Len(b) : b[j] \in DOMAIN bById /\ bById[b[j]].side = s /\ bById[b[j]].price = p
      /\ \A i \in DOMAIN bById : bById[i].side = s /\ bById[i].price = p => \E j \in 1 .. Len(b) : b[j] = i
      /\ \A j, k \in 1 .. Len(b) : j < k => bStamp[b[j]] < bStamp[b[k]]
  BY ONLY <1>1, <1>2 DEF Book!Agree
<1>4. DOMAIN b = 1 .. Len(b)
  BY ONLY b \in Seq(BookIds)
<1>5. Book!ToSet(b) = {i \in DOMAIN bById : bById[i].side = s /\ bById[i].price = p}
  BY ONLY <1>3, <1>4 DEF Book!ToSet
<1>. QED BY ONLY <1>2, <1>3, <1>4, <1>5

(* Where a queue is changed.                                               *)
LEMMA BookQueueSet ==
  ASSUME NEW b \in [Book!Sides -> [BookPrices -> Seq(BookIds)]], NEW s \in Book!Sides, NEW p \in BookPrices, NEW q \in Seq(BookIds)
  PROVE  /\ [b EXCEPT ![s][p] = q] \in [Book!Sides -> [BookPrices -> Seq(BookIds)]]
         /\ \A a \in Book!Sides, r \in BookPrices : [b EXCEPT ![s][p] = q][a][r] = IF a = s /\ r = p THEN q ELSE b[a][r]
<1>1. PICK l \in [BookPrices -> Seq(BookIds)] : l = [b[s] EXCEPT ![p] = q]
  OBVIOUS
<1>2. [b EXCEPT ![s][p] = q] = [b EXCEPT ![s] = l]
  BY <1>1
<1>3. \A r \in BookPrices : l[r] = IF r = p THEN q ELSE b[s][r]
  BY <1>1
<1>. QED BY <1>2, <1>3

(* What the index has of an order.                                         *)
LEMMA BookOrderOf ==
  ASSUME Book!WellTyped, NEW i \in DOMAIN bById
  PROVE  i \in BookIds /\ bById[i] \in Book!Order /\ bById[i].side \in Book!Sides /\ bById[i].price \in BookPrices /\ bById[i].qty \in Int
BY DEF Book!WellTyped, Book!Order

(* add_order() appends to the queue and to the index.                      *)
LEMMA BookAddKeeps ==
  ASSUME Book!IInv, Book!Sized, NEW i \in BookIds, NEW s \in Book!Sides, NEW p \in BookPrices, NEW q \in BookQtys, Book!add_order(i, s, p, q)
  PROVE  Book!IInv'
<1>1. Book!WellTyped /\ Book!Stamped
  BY DEF Book!IInv
<1>2. PICK o \in Book!Order : o = [side |-> s, price |-> p, qty |-> q] /\ o.side = s /\ o.price = p
  <2>1. q \in Int
    BY DEF Book!Sized
  <2>2. [side |-> s, price |-> p, qty |-> q] \in Book!Order
    BY <2>1 DEF Book!Order
  <2>. QED BY <2>2
<1>3. /\ i \notin DOMAIN bById /\ bById' = [x \in DOMAIN bById \cup {i} |-> IF x = i THEN o ELSE bById[x]]
      /\ bBook' = [bBook EXCEPT ![s][p] = Append(@, i)]
      /\ bStamp' = [bStamp EXCEPT ![i] = bAdds] /\ bAdds' = bAdds + 1 /\ bWant' = bWant /\ bFrom' = bFrom
  BY <1>2 DEF Book!add_order
<1>4. /\ DOMAIN bById' = DOMAIN bById \cup {i} /\ bById'[i] = o
      /\ \A x \in DOMAIN bById : bById'[x] = bById[x] /\ x # i /\ x \in BookIds
  BY <1>1, <1>3 DEF Book!WellTyped
<1>5. bById' \in [DOMAIN bById' -> Book!Order] /\ DOMAIN bById' \subseteq BookIds
  BY <1>1, <1>3, <1>4 DEF Book!WellTyped
<1>6. PICK l \in Seq(BookIds) : l = bBook[s][p]
  BY <1>1 DEF Book!WellTyped
<1>7. PICK m \in Seq(BookIds) : m = Append(l, i)
  <2>1. Append(l, i) \in Seq(BookIds)
    OBVIOUS
  <2>. QED BY <2>1
<1>8. Len(m) = Len(l) + 1 /\ m[Len(l) + 1] = i /\ Len(l) \in Nat /\ \A j \in 1 .. Len(l) : m[j] = l[j]
  BY <1>7
<1>9. bBook' = [bBook EXCEPT ![s][p] = m]
  BY <1>3, <1>6, <1>7
<1>10. /\ bBook' \in [Book!Sides -> [BookPrices -> Seq(BookIds)]]
       /\ \A a \in Book!Sides, r \in BookPrices : bBook'[a][r] = IF a = s /\ r = p THEN m ELSE bBook[a][r]
  BY <1>1, <1>9, BookQueueSet DEF Book!WellTyped
<1>11. bStamp' \in [BookIds -> Nat] /\ bStamp'[i] = bAdds /\ \A x \in BookIds : x # i => bStamp'[x] = bStamp[x]
  BY <1>1, <1>3 DEF Book!WellTyped
<1>12. Book!WellTyped'
  BY <1>1, <1>3, <1>5, <1>10, <1>11 DEF Book!WellTyped
<1>13. Book!Stamped'
  BY <1>1, <1>3, <1>4, <1>11 DEF Book!Stamped, Book!WellTyped
<1>14. ASSUME NEW a \in Book!Sides, NEW r \in BookPrices PROVE Book!Agree(a, r)'
  <2>1. Book!Agree(a, r)
    BY DEF Book!IInv
  <2>2. CASE a = s /\ r = p
    <3>1. bBook'[a][r] = m /\ bBook[a][r] = l
      BY <2>2, <1>6, <1>10
    <3>2. ASSUME NEW j \in 1 .. Len(m) PROVE m[j] \in DOMAIN bById' /\ bById'[m[j]].side = a /\ bById'[m[j]].price = r
      BY <2>1, <2>2, <3>1, <1>2, <1>4, <1>8 DEF Book!Agree
    <3>3. ASSUME NEW x \in DOMAIN bById', bById'[x].side = a, bById'[x].price = r
          PROVE  \E j \in 1 .. Len(m) : m[j] = x
      <4>1. CASE x = i
        BY <4>1, <1>8
      <4>2. CASE x # i
        <5>1. PICK j \in 1 .. Len(l) : l[j] = x
          BY <4>2, <3>3, <3>1, <2>1, <1>4 DEF Book!Agree
        <5>. QED BY <5>1, <1>8
      <4>. QED BY <4>1, <4>2
    <3>4. ASSUME NEW j \in 1 .. Len(m), NEW k \in 1 .. Len(m), j < k PROVE bStamp'[m[j]] < bStamp'[m[k]]
      <4>1. j \in 1 .. Len(l) /\ m[j] = l[j] /\ l[j] \in DOMAIN bById
        BY <3>4, <3>1, <2>1, <1>8 DEF Book!Agree
      <4>2. bStamp'[m[j]] = bStamp[l[j]] /\ bStamp[l[j]] < bAdds
        BY <4>1, <1>1, <1>4, <1>11 DEF Book!Stamped
      <4>3. CASE k = Len(l) + 1
        BY <4>2, <4>3, <1>8, <1>11
      <4>4. CASE k # Len(l) + 1
        <5>1. k \in 1 .. Len(l) /\ m[k] = l[k] /\ l[k] \in DOMAIN bById
          BY <4>4, <3>1, <2>1, <1>8 DEF Book!Agree
        <5>2. bStamp'[m[k]] = bStamp[l[k]]
          BY <5>1, <1>4, <1>11
        <5>. QED BY <4>1, <4>2, <5>1, <5>2, <3>1, <3>4, <2>1 DEF Book!Agree
      <4>. QED BY <4>3, <4>4
    <3>. QED BY <3>1, <3>2, <3>3, <3>4 DEF Book!Agree
  <2>3. CASE ~(a = s /\ r = p)
    <3>1. bBook'[a][r] = bBook[a][r]
      BY <2>3, <1>10
    <3>2. ASSUME NEW j \in 1 .. Len(bBook[a][r])
          PROVE  /\ bBook[a][r][j] \in DOMAIN bById /\ bById'[bBook[a][r][j]] = bById[bBook[a][r][j]]
                 /\ bStamp'[bBook[a][r][j]] = bStamp[bBook[a][r][j]]
      BY <2>1, <1>4, <1>11 DEF Book!Agree
    <3>3. \A x \in DOMAIN bById' : bById'[x].side = a /\ bById'[x].price = r => x \in DOMAIN bById /\ bById'[x] = bById[x]
      BY <1>2, <1>4, <2>3
    <3>4. ASSUME NEW j \in 1 .. Len(bBook'[a][r])
          PROVE  LET x == bBook'[a][r][j] IN x \in DOMAIN bById' /\ bById'[x].side = a /\ bById'[x].price = r
      BY <2>1, <3>1, <3>2, <1>4 DEF Book!Agree
    <3>5. ASSUME NEW x \in DOMAIN bById', bById'[x].side = a, bById'[x].price = r
          PROVE  \E j \in 1 .. Len(bBook'[a][r]) : bBook'[a][r][j] = x
      <4>1. x \in DOMAIN bById /\ bById[x].side = a /\ bById[x].price = r
        BY <3>3, <3>5
      <4>. QED BY <2>1, <3>1, <4>1 DEF Book!Agree
    <3>6. ASSUME NEW j \in 1 .. Len(bBook'[a][r]), NEW k \in 1 .. Len(bBook'[a][r]), j < k
          PROVE  bStamp'[bBook'[a][r][j]] < bStamp'[bBook'[a][r][k]]
      BY <2>1, <3>1, <3>2, <3>6 DEF Book!Agree
    <3>. QED BY <3>4, <3>5, <3>6 DEF Book!Agree
  <2>. QED BY <2>2, <2>3
<1>. QED BY <1>12, <1>13, <1>14 DEF Book!IInv

(* An order leaves its queue and the index.                                *)
LEMMA BookRemoveKeeps ==
  ASSUME Book!IInv, Book!Sized, NEW i \in DOMAIN bById, bById' = Book!Without(i), UNCHANGED <<bStamp, bAdds>>,
         bWant' \in Int, bFrom' \in Book!Sides \cup {"none"},
         NEW s \in Book!Sides, NEW p \in BookPrices, bById[i].side = s, bById[i].price = p,
         NEW l \in Seq(BookIds), l = bBook[s][p], NEW n \in 1 .. Len(l), l[n] = i, NEW m \in Seq(BookIds),
         bBook' = [bBook EXCEPT ![s][p] = m], Drops(m, l, n)
  PROVE  Book!IInv'
<1>1. Book!WellTyped /\ Book!Stamped /\ Book!Agree(s, p)
  BY DEF Book!IInv
<1>2. l = bBook[s][p]
  OBVIOUS
<1>3. /\ DOMAIN bById' = DOMAIN bById \ {i} /\ \A x \in DOMAIN bById \ {i} : bById'[x] = bById[x]
      /\ bById' \in [DOMAIN bById' -> Book!Order]
  BY <1>1 DEF Book!Without, Book!Restrict, Book!WellTyped
<1>4. /\ bBook' \in [Book!Sides -> [BookPrices -> Seq(BookIds)]]
      /\ \A a \in Book!Sides, r \in BookPrices : bBook'[a][r] = IF a = s /\ r = p THEN m ELSE bBook[a][r]
  BY <1>1, BookQueueSet DEF Book!WellTyped
<1>5. Book!WellTyped'
  BY <1>1, <1>3, <1>4 DEF Book!WellTyped
<1>6. Book!Stamped'
  BY <1>1, <1>3 DEF Book!Stamped
<1>7. Len(l) \in Nat /\ n \in 1 .. Len(l) /\ Len(m) = Len(l) - 1 /\ \A k \in 1 .. Len(l) - 1 : m[k] = IF k < n THEN l[k] ELSE l[k + 1]
  BY DEF Drops
<1>. DEFINE f(k) == IF k < n THEN k ELSE k + 1
<1>8. \A k \in 1 .. Len(m) : f(k) \in 1 .. Len(l) /\ f(k) # n /\ m[k] = l[f(k)]
  BY <1>7
<1>9. \A j, k \in 1 .. Len(m) : j < k => f(j) < f(k)
  BY <1>7
<1>10. \A x \in 1 .. Len(l) : x # n => \E k \in 1 .. Len(m) : f(k) = x
  <2>. SUFFICES ASSUME NEW x \in 1 .. Len(l), x # n PROVE \E k \in 1 .. Len(m) : f(k) = x
    OBVIOUS
  <2>. DEFINE y == IF x < n THEN x ELSE x - 1
  <2>1. y \in 1 .. Len(m) /\ f(y) = x
    BY <1>7
  <2>. QED BY <2>1
<1>. HIDE DEF f
<1>11. \A x \in 1 .. Len(l) : l[x] \in DOMAIN bById /\ bById[l[x]].side = s /\ bById[l[x]].price = p
  BY <1>1, <1>2 DEF Book!Agree
<1>12. \A x \in 1 .. Len(l) : bStamp[l[x]] \in Nat
  BY <1>1, <1>2 DEF Book!WellTyped
<1>13. \A x, y \in 1 .. Len(l) : x < y => bStamp[l[x]] < bStamp[l[y]]
  BY <1>1, <1>2 DEF Book!Agree
<1>14. \A x \in 1 .. Len(l) : x # n => l[x] # i
  <2>. SUFFICES ASSUME NEW x \in 1 .. Len(l), x # n, l[x] = l[n] PROVE FALSE
    BY <1>2
  <2>1. x < n \/ n < x
    BY <1>7
  <2>. QED BY <2>1, <1>7, <1>12, <1>13
<1>15. ASSUME NEW a \in Book!Sides, NEW r \in BookPrices PROVE Book!Agree(a, r)'
  <2>1. Book!Agree(a, r)
    BY DEF Book!IInv
  <2>2. CASE a = s /\ r = p
    <3>1. bBook'[a][r] = m /\ bBook[a][r] = l
      BY <2>2, <1>2, <1>4
    <3>2. ASSUME NEW j \in 1 .. Len(m) PROVE m[j] \in DOMAIN bById' /\ bById'[m[j]].side = a /\ bById'[m[j]].price = r
      BY <2>2, <1>3, <1>8, <1>11, <1>14
    <3>3. ASSUME NEW x \in DOMAIN bById', bById'[x].side = a, bById'[x].price = r
          PROVE  \E j \in 1 .. Len(m) : m[j] = x
      <4>1. PICK y \in 1 .. Len(l) : l[y] = x
        BY <3>1, <3>3, <2>1, <1>3 DEF Book!Agree
      <4>2. y # n
        BY <4>1, <3>3, <1>2, <1>3
      <4>3. PICK j \in 1 .. Len(m) : f(j) = y
        BY <4>2, <1>10
      <4>. QED BY <4>1, <4>3, <1>8
    <3>4. ASSUME NEW j \in 1 .. Len(m), NEW k \in 1 .. Len(m), j < k PROVE bStamp[m[j]] < bStamp[m[k]]
      BY <3>4, <1>8, <1>9, <1>13
    <3>. QED BY <3>1, <3>2, <3>3, <3>4 DEF Book!Agree
  <2>3. CASE ~(a = s /\ r = p)
    <3>1. bBook'[a][r] = bBook[a][r]
      BY <2>3, <1>4
    <3>2. ASSUME NEW j \in 1 .. Len(bBook[a][r])
          PROVE  /\ bBook[a][r][j] \in DOMAIN bById' /\ bById'[bBook[a][r][j]] = bById[bBook[a][r][j]]
      <4>1. /\ bBook[a][r][j] \in DOMAIN bById
            /\ bById[bBook[a][r][j]].side = a /\ bById[bBook[a][r][j]].price = r
        BY <2>1 DEF Book!Agree
      <4>2. bBook[a][r][j] # i
        BY <4>1, <2>3
      <4>. QED BY <4>1, <4>2, <1>3
    <3>3. PICK b : b = bBook[a][r]
      OBVIOUS
    <3>4. /\ \A j \in 1 .. Len(b) : b[j] \in DOMAIN bById /\ bById[b[j]].side = a /\ bById[b[j]].price = r
          /\ \A x \in DOMAIN bById : bById[x].side = a /\ bById[x].price = r => \E j \in 1 .. Len(b) : b[j] = x
          /\ \A j, k \in 1 .. Len(b) : j < k => bStamp[b[j]] < bStamp[b[k]]
      BY ONLY <2>1, <3>3 DEF Book!Agree
    <3>5. \A j \in 1 .. Len(b) : b[j] \in DOMAIN bById' /\ bById'[b[j]].side = a /\ bById'[b[j]].price = r
      BY ONLY <3>2, <3>3, <3>4
    <3>6. \A x \in DOMAIN bById' : bById'[x].side = a /\ bById'[x].price = r => \E j \in 1 .. Len(b) : b[j] = x
      BY ONLY <3>4, <1>3
    <3>7. bBook'[a][r] = b /\ bStamp' = bStamp
      BY <3>1, <3>3
    <3>. QED BY ONLY <3>4, <3>5, <3>6, <3>7 DEF Book!Agree
  <2>. QED BY <2>2, <2>3
<1>. QED BY <1>5, <1>6, <1>15 DEF Book!IInv

(* An order changes its quantity only.                                     *)
LEMMA BookResizeKeeps ==
  ASSUME Book!IInv, Book!Sized, NEW i \in DOMAIN bById, NEW q \in Int, bById' = [bById EXCEPT ![i].qty = q],
         UNCHANGED <<bBook, bStamp, bAdds>>, bWant' \in Int, bFrom' \in Book!Sides \cup {"none"}
  PROVE  Book!IInv'
<1>1. Book!WellTyped /\ Book!Stamped /\ bById[i] \in Book!Order
  BY BookOrderOf DEF Book!IInv
<1>2. PICK o \in Book!Order : o = [bById[i] EXCEPT !.qty = q] /\ o.side = bById[i].side /\ o.price = bById[i].price
  <2>1. PICK c \in Book!Order : c = bById[i]
    BY <1>1
  <2>2. [c EXCEPT !.qty = q] \in Book!Order
    BY DEF Book!Order
  <2>3. [c EXCEPT !.qty = q].side = c.side
    BY DEF Book!Order
  <2>4. [c EXCEPT !.qty = q].price = c.price
    BY DEF Book!Order
  <2>. QED BY <2>1, <2>2, <2>3, <2>4
<1>3. bById' = [bById EXCEPT ![i] = o]
  BY <1>2
<1>4. DOMAIN bById' = DOMAIN bById /\ bById' \in [DOMAIN bById' -> Book!Order]
  BY <1>1, <1>3 DEF Book!WellTyped
<1>5. \A x \in DOMAIN bById : bById'[x].side = bById[x].side /\ bById'[x].price = bById[x].price
  BY <1>1, <1>2, <1>3 DEF Book!WellTyped
<1>6. Book!WellTyped'
  BY <1>1, <1>4 DEF Book!WellTyped
<1>7. Book!Stamped'
  BY <1>1, <1>4 DEF Book!Stamped
<1>8. ASSUME NEW a \in Book!Sides, NEW r \in BookPrices PROVE Book!Agree(a, r)'
  <2>1. Book!Agree(a, r)
    BY DEF Book!IInv
  <2>. QED BY <2>1, <1>4, <1>5 DEF Book!Agree
<1>. QED BY <1>6, <1>7, <1>8 DEF Book!IInv

(* cancel_order() takes the order off both.                                *)
LEMMA BookCancelKeeps ==
  ASSUME Book!IInv, Book!Sized, NEW i \in BookIds, Book!cancel_order(i)
  PROVE  Book!IInv'
<1>1. Book!WellTyped /\ i \in DOMAIN bById
  BY DEF Book!IInv, Book!cancel_order
<1>2. PICK s \in Book!Sides, p \in BookPrices : s = bById[i].side /\ p = bById[i].price
  BY <1>1, BookOrderOf
<1>3. Book!Agree(s, p)
  BY DEF Book!IInv
<1>4. PICK l \in Seq(BookIds) : l = bBook[s][p]
  BY <1>1 DEF Book!WellTyped
<1>5. PICK j \in 1 .. Len(l) : l[j] = i
  BY <1>1, <1>2, <1>3, <1>4 DEF Book!Agree
<1>. DEFINE T == {k \in 1 .. Len(l) : l[k] = i}
<1>6. Book!QueuePos(i, l) = Book!Min(T)
  BY <1>5 DEF Book!QueuePos, Book!SelectInSeq
<1>7. Book!Min(T) \in T
  <2>1. T \subseteq Nat /\ T # {}
    BY <1>5
  <2>. QED BY <2>1, BookFirstIn
<1>8. PICK n \in 1 .. Len(l) : n = Book!QueuePos(i, l) /\ l[n] = i
  BY <1>6, <1>7
<1>9. Book!RemoveAt(l, n) \in Seq(BookIds) /\ Drops(Book!RemoveAt(l, n), l, n)
  BY BookRemoved DEF Drops
<1>10. bBook' = [bBook EXCEPT ![s][p] = Book!RemoveAt(l, n)]
  BY <1>2, <1>4, <1>8 DEF Book!cancel_order
<1>11. bById' = Book!Without(i) /\ UNCHANGED <<bStamp, bAdds>> /\ bWant' \in Int /\ bFrom' \in Book!Sides \cup {"none"}
  BY <1>1 DEF Book!cancel_order, Book!WellTyped
<1>12. PICK m \in Seq(BookIds) : Drops(m, l, n) /\ bBook' = [bBook EXCEPT ![s][p] = m]
  BY ONLY <1>9, <1>10
<1>13. i \in DOMAIN bById /\ bById[i].side = s /\ bById[i].price = p /\ l = bBook[s][p] /\ l[n] = i
  BY ONLY <1>1, <1>2, <1>4, <1>8
<1>. QED BY ONLY <1>11, <1>12, <1>13, Book!IInv, Book!Sized, s \in Book!Sides, p \in BookPrices, l \in Seq(BookIds),
              n \in 1 .. Len(l), m \in Seq(BookIds), BookRemoveKeeps, ZenonT(30)

(* One round of match(): the head of the best level trades, and leaves     *)
(* when nothing is left of it.                                             *)
LEMMA BookTakeKeeps ==
  ASSUME Book!IInv, Book!Sized, Book!Take
  PROVE  Book!IInv'
<1>. DEFINE level == Book!Best(bFrom)
            id == Head(bBook[bFrom][level])
            take == Book!Min({bWant, bById[id].qty})
<1>1. Book!WellTyped
  BY DEF Book!IInv
<1>2. PICK s \in Book!Sides : s = bFrom /\ Book!Levels(s) # {}
  BY <1>1 DEF Book!Take, Book!Idle, Book!WellTyped
<1>3. Book!Levels(s) \in SUBSET Int /\ Book!IsFiniteSet(Book!Levels(s))
  BY FS_Subset, BookCardinality DEF Book!Sized, Book!Levels
<1>4. Book!Best(s) \in Book!Levels(s)
  BY <1>2, <1>3, BookExtremes DEF Book!Best
<1>5. PICK p \in BookPrices : p = level /\ bBook[s][p] # <<>>
  BY <1>2, <1>4 DEF Book!Levels
<1>6. PICK l \in Seq(BookIds) : l = bBook[s][p] /\ l # <<>>
  BY <1>1, <1>5 DEF Book!WellTyped
<1>7. Head(l) = l[1] /\ Len(l) \in Nat /\ 1 \in 1 .. Len(l) /\ Len(Tail(l)) = Len(l) - 1 /\ Tail(l) \in Seq(BookIds)
      /\ \A k \in 1 .. Len(l) - 1 : Tail(l)[k] = l[k + 1]
  BY <1>6
<1>8. Book!Agree(s, p)
  BY DEF Book!IInv
<1>9. PICK i \in DOMAIN bById : i = id /\ i = l[1] /\ bById[i].side = s /\ bById[i].price = p
  BY <1>2, <1>5, <1>6, <1>7, <1>8 DEF Book!Agree
<1>10. bWant \in Int /\ bById[i].qty \in Int /\ bFrom \in Book!Sides \cup {"none"}
  BY <1>1, BookOrderOf DEF Book!WellTyped
<1>11. PICK t \in Int : t = take
  BY <1>9, <1>10, BookMinOfTwo
<1>12. bWant' \in Int /\ bFrom' \in Book!Sides \cup {"none"} /\ UNCHANGED <<bStamp, bAdds>>
  BY <1>10, <1>11 DEF Book!Take
<1>13. CASE bById[i].qty = t
  <2>1. bById' = Book!Without(i) /\ bBook' = [bBook EXCEPT ![s][p] = Tail(l)]
    BY <1>2, <1>5, <1>6, <1>9, <1>11, <1>13 DEF Book!Take
  <2>2. \A k \in 1 .. Len(l) - 1 : Tail(l)[k] = IF k < 1 THEN l[k] ELSE l[k + 1]
    BY <1>7
  <2>3. PICK n \in 1 .. Len(l) : n = 1
    BY <1>7
  <2>4. l[n] = i /\ Drops(Tail(l), l, n)
    BY <2>2, <2>3, <1>7, <1>9 DEF Drops
  <2>. QED BY <2>1, <2>4, <1>6, <1>7, <1>9, <1>12, BookRemoveKeeps
<1>14. CASE bById[i].qty # t
  <2>1. bById' = [bById EXCEPT ![i].qty = @ - t] /\ bBook' = bBook
    BY <1>2, <1>5, <1>6, <1>9, <1>11, <1>14 DEF Book!Take
  <2>2. PICK q \in Int : q = bById[i].qty - t
    BY <1>10
  <2>3. bById' = [bById EXCEPT ![i].qty = q]
    BY <2>1, <2>2
  <2>. QED BY <2>1, <2>3, <1>12, BookResizeKeeps
<1>. QED BY <1>13, <1>14

(* Every step keeps the invariant.                                         *)
LEMMA BookInductive == Book!Sized /\ Book!IInv /\ [Book!Next]_Book!vars => Book!IInv'
<1>. SUFFICES ASSUME Book!Sized, Book!IInv, [Book!Next]_Book!vars PROVE Book!IInv'
  OBVIOUS
<1>0. Book!WellTyped /\ Book!Stamped
  BY DEF Book!IInv
<1>1. ASSUME UNCHANGED <<bById, bBook, bStamp, bAdds>>, bWant' \in Int, bFrom' \in Book!Sides \cup {"none"} PROVE Book!IInv'
  BY <1>1 DEF Book!IInv, Book!WellTyped, Book!Stamped, Book!Agree
<1>2. CASE UNCHANGED Book!vars
  BY <1>0, <1>1, <1>2 DEF Book!vars, Book!WellTyped
<1>3. ASSUME NEW i \in BookIds, NEW q \in BookQtys \cup {0}, Book!modify_order(i, q) PROVE Book!IInv'
  <2>1. q \in Int /\ i \in DOMAIN bById /\ bById' = [bById EXCEPT ![i].qty = q] /\ UNCHANGED <<bBook, bStamp, bAdds>>
    BY <1>3 DEF Book!modify_order, Book!Sized
  <2>2. bWant' \in Int /\ bFrom' \in Book!Sides \cup {"none"}
    BY <1>0, <1>3 DEF Book!modify_order, Book!WellTyped
  <2>. QED BY <2>1, <2>2, BookResizeKeeps
<1>4. ASSUME NEW s \in Book!Sides, NEW q \in BookQtys, Book!MarketOrder(s, q) PROVE Book!IInv'
  BY <1>0, <1>1, <1>4 DEF Book!MarketOrder, Book!Sides, Book!Sized
<1>5. CASE Book!Done
  BY <1>0, <1>1, <1>5 DEF Book!Done
<1>6. CASE Book!clear
  BY <1>0, <1>6 DEF Book!clear, Book!IInv, Book!WellTyped, Book!Stamped, Book!Agree, Book!NoOrders, Book!NoLevels, Book!Order
<1>. QED BY <1>2, <1>3, <1>4, <1>5, <1>6, BookAddKeeps, BookCancelKeeps, BookTakeKeeps DEF Book!Next

-----------------------------------------------------------------------------
(* L2Book.                                                                 *)

Depth == INSTANCE L2Book WITH Prices <- DepthPrices, Qtys <- DepthQtys,
        has_snapshot_ <- lHasSnapshot, levels <- lLevels, market <- lMarket,
        lost <- lLost

(* A book that waits for its snapshot.                                     *)
LEMMA DepthInit == Depth!Init => Depth!IInv
BY DEF Depth!Init, Depth!IInv, Depth!InStep

(* Every snapshot, update and loss keeps the book in step with the market, *)
(* or shows that it is not.                                                *)
LEMMA DepthInductive == Depth!IInv /\ [Depth!Next]_Depth!vars => Depth!IInv'
<1>. SUFFICES ASSUME Depth!IInv, [Depth!Next]_Depth!vars PROVE Depth!IInv'
  OBVIOUS
<1>1. CASE UNCHANGED Depth!vars
  BY <1>1 DEF Depth!vars, Depth!IInv, Depth!InStep
<1>2. ASSUME NEW s, NEW p, NEW q, Depth!Deliver(s, p, q) PROVE Depth!IInv'
  <2>1. CASE lHasSnapshot
    BY <2>1, <1>2 DEF Depth!Deliver, Depth!apply_update, Depth!IInv, Depth!InStep
  <2>2. CASE ~lHasSnapshot
    BY <2>2, <1>2 DEF Depth!Deliver, Depth!apply_update, Depth!IInv, Depth!InStep
  <2>. QED BY <2>1, <2>2
<1>3. ASSUME NEW s, NEW p, NEW q, Depth!Lose(s, p, q) PROVE Depth!IInv'
  BY <1>3 DEF Depth!Lose, Depth!IInv, Depth!InStep
<1>4. CASE Depth!Resync
  BY <1>4 DEF Depth!Resync, Depth!apply_snapshot, Depth!IInv, Depth!InStep
<1>. QED BY <1>1, <1>2, <1>3, <1>4 DEF Depth!Next
=============================================================================
