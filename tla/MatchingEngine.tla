--------------------------- MODULE MatchingEngine ---------------------------
(***************************************************************************)
(* The price-time book of domain/06_matching_engine.  A level that is      *)
(* empty is one the map does not have.  add_order() is taken apart into    *)
(* the turns of its loop.                                                  *)
(***************************************************************************)
EXTENDS Integers, Sequences, SequencesExt, FiniteSetsExt, Functions

CONSTANTS Ids, Prices, Qtys   \* of the orders; ids are used once

Sides == {"Buy", "Sell"}
Opposite(s) == IF s = "Buy" THEN "Sell" ELSE "Buy"

VARIABLES
  book,       \* book["Buy"] is bids_, book["Sell"] is asks_
  index_,
  order,      \* the order of the add_order() in progress, none if its qty is 0
  arrived,    \* the ids in the order of their add_order() calls
  placed, filled, taken  \* quantities ordered, traded, cancelled, by id

vars == <<book, index_, order, arrived, placed, filled, taken>>

NoOrder == [id |-> 0, side |-> "Buy", price |-> 0, qty |-> 0]

Init ==
  /\ book = [s \in Sides |-> [p \in Prices |-> <<>>]]
  /\ index_ = [i \in {} |-> 0]
  /\ order = NoOrder /\ arrived = <<>>
  /\ placed = [i \in Ids |-> 0] /\ filled = [i \in Ids |-> 0] /\ taken = [i \in Ids |-> 0]

Idle == order = NoOrder

\* begin() of the side's map.
Levels(s) == {p \in Prices : book[s][p] # <<>>}
Best(s) == IF s = "Buy" THEN Max(Levels(s)) ELSE Min(Levels(s))

Crosses(o) ==
  /\ Levels(Opposite(o.side)) # {}
  /\ IF o.side = "Buy" THEN Best("Sell") <= o.price ELSE Best("Buy") >= o.price

AddOrder(i, s, p, q) ==
  /\ Idle /\ i \notin ToSet(arrived)
  /\ order' = [id |-> i, side |-> s, price |-> p, qty |-> q]
  /\ arrived' = Append(arrived, i) /\ placed' = [placed EXCEPT ![i] = q]
  /\ UNCHANGED <<book, index_, filled, taken>>

\* Mutant: a level that the head has left is left as well, though orders stay.
AfterFillDropsLevel(queue, fill) ==
  IF Head(queue).qty = fill THEN <<>> ELSE <<[Head(queue) EXCEPT !.qty = @ - fill]>> \o Tail(queue)

\* What a fill leaves of a queue; its head leaves when nothing is left of it.
AfterFill(queue, fill) ==
  IF Head(queue).qty = fill THEN Tail(queue)
  ELSE <<[Head(queue) EXCEPT !.qty = @ - fill]>> \o Tail(queue)

\* One turn of the sweep.
Fill ==
  LET side == Opposite(order.side)
      level == Best(side)
      head == Head(book[side][level])
      fill == Min({order.qty, head.qty}) IN
  /\ order.qty > 0 /\ Crosses(order)
  /\ book' = [book EXCEPT ![side][level] = AfterFill(@, fill)]
  /\ order' = [order EXCEPT !.qty = @ - fill]
  /\ filled' = [filled EXCEPT ![order.id] = @ + fill, ![head.id] = @ + fill]
  /\ UNCHANGED <<index_, arrived, placed, taken>>

\* What is left rests, and add_order() returns.
Rest ==
  /\ ~Idle /\ (order.qty = 0 \/ ~Crosses(order))
  /\ IF order.qty = 0 THEN UNCHANGED <<book, index_>>
     ELSE /\ book' = [book EXCEPT ![order.side][order.price] =
                        Append(@, [id |-> order.id, qty |-> order.qty])]
          /\ index_' = [i \in DOMAIN index_ \cup {order.id} |->
                          IF i = order.id THEN [side |-> order.side, price |-> order.price]
                          ELSE index_[i]]
  /\ order' = NoOrder
  /\ UNCHANGED <<arrived, placed, filled, taken>>

\* cancel_order() of an order of which there is an index entry; a filled order
\* has one too and is not in its level any more.
CancelOrder(i) ==
  /\ Idle /\ i \in DOMAIN index_
  /\ index_' = Restrict(index_, DOMAIN index_ \ {i})
  /\ LET loc == index_[i]
         queue == book[loc.side][loc.price]
         mine == {k \in DOMAIN queue : queue[k].id = i} IN
     IF mine = {} THEN UNCHANGED <<book, taken>>
     ELSE /\ book' = [book EXCEPT ![loc.side][loc.price] = RemoveAt(@, Min(mine))]
          /\ taken' = [taken EXCEPT ![i] = queue[Min(mine)].qty]
  /\ UNCHANGED <<order, arrived, placed, filled>>

Next ==
  \/ \E i \in Ids, s \in Sides, p \in Prices, q \in Qtys : AddOrder(i, s, p, q)
  \/ Fill
  \/ Rest
  \/ \E i \in Ids : CancelOrder(i)

Spec == Init /\ [][Next]_vars

-----------------------------------------------------------------------------
Entries(s, p) == ToSet(book[s][p])
Resting(i) == {e \in UNION {Entries(s, p) : s \in Sides, p \in Prices} : e.id = i}
Arrival(i) == CHOOSE k \in DOMAIN arrived : arrived[k] = i

\* Of an order there is one entry or none.
RestingQty(i) == IF Resting(i) = {} THEN 0 ELSE (CHOOSE e \in Resting(i) : TRUE).qty

\* What was ordered is traded, cancelled, resting or still being matched.
Conserved == \A i \in ToSet(arrived) :
  /\ \A e, f \in Resting(i) : e = f
  /\ placed[i] = filled[i] + taken[i] + RestingQty(i) + (IF order.id = i THEN order.qty ELSE 0)

(* MatchingEngine::add_order: between calls no bid meets an ask, no level  *)
(* or order is empty, levels are queues by arrival, every resting order    *)
(* has the index entry that cancel_order() needs, and no quantity is lost  *)
(* or traded twice.                                                        *)
BookMatched ==
  /\ Conserved
  /\ Idle => \A b \in Levels("Buy"), a \in Levels("Sell") : b < a
  /\ \A s \in Sides, p \in Prices :
       /\ \A e \in Entries(s, p) : /\ e.qty > 0
                                   /\ e.id \in DOMAIN index_
                                   /\ index_[e.id] = [side |-> s, price |-> p]
       /\ \A j, k \in DOMAIN book[s][p] :
            j < k => Arrival(book[s][p][j].id) < Arrival(book[s][p][k].id)

-----------------------------------------------------------------------------
(* What keeps it so: the account of every order, and an uncrossed book.    *)

\* What the constants must be.
Sized == Prices \in SUBSET Int /\ IsFiniteSet(Prices) /\ Qtys \in SUBSET Nat

\* An order in a queue.
Entry == [id : Ids, qty : Nat \ {0}]

\* Where the index says an order is.
Loc == [side : Sides, price : Prices]

\* Price levels of queues.
Books == [Sides -> [Prices -> Seq(Entry)]]

\* Types.
WellTyped ==
  /\ book \in Books /\ index_ \in [DOMAIN index_ -> Loc]
  /\ order.side \in Sides /\ order.qty \in Nat
  /\ order = [id |-> order.id, side |-> order.side, price |-> order.price, qty |-> order.qty]
  /\ arrived \in Seq(Ids)
  /\ placed \in [Ids -> Nat] /\ filled \in [Ids -> Nat] /\ taken \in [Ids -> Nat]

\* Order i has come.
Arrived(i) == \E a \in 1 .. Len(arrived) : arrived[a] = i

\* What is known of an order before and after it came.
Known ==
  /\ \A a, b \in 1 .. Len(arrived) : arrived[a] = arrived[b] => a = b
  /\ \A i \in Ids : ~Arrived(i) => filled[i] = 0 /\ taken[i] = 0
  /\ \A i \in DOMAIN index_ : Arrived(i) /\ i \in Ids /\ taken[i] = 0
  /\ order.qty > 0 => /\ order.id \in Ids /\ order.price \in Prices /\ order.id \notin DOMAIN index_
                      /\ taken[order.id] = 0
                      /\ Len(arrived) > 0 /\ arrived[Len(arrived)] = order.id

\* The entries of the queue b: they have the index entry x[id] = (s, p).
Placed(b, x, s, p) ==
  \A j \in 1 .. Len(b) : b[j].id \in DOMAIN x /\ x[b[j].id].side = s /\ x[b[j].id].price = p

\* They came one after the other.
InOrder(b, came) ==
  \A j, k \in 1 .. Len(b) : j < k =>
    \A c, d \in 1 .. Len(came) : came[c] = b[j].id /\ came[d] = b[k].id => c < d

\* The queues agree with the index and with the order of arrival.
Queues == \A s \in Sides, p \in Prices : Placed(book[s][p], index_, s, p) /\ InOrder(book[s][p], arrived)

\* No bid meets an ask.
Uncrossed == \A b \in Levels("Buy"), a \in Levels("Sell") : b < a

\* Order i's entries in book b.
RestIn(b, i) == {e \in UNION {ToSet(b[s][p]) : s \in Sides, p \in Prices} : e.id = i}

\* What rests of order i in book b.
QtyIn(b, i) == IF RestIn(b, i) = {} THEN 0 ELSE (CHOOSE e \in RestIn(b, i) : TRUE).qty

\* What the match loop still works on.
Working(o, i) == IF o.id = i THEN o.qty ELSE 0

\* What an order came with is filled, taken back, resting or being matched.
Accounts ==
  \A i \in Ids : Arrived(i) => placed[i] = filled[i] + taken[i] + QtyIn(book, i) + Working(order, i)

\* What every step keeps.
IInv == WellTyped /\ Known /\ Queues /\ Uncrossed /\ Accounts
=============================================================================
