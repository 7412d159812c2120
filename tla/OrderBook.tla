------------------------------ MODULE OrderBook -----------------------------
(***************************************************************************)
(* The limit order book of domain/05_order_book: orders by id, and a queue *)
(* of ids per side and price.  An empty queue is a level the map does not  *)
(* have.  market_order() is taken apart into the turns of its loop.        *)
(***************************************************************************)
EXTENDS Integers, Sequences, SequencesExt, FiniteSetsExt, Functions

CONSTANTS Ids, Prices, Qtys, MaxAdds  \* MaxAdds bounds the add_order() calls

Sides == {"kBuy", "kSell"}

VARIABLES
  by_id_,
  book,     \* book["kBuy"] is bids_, book["kSell"] is asks_
  want,     \* of the market_order() in progress
  from,     \* the side it consumes, "none" between calls
  stamp,    \* when each order was added: the number of the call
  adds

vars == <<by_id_, book, want, from, stamp, adds>>

NoOrders == [i \in {} |-> 0]
NoLevels == [s \in Sides |-> [p \in Prices |-> <<>>]]

Init ==
  /\ by_id_ = NoOrders /\ book = NoLevels
  /\ want = 0 /\ from = "none"
  /\ stamp = [i \in Ids |-> 0] /\ adds = 0

Idle == from = "none"
Without(i) == Restrict(by_id_, DOMAIN by_id_ \ {i})

add_order(i, s, p, q) ==
  /\ Idle /\ adds < MaxAdds
  /\ i \notin DOMAIN by_id_
  /\ book' = [book EXCEPT ![s][p] = Append(@, i)]
  /\ by_id_' = [x \in DOMAIN by_id_ \cup {i} |->
                  IF x = i THEN [side |-> s, price |-> p, qty |-> q] ELSE by_id_[x]]
  /\ stamp' = [stamp EXCEPT ![i] = adds] /\ adds' = adds + 1
  /\ UNCHANGED <<want, from>>

\* queue_pos: where the order stands in its queue.
QueuePos(i, queue) == SelectInSeq(queue, LAMBDA x : x = i)

cancel_order(i) ==
  /\ Idle /\ i \in DOMAIN by_id_
  /\ book' = [book EXCEPT ![by_id_[i].side][by_id_[i].price] = RemoveAt(@, QueuePos(i, @))]
  /\ by_id_' = Without(i)
  /\ UNCHANGED <<want, from, stamp, adds>>

\* Mutant: the order goes to the end of the queue.
ModifyRequeues(i, q) ==
  /\ Idle /\ i \in DOMAIN by_id_
  /\ by_id_' = [by_id_ EXCEPT ![i].qty = q]
  /\ book' = [book EXCEPT ![by_id_[i].side][by_id_[i].price] =
                Append(RemoveAt(@, QueuePos(i, @)), i)]
  /\ UNCHANGED <<want, from, stamp, adds>>

modify_order(i, q) ==
  /\ Idle /\ i \in DOMAIN by_id_
  /\ by_id_' = [by_id_ EXCEPT ![i].qty = q]
  /\ UNCHANGED <<book, want, from, stamp, adds>>

MarketOrder(s, q) ==
  /\ Idle
  /\ from' = IF s = "kBuy" THEN "kSell" ELSE "kBuy"
  /\ want' = q
  /\ UNCHANGED <<by_id_, book, stamp, adds>>

Levels(s) == {p \in Prices : book[s][p] # <<>>}
Best(s) == IF s = "kBuy" THEN Max(Levels(s)) ELSE Min(Levels(s))

\* One fill of market_order(), at the best level that is left.
Take ==
  LET level == Best(from)
      id == Head(book[from][level])
      take == Min({want, by_id_[id].qty}) IN
  /\ ~Idle /\ want # 0 /\ Levels(from) # {}
  /\ want' = want - take
  /\ IF by_id_[id].qty = take
     THEN by_id_' = Without(id) /\ book' = [book EXCEPT ![from][level] = Tail(@)]
     ELSE by_id_' = [by_id_ EXCEPT ![id].qty = @ - take] /\ UNCHANGED book
  /\ UNCHANGED <<from, stamp, adds>>

\* market_order() returns what is left of it; it never rests.
Done ==
  /\ ~Idle /\ (want = 0 \/ Levels(from) = {})
  /\ from' = "none" /\ want' = 0
  /\ UNCHANGED <<by_id_, book, stamp, adds>>

clear ==
  /\ Idle
  /\ by_id_' = NoOrders /\ book' = NoLevels
  /\ UNCHANGED <<want, from, stamp, adds>>

Next ==
  \/ \E i \in Ids, s \in Sides, p \in Prices, q \in Qtys : add_order(i, s, p, q)
  \/ \E i \in Ids : cancel_order(i) \/ \E q \in Qtys \cup {0} : modify_order(i, q)
  \/ \E s \in Sides, q \in Qtys : MarketOrder(s, q)
  \/ Take
  \/ Done
  \/ clear

Spec == Init /\ [][Next]_vars

-----------------------------------------------------------------------------
(* OrderBook: the two indexes agree, an order stands once in the queue of  *)
(* its side and price and in no other, and the queues are in the order of  *)
(* the adds, whatever was modified and cancelled between.                  *)
IndexesAgree ==
  \A s \in Sides, p \in Prices :
    LET queue == book[s][p] IN
    /\ ToSet(queue) = {i \in DOMAIN by_id_ : by_id_[i].side = s /\ by_id_[i].price = p}
    /\ \A j, k \in DOMAIN queue : j < k => stamp[queue[j]] < stamp[queue[k]]

-----------------------------------------------------------------------------
(* What keeps it so: index and queues agree level by level.                *)

\* What the constants must be.
Sized == Prices \in SUBSET Int /\ IsFiniteSet(Prices) /\ Qtys \in SUBSET Nat

\* What the index has of an order.
Order == [side : Sides, price : Prices, qty : Int]

\* Types.
WellTyped ==
  /\ DOMAIN by_id_ \subseteq Ids /\ by_id_ \in [DOMAIN by_id_ -> Order]
  /\ book \in [Sides -> [Prices -> Seq(Ids)]]
  /\ want \in Int /\ from \in Sides \cup {"none"}
  /\ stamp \in [Ids -> Nat] /\ adds \in Nat

\* The index has the orders of side s and price p that their queue has, and
\* the queue has them in the order of their stamps.
Agree(s, p) ==
  /\ \A j \in 1 .. Len(book[s][p]) :
       LET i == book[s][p][j] IN i \in DOMAIN by_id_ /\ by_id_[i].side = s /\ by_id_[i].price = p
  /\ \A i \in DOMAIN by_id_ : by_id_[i].side = s /\ by_id_[i].price = p =>
       \E j \in 1 .. Len(book[s][p]) : book[s][p][j] = i
  /\ \A j, k \in 1 .. Len(book[s][p]) : j < k => stamp[book[s][p][j]] < stamp[book[s][p][k]]

\* A stamp was given out.
Stamped == \A i \in DOMAIN by_id_ : stamp[i] < adds

\* What every step keeps.
IInv == WellTyped /\ Stamped /\ \A s \in Sides, p \in Prices : Agree(s, p)
=============================================================================
