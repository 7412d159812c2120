------------------------------- MODULE L2Book -------------------------------
(***************************************************************************)
(* The book builder of domain/04_l2_order_book, fed by an exchange         *)
(* (external) whose updates may be lost and which answers a checksum that  *)
(* does not match with a snapshot.  A side maps the prices it has to       *)
(* quantities.  The checksum digests the whole content: equal checksums    *)
(* stand for equal books.                                                  *)
(***************************************************************************)
EXTENDS Naturals, Functions

CONSTANTS Prices, Qtys

Sides == {"Bid", "Ask"}
NoLevels == [p \in {} |-> 0]
Books == [Sides -> UNION {[S -> Qtys] : S \in SUBSET Prices}]

VARIABLES
  has_snapshot_, levels,  \* levels["Bid"] is bids_, levels["Ask"] is asks_
  market,                 \* the exchange's book
  lost                    \* whether an update was lost since the last snapshot

vars == <<has_snapshot_, levels, market, lost>>

Init ==
  /\ has_snapshot_ = FALSE
  /\ levels = [s \in Sides |-> NoLevels]
  /\ market \in Books /\ lost = FALSE

\* A level set to a quantity, or removed.
Updated(side, p, q) ==
  IF q = 0 THEN Restrict(side, DOMAIN side \ {p})
  ELSE [x \in DOMAIN side \cup {p} |-> IF x = p THEN q ELSE side[x]]

\* Mutant: updates are taken before there is a book.
UpdateAnyway(s, p, q) == levels' = [levels EXCEPT ![s] = Updated(@, p, q)]

apply_update(s, p, q) ==
  levels' = IF has_snapshot_ THEN [levels EXCEPT ![s] = Updated(@, p, q)] ELSE levels

apply_snapshot(new) == levels' = new /\ has_snapshot_' = TRUE

checksum == levels

\* The exchange's book changes, and the update arrives or is lost.
Deliver(s, p, q) ==
  /\ market' = [market EXCEPT ![s] = Updated(@, p, q)]
  /\ apply_update(s, p, q)
  /\ UNCHANGED <<has_snapshot_, lost>>

Lose(s, p, q) ==
  /\ market' = [market EXCEPT ![s] = Updated(@, p, q)]
  /\ lost' = TRUE
  /\ UNCHANGED <<has_snapshot_, levels>>

Resync ==
  /\ checksum # market
  /\ apply_snapshot(market)
  /\ lost' = FALSE
  /\ UNCHANGED market

Next ==
  \/ \E s \in Sides, p \in Prices, q \in Qtys \cup {0} : Deliver(s, p, q) \/ Lose(s, p, q)
  \/ Resync

Spec == Init /\ [][Next]_vars

-----------------------------------------------------------------------------
(* L2Book: from a snapshot on, the book is the exchange's as long as no    *)
(* update is lost, and before it there is no book at all, though updates   *)
(* have come.                                                              *)
InStep ==
  /\ has_snapshot_ /\ ~lost => levels = market
  /\ ~has_snapshot_ => levels = [s \in Sides |-> NoLevels]

-----------------------------------------------------------------------------
(* What keeps it so.                                                       *)

\* What every step keeps.
IInv == has_snapshot_ \in BOOLEAN /\ lost \in BOOLEAN /\ InStep
=============================================================================
