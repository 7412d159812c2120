------------------------------ MODULE RiskChain ------------------------------
(***************************************************************************)
(* The chain of pre-trade checks of patterns/05_chain_risk, with one       *)
(* handler of each kind.  A handler is appended at most once: clear()      *)
(* leaves the handlers' next_ links, so one that is appended again brings  *)
(* its old successors along.                                               *)
(***************************************************************************)
EXTENDS Integers, FiniteSets

CONSTANTS
  max_qty_, max_price_, max_notional_,
  Prices, Qtys, Symbols,     \* the orders tried
  Null

VARIABLES
  head_, tail_, next_,       \* the chain
  used_, allowed_,           \* of the notional and of the symbols handler
  appended,                  \* the handlers appended since clear()
  spent,                     \* the handlers appended ever
  booked,                    \* the notional accepted under the notional handler
  verdict                    \* the last order, its result and the handlers then

vars == <<head_, tail_, next_, used_, allowed_, appended, spent, booked, verdict>>
chain == <<head_, tail_, next_, appended, spent>>

Handlers == {"qty", "price", "symbols", "notional"}
Orders == [price : Prices, qty : Qtys, symbol : Symbols]

Init ==
  /\ head_ = Null /\ tail_ = Null /\ next_ = [h \in Handlers |-> Null]
  /\ used_ = 0 /\ allowed_ = {}
  /\ appended = {} /\ spent = {} /\ booked = 0
  /\ verdict = [order |-> CHOOSE o \in Orders : TRUE, ok |-> FALSE, under |-> {}]

delta(o) == o.price * o.qty

do_check(h, o) ==
  CASE h = "qty" -> o.qty \in 1 .. max_qty_
    [] h = "price" -> o.price \in 1 .. max_price_
    [] h = "symbols" -> o.symbol \in allowed_
    [] h = "notional" -> delta(o) > 0 => used_ + delta(o) <= max_notional_

\* Mutant: the new handler replaces the rest of the chain.
AppendUnlinked(h) ==
  /\ h \notin spent
  /\ head_' = IF head_ = Null THEN h ELSE head_
  /\ next_' = IF head_ = Null THEN next_ ELSE [next_ EXCEPT ![head_] = h]
  /\ tail_' = h
  /\ appended' = appended \cup {h} /\ spent' = spent \cup {h}
  /\ UNCHANGED <<used_, allowed_, booked, verdict>>

append(h) ==
  /\ h \notin spent
  /\ head_' = IF head_ = Null THEN h ELSE head_
  /\ next_' = IF head_ = Null THEN next_ ELSE [next_ EXCEPT ![tail_] = h]
  /\ tail_' = h
  /\ appended' = appended \cup {h} /\ spent' = spent \cup {h}
  /\ UNCHANGED <<used_, allowed_, booked, verdict>>

\* The k-th handler from the head, as size() and handle() walk to it.
Link[k \in 0 .. Cardinality(Handlers)] ==
  IF k = 0 THEN head_ ELSE IF Link[k - 1] = Null THEN Null ELSE next_[Link[k - 1]]

Depth == {k \in 0 .. Cardinality(Handlers) : Link[k] # Null}

\* handle: a handler runs when those before it passed.
Runs(h, o) == \E k \in Depth : /\ Link[k] = h
                               /\ \A j \in 0 .. k - 1 : do_check(Link[j], o)

validate(o) ==
  LET ok == \A k \in Depth : do_check(Link[k], o)
      n == IF delta(o) > 0 THEN delta(o) ELSE 0
  IN /\ verdict' = [order |-> o, ok |-> ok, under |-> appended]
     /\ used_' = IF Runs("notional", o) /\ do_check("notional", o) THEN used_ + n ELSE used_
     /\ booked' = IF ok /\ "notional" \in appended THEN booked + n ELSE booked
     /\ UNCHANGED <<chain, allowed_>>

allow_symbol(s) ==
  /\ allowed_' = allowed_ \cup {s}
  /\ UNCHANGED <<chain, used_, booked, verdict>>

\* MaxNotionalHandler::reset
reset ==
  /\ used_' = 0 /\ booked' = 0
  /\ UNCHANGED <<chain, allowed_, verdict>>

clear ==
  /\ head_' = Null /\ tail_' = Null /\ appended' = {}
  /\ UNCHANGED <<next_, spent, used_, allowed_, booked, verdict>>

Next ==
  \/ \E h \in Handlers : append(h)
  \/ \E o \in Orders : validate(o)
  \/ \E s \in Symbols : allow_symbol(s)
  \/ reset
  \/ clear

Spec == Init /\ [][Next]_vars

-----------------------------------------------------------------------------
(* RiskChain::validate: an accepted order is within the limit of every     *)
(* handler appended, in whatever order; and MaxNotionalHandler charges at  *)
(* least what was accepted since reset() and never more than its limit,    *)
(* though a later handler rejects what it has charged.                     *)
ChainGuards ==
  /\ verdict.ok => \A h \in verdict.under \ {"notional"} : do_check(h, verdict.order)
  /\ booked <= used_ /\ used_ <= max_notional_

-----------------------------------------------------------------------------
\* Prices and quantities may be negative.
Sized == max_notional_ \in Nat /\ Prices \subseteq Int /\ Qtys \subseteq Int /\ Null \notin Handlers

\* Types; a handler that was never appended has no successor.
Types ==
  /\ next_ \in [Handlers -> Handlers \cup {Null}]
  /\ used_ \in Nat /\ booked \in Nat
  /\ appended \subseteq spent /\ spent \subseteq Handlers
  /\ verdict.under \subseteq Handlers
  /\ \A h \in Handlers \ spent : next_[h] = Null
=============================================================================
