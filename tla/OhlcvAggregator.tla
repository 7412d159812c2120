--------------------------- MODULE OhlcvAggregator ---------------------------
(***************************************************************************)
(* The candles of domain/07_ohlcv_aggregator.  Times are not negative (-1  *)
(* means that no bucket is open); prices are whole.                        *)
(***************************************************************************)
EXTENDS Integers, Sequences, FiniteSetsExt

CONSTANTS
  bucket_ms_,
  Times, Prices, Qtys,
  MaxTrades, MaxRolls     \* bounds

VARIABLES
  current_bucket_, current_, completed_, has_trade_,
  tape,                   \* the trades taken, each with the rolls before it
  rolled                  \* the places in completed_ that roll() filled

vars == <<current_bucket_, current_, completed_, has_trade_, tape, rolled>>

Empty(b) ==
  [open_time |-> b * bucket_ms_, open |-> 0, high |-> 0, low |-> 0, close |-> 0, volume |-> 0]

\* Mutant: one candle too few, the bucket before b has none.
AppendFewer(a, b) == [i \in 1 .. b - a - 1 |-> Empty(a + i - 1)]

\* Empty candles of the buckets from a to b - 1.
AppendEmptyCandle(a, b) == [i \in 1 .. b - a |-> Empty(a + i - 1)]

Init ==
  /\ current_bucket_ = -1 /\ current_ = Empty(0)
  /\ completed_ = <<>> /\ has_trade_ = FALSE
  /\ tape = <<>> /\ rolled = {}

\* The candle c after a trade, its first one if it has none.
Fold(c, traded, price, qty) ==
  [open_time |-> c.open_time,
   open |-> IF traded THEN c.open ELSE price,
   high |-> IF traded THEN Max({c.high, price}) ELSE price,
   low |-> IF traded THEN Min({c.low, price}) ELSE price,
   close |-> price,
   volume |-> c.volume + qty]

Take(b, price, qty) ==
  tape' = Append(tape, [bucket |-> b, price |-> price, qty |-> qty,
                        epoch |-> Cardinality(rolled)])

\* The first trade, a stale one, one for the open candle, one for a later.
add_trade(ts, price, qty) ==
  LET b == ts \div bucket_ms_ IN
  /\ Len(tape) < MaxTrades
  /\ UNCHANGED rolled
  /\ \/ /\ current_bucket_ = -1
        /\ completed_' = completed_ \o AppendEmptyCandle(0, b)
        /\ current_' = Fold(Empty(b), has_trade_, price, qty)
        /\ current_bucket_' = b /\ has_trade_' = TRUE /\ Take(b, price, qty)
     \/ /\ current_bucket_ # -1 /\ b < current_bucket_
        /\ UNCHANGED vars
     \/ /\ b = current_bucket_
        /\ current_' = Fold(current_, has_trade_, price, qty)
        /\ has_trade_' = TRUE /\ Take(b, price, qty)
        /\ UNCHANGED <<completed_, current_bucket_>>
     \/ /\ current_bucket_ # -1 /\ b > current_bucket_
        /\ completed_' = Append(completed_, current_) \o AppendEmptyCandle(current_bucket_ + 1, b)
        /\ current_' = Fold(Empty(b), FALSE, price, qty)
        /\ current_bucket_' = b /\ has_trade_' = TRUE /\ Take(b, price, qty)

\* Of no bucket yet, roll() completes nothing.
roll ==
  /\ Cardinality(rolled) < MaxRolls
  /\ IF current_bucket_ # -1
     THEN /\ completed_' = Append(completed_, current_)
          /\ rolled' = rolled \cup {Len(completed_) + 1}
          /\ current_' = Empty(current_bucket_)
     ELSE current_' = Empty(0) /\ UNCHANGED <<completed_, rolled>>
  /\ has_trade_' = FALSE
  /\ UNCHANGED <<current_bucket_, tape>>

Next ==
  \/ \E ts \in Times, price \in Prices, qty \in Qtys : add_trade(ts, price, qty)
  \/ roll

Spec == Init /\ [][Next]_vars

-----------------------------------------------------------------------------
Candles == Append(completed_, current_)

\* The trades of bucket b after e rolls, and the quantities up to each of a tape.
Mine(t, b, e) == {i \in 1 .. Len(t) : t[i].bucket = b /\ t[i].epoch = e}
Volumes(t, b, e) ==
  LET total[i \in 0 .. Len(t)] ==
        IF i = 0 THEN 0 ELSE total[i - 1] + (IF i \in Mine(t, b, e) THEN t[i].qty ELSE 0)
  IN total

\* The candle that the trades of bucket b after e rolls make.
Reference(t, b, e) ==
  LET mine == Mine(t, b, e)
      prices == {t[i].price : i \in mine}
  IN IF mine = {} THEN Empty(b)
     ELSE [open_time |-> b * bucket_ms_,
           open |-> t[Min(mine)].price, close |-> t[Max(mine)].price,
           high |-> Max(prices), low |-> Min(prices),
           volume |-> Volumes(t, b, e)[Len(t)]]

(* OhlcvAggregator: whatever buckets the trades skip and wherever roll()   *)
(* falls, there is a candle for every bucket from 0 on, in order, a second *)
(* one only after roll(), and each is what its trades make it.             *)
CandlesExact ==
  current_bucket_ # -1 =>
    \A k \in DOMAIN Candles :
      LET epoch == Cardinality({r \in rolled : r < k})
      IN Candles[k] = Reference(tape, k - 1 - epoch, epoch)

-----------------------------------------------------------------------------
(* What keeps it so: every candle is that of its trades on the tape.       *)

\* What the constants must be.
Sized == /\ bucket_ms_ \in Nat \ {0} /\ Times \in SUBSET Nat /\ Qtys \in SUBSET Nat
         /\ Prices \in SUBSET Int /\ IsFiniteSet(Prices)

\* A trade on the tape: the bucket it fell in and how many rolls were before.
Trade == [bucket : Nat, price : Prices, qty : Nat, epoch : Nat]

\* A candle.
Candle == [open_time : Int, open : Int, high : Int, low : Int, close : Int, volume : Int]

\* How many rolls are before place k.
Before(r, k) == Cardinality({x \in r : x < k})

\* How many rolls there were.
Epoch == Cardinality(rolled)

\* The candles done are those of the tape.
Done(c, t, r) == \A k \in 1 .. Len(c) : c[k] = Reference(t, k - 1 - Before(r, k), Before(r, k))

\* No trade is of a later bucket, or after more rolls.
Within(t, b, c) == \A i \in 1 .. Len(t) : t[i].bucket <= b /\ t[i].epoch <= c

\* Once a trade came: where the open candle is, and what both kinds hold.
OpenExact ==
  /\ current_bucket_ \in Nat /\ current_bucket_ = Len(completed_) - Epoch
  /\ current_ = Reference(tape, current_bucket_, Epoch)
  /\ Done(completed_, tape, rolled)
  /\ has_trade_ = (Mine(tape, current_bucket_, Epoch) # {})

\* What every step keeps.
IInv ==
  /\ tape \in Seq(Trade) /\ completed_ \in Seq(Candle) /\ current_ \in Candle
  /\ rolled \subseteq 1 .. Len(completed_) /\ current_bucket_ \in Int
  /\ current_bucket_ = -1 => completed_ = <<>> /\ rolled = {} /\ tape = <<>> /\ has_trade_ = FALSE
  /\ current_bucket_ # -1 => OpenExact
  /\ Within(tape, current_bucket_, Epoch)
=============================================================================
