--------------------------- MODULE MarketDataFeed ---------------------------
(***************************************************************************)
(* The fan-out of patterns/03_observer_market_data.  publish_quote() and   *)
(* publish_trade() have one shape: copy the slots under the lock, then     *)
(* call the observers of the copy outside it.  Meanwhile other threads and *)
(* the callbacks subscribe and unsubscribe.                                *)
(***************************************************************************)
EXTENDS Naturals, Sequences, SequencesExt

CONSTANTS
  Publishers,
  Symbols, kAnySymbol,
  MaxIds, MaxEvents       \* bounds on subscriptions and publishes

VARIABLES
  slots_, next_id_,
  pc, event, snapshot,    \* of each publish: its event, the slots left of the copy
  started,                \* publishes so far
  gone,                   \* gone[id]: publishes started when id was removed
  notified                \* notified[p]: the ids that p's publish has called

vars == <<slots_, next_id_, pc, event, snapshot, started, gone, notified>>
feed == <<slots_, next_id_, gone>>

ObserverIds == 1 .. MaxIds
Forever == MaxEvents + 1

Init ==
  /\ slots_ = <<>> /\ next_id_ = 1
  /\ pc = [p \in Publishers |-> "idle"]
  /\ event = [p \in Publishers |-> [symbol |-> kAnySymbol, number |-> 0, bound |-> 0]]
  /\ snapshot = [p \in Publishers |-> <<>>]
  /\ started = 0 /\ gone = [i \in ObserverIds |-> Forever]
  /\ notified = [p \in Publishers |-> <<>>]

\* By any thread, or by a callback.
subscribe(s) ==
  /\ next_id_ \in ObserverIds
  /\ slots_' = Append(slots_, [id |-> next_id_, symbol |-> s])
  /\ next_id_' = next_id_ + 1
  /\ UNCHANGED <<pc, event, snapshot, started, gone, notified>>

Erase(id) ==
  /\ slots_' = RemoveFirstMatch(slots_, LAMBDA x : x.id = id)
  /\ gone' = IF \E slot \in ToSet(slots_) : slot.id = id
             THEN [gone EXCEPT ![id] = started] ELSE gone
  /\ UNCHANGED next_id_

\* Of an id that is not there it does nothing.
unsubscribe(id) ==
  /\ Erase(id)
  /\ UNCHANGED <<pc, event, snapshot, started, notified>>

\* publish: the copy is made under the lock.
Publish(p, s) ==
  /\ pc[p] = "idle" /\ started < MaxEvents
  /\ pc' = [pc EXCEPT ![p] = "calling"]
  /\ started' = started + 1
  /\ event' = [event EXCEPT ![p] = [symbol |-> s, number |-> started, bound |-> next_id_]]
  /\ snapshot' = [snapshot EXCEPT ![p] = slots_]
  /\ notified' = [notified EXCEPT ![p] = <<>>]
  /\ UNCHANGED feed

Wants(slot, p) == slot.symbol \in {kAnySymbol, event[p].symbol}

Call(p, slot) ==
  notified' = IF Wants(slot, p) THEN [notified EXCEPT ![p] = Append(@, slot.id)] ELSE notified

\* The next slot of the copy: its observer is passed over or called.
Notify(p) ==
  /\ pc[p] = "calling" /\ snapshot[p] # <<>>
  /\ Call(p, Head(snapshot[p]))
  /\ snapshot' = [snapshot EXCEPT ![p] = Tail(@)]
  /\ UNCHANGED <<feed, pc, event, started>>

\* Mutant: the publish ends with the observer that throws.
NotifyThrowsOut(p) ==
  /\ pc[p] = "calling" /\ snapshot[p] # <<>> /\ Wants(Head(snapshot[p]), p)
  /\ Call(p, Head(snapshot[p]))
  /\ Erase(Head(snapshot[p]).id)
  /\ snapshot' = [snapshot EXCEPT ![p] = <<>>]
  /\ UNCHANGED <<pc, event, started>>

\* An observer that throws is called and dropped.
NotifyThrows(p) ==
  /\ pc[p] = "calling" /\ snapshot[p] # <<>> /\ Wants(Head(snapshot[p]), p)
  /\ Call(p, Head(snapshot[p]))
  /\ Erase(Head(snapshot[p]).id)
  /\ snapshot' = [snapshot EXCEPT ![p] = Tail(@)]
  /\ UNCHANGED <<pc, event, started>>

Return(p) ==
  /\ pc[p] = "calling" /\ snapshot[p] = <<>>
  /\ pc' = [pc EXCEPT ![p] = "idle"]
  /\ UNCHANGED <<feed, event, snapshot, started, notified>>

Next ==
  \/ \E s \in Symbols \cup {kAnySymbol} : subscribe(s)
  \/ \E id \in ObserverIds : unsubscribe(id)
  \/ \E p \in Publishers : \/ \E s \in Symbols : Publish(p, s)
                           \/ Notify(p) \/ NotifyThrows(p) \/ Return(p)

Spec == Init /\ [][Next]_vars

-----------------------------------------------------------------------------
Increasing(ids) == \A j, k \in DOMAIN ids : j < k => ids[j] < ids[k]

(* MarketDataFeed: an event calls its observers in subscription order and  *)
(* each at most once, none that was removed before the publish began and   *)
(* none that is there for another symbol; and when the publish returns     *)
(* every observer of its symbol that was not removed since has been        *)
(* called, though others threw.                                            *)
FanOut ==
  \A p \in Publishers :
    /\ Increasing(notified[p])
    /\ \A id \in ToSet(notified[p]) : gone[id] > event[p].number
    /\ \A slot \in ToSet(slots_) : slot.id \in ToSet(notified[p]) => Wants(slot, p)
    /\ (pc[p] = "calling" /\ snapshot[p] = <<>>) =>
         \A slot \in ToSet(slots_) :
           (slot.id < event[p].bound /\ Wants(slot, p)) => slot.id \in ToSet(notified[p])

-----------------------------------------------------------------------------
(* What keeps it so: the slots in order of their ids, and the copies too.  *)

\* What an observer may ask for.
AnySymbols == Symbols \cup {kAnySymbol}

\* A subscription.
Slot == [id : ObserverIds, symbol : AnySymbols]

\* What a publish() knows: bound is next_id_ at its start.
Event == [symbol : AnySymbols, number : Nat, bound : Nat]

\* Types.
Typed ==
  /\ slots_ \in Seq(Slot) /\ next_id_ \in Nat \ {0}
  /\ pc \in [Publishers -> {"idle", "calling"}]
  /\ event \in [Publishers -> Event]
  /\ snapshot \in [Publishers -> Seq(Slot)]
  /\ started \in 0 .. MaxEvents /\ gone \in [ObserverIds -> Nat]
  /\ notified \in [Publishers -> Seq(ObserverIds)]

\* The slots of s are in the order of their ids.
Ordered(s) == \A j, k \in 1 .. Len(s) : j < k => s[j].id < s[k].id

\* The ids in use are below next_id_ and were not removed.
SlotsOk ==
  /\ Ordered(slots_)
  /\ \A j \in 1 .. Len(slots_) : slots_[j].id < next_id_ /\ gone[slots_[j].id] = Forever
  /\ \A i \in ObserverIds : i >= next_id_ => gone[i] = Forever

\* What is left of p's copy comes after the ids called, and none of both was
\* removed before the publish.
CopyOk(p) ==
  /\ Ordered(snapshot[p]) /\ Increasing(notified[p])
  /\ \A j \in 1 .. Len(notified[p]) :
       /\ gone[notified[p][j]] > event[p].number
       /\ \A k \in 1 .. Len(snapshot[p]) : notified[p][j] < snapshot[p][k].id
  /\ \A k \in 1 .. Len(snapshot[p]) :
       gone[snapshot[p][k].id] > event[p].number
  /\ pc[p] = "idle" => snapshot[p] = <<>>
  /\ \/ event[p].number < started
     \/ notified[p] = <<>> /\ snapshot[p] = <<>> /\ pc[p] = "idle"
  /\ event[p].number <= MaxEvents /\ event[p].bound <= next_id_

\* A slot that p's publish owes a call is called or left of its copy.
Owed(p) ==
  pc[p] = "calling" =>
    \A j \in 1 .. Len(slots_) :
      slots_[j].id < event[p].bound =>
        \/ \E k \in 1 .. Len(snapshot[p]) : snapshot[p][k] = slots_[j]
        \/ Wants(slots_[j], p) => \E k \in 1 .. Len(notified[p]) : notified[p][k] = slots_[j].id

\* What every step keeps.
IInv == Typed /\ SlotsOk /\ \A p \in Publishers : CopyOk(p) /\ Owed(p)

\* An id is that of one slot, in the list and in p's copy, and p has called
\* none that is there for another symbol.  This is kept with IInv.
FilterOk(p) ==
  /\ \A k \in 1 .. Len(snapshot[p]) :
       /\ snapshot[p][k].id < next_id_
       /\ \A j \in 1 .. Len(slots_) : slots_[j].id = snapshot[p][k].id => slots_[j] = snapshot[p][k]
  /\ \A k \in 1 .. Len(notified[p]) :
       /\ notified[p][k] < next_id_
       /\ \A j \in 1 .. Len(slots_) : slots_[j].id = notified[p][k] => Wants(slots_[j], p)
Filtered == \A p \in Publishers : FilterOk(p)

\* What the constants must be.
Sized == MaxIds \in Nat /\ MaxEvents \in Nat
=============================================================================
