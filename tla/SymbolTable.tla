---------------------------- MODULE SymbolTable -----------------------------
(***************************************************************************)
(* The registry of concurrency/08_symbol_table.  Every method runs under   *)
(* mu_, so each is one action.  Tickers fit into a std::string itself      *)
(* (external), so that the characters a view shows lie in the buffer of    *)
(* id_to_symbol_, which the vector replaces when it grows (external);      *)
(* buffer counts the buffers.                                              *)
(***************************************************************************)
EXTENDS Naturals, Sequences, Functions

CONSTANTS
  Symbols,
  MaxIds     \* bound on the ids between two clear()s

VARIABLES
  symbol_to_id_, id_to_symbol_, live_,
  space, buffer,  \* capacity of id_to_symbol_, and which buffer it has
  views           \* what lookup() has returned since the last clear()

vars == <<symbol_to_id_, id_to_symbol_, live_, space, buffer, views>>

Nothing == [s \in {} |-> 0]

Init ==
  /\ symbol_to_id_ = Nothing /\ id_to_symbol_ = <<>> /\ live_ = <<>>
  /\ space = 0 /\ buffer = 0 /\ views = {}

Id(i) == i + 1   \* sequences count from 1

EmplaceBack ==
  LET full == Len(id_to_symbol_) = space IN
  /\ space' = IF full THEN (IF space = 0 THEN 1 ELSE 2 * space) ELSE space
  /\ buffer' = IF full THEN buffer + 1 ELSE buffer

\* Mutant: an id that was erased is given out again.
InternReusing(s) ==
  /\ s \notin DOMAIN symbol_to_id_ /\ Len(id_to_symbol_) < MaxIds
  /\ \E i \in 0 .. Len(id_to_symbol_) :
       /\ \A j \in 1 .. i : live_[j]
       /\ i < Len(id_to_symbol_) => ~live_[Id(i)]
       /\ id_to_symbol_' = [j \in DOMAIN id_to_symbol_ \cup {Id(i)} |->
                              IF j = Id(i) THEN s ELSE id_to_symbol_[j]]
       /\ live_' = [j \in DOMAIN live_ \cup {Id(i)} |-> IF j = Id(i) THEN TRUE ELSE live_[j]]
       /\ symbol_to_id_' = [x \in DOMAIN symbol_to_id_ \cup {s} |->
                              IF x = s THEN i ELSE symbol_to_id_[x]]
  /\ UNCHANGED <<space, buffer, views>>

intern(s) ==
  /\ s \notin DOMAIN symbol_to_id_ /\ Len(id_to_symbol_) < MaxIds
  /\ EmplaceBack
  /\ id_to_symbol_' = Append(id_to_symbol_, s)
  /\ live_' = Append(live_, TRUE)
  /\ symbol_to_id_' = [x \in DOMAIN symbol_to_id_ \cup {s} |->
                         IF x = s THEN Len(id_to_symbol_) ELSE symbol_to_id_[x]]
  /\ UNCHANGED views

find(s) == IF s \in DOMAIN symbol_to_id_ THEN {symbol_to_id_[s]} ELSE {}

Known(i) == i < Len(id_to_symbol_) /\ live_[Id(i)]

lookup(i) ==
  /\ Known(i)
  /\ views' = views \cup {[id |-> i, buffer |-> buffer]}
  /\ UNCHANGED <<symbol_to_id_, id_to_symbol_, live_, space, buffer>>

Unregister(s, i) ==
  /\ live_' = [live_ EXCEPT ![Id(i)] = FALSE]
  /\ symbol_to_id_' = Restrict(symbol_to_id_, DOMAIN symbol_to_id_ \ {s})
  /\ UNCHANGED <<id_to_symbol_, space, buffer, views>>

erase_symbol(s) == \E i \in find(s) : Unregister(s, i)

erase_id(i) == Known(i) /\ Unregister(id_to_symbol_[Id(i)], i)

\* clear() keeps the vector's buffer.
clear ==
  /\ symbol_to_id_' = Nothing /\ id_to_symbol_' = <<>> /\ live_' = <<>>
  /\ views' = {}
  /\ UNCHANGED <<space, buffer>>

Next ==
  \/ \E s \in Symbols : intern(s) \/ erase_symbol(s)
  \/ \E i \in 0 .. MaxIds - 1 : lookup(i) \/ erase_id(i)
  \/ clear

Spec == Init /\ [][Next]_vars

-----------------------------------------------------------------------------
TypeOK ==
  /\ id_to_symbol_ \in Seq(Symbols) /\ live_ \in Seq(BOOLEAN)
  /\ DOMAIN symbol_to_id_ \subseteq Symbols /\ space \in Nat /\ buffer \in Nat

(* SymbolTable: the two directions agree after any erases and interns,     *)
(* also of a symbol under a new id: find() gives the id whose lookup()     *)
(* gives the symbol.                                                       *)
TwoWay == \A s \in Symbols, i \in 0 .. MaxIds - 1 :
            i \in find(s) <=> Known(i) /\ id_to_symbol_[Id(i)] = s

(* intern(): an id that was given out keeps its symbol, and once erased    *)
(* stays dead, until clear() empties the table.                            *)
IdsKept ==
  \/ id_to_symbol_' = <<>>
  \/ \A i \in 0 .. MaxIds - 1 : i < Len(id_to_symbol_) =>
       /\ i < Len(id_to_symbol_') /\ id_to_symbol_'[Id(i)] = id_to_symbol_[Id(i)]
       /\ Known(i)' => Known(i)

(* lookup(): a view "stays valid until clear()" (symbol_table.h).          *)
ViewsValid == \A v \in views : v.buffer = buffer
-----------------------------------------------------------------------------
\* The two tables are as long as each other and ids stay within them.
IInv ==
  /\ TypeOK
  /\ Len(live_) = Len(id_to_symbol_) /\ Len(id_to_symbol_) <= MaxIds
  /\ symbol_to_id_ \in [DOMAIN symbol_to_id_ -> Nat]
  /\ \A s \in DOMAIN symbol_to_id_ : symbol_to_id_[s] < MaxIds
  /\ TwoWay
=============================================================================
