------------------------- MODULE CommandOrderEntry --------------------------
(***************************************************************************)
(* The commands of patterns/04_command_order_entry: a command changes the  *)
(* repository, remembers what it needs to undo it, and is logged if it     *)
(* succeeded.  All changes go through the processor.                       *)
(***************************************************************************)
EXTENDS Naturals, Sequences, SequencesExt, Functions

CONSTANTS Ids, Sides, Prices, MaxLog  \* Prices stand for price and quantity

VARIABLES
  orders_,
  log_,       \* the commands, with old_* and applied_
  before      \* the repository when each command of the log was submitted

vars == <<orders_, log_, before>>

Init == orders_ = [i \in {} |-> 0] /\ log_ = <<>> /\ before = <<>>

-----------------------------------------------------------------------------
\* OrderRepository.
Entry(s, p, status) == [side |-> s, price |-> p, status |-> status]
Put(repo, i, e) == [x \in DOMAIN repo \cup {i} |-> IF x = i THEN e ELSE repo[x]]
Removed(repo, i) == Restrict(repo, DOMAIN repo \ {i})
Active(i) == i \in DOMAIN orders_ /\ orders_[i].status = "kActive"

\* execute() of a command that succeeds, and its place in the log.
Submit(command, repo) ==
  /\ Len(log_) < MaxLog
  /\ orders_' = repo
  /\ log_' = Append(log_, command)
  /\ before' = Append(before, orders_)

SubmitNew(i, s, p) ==
  /\ i \notin DOMAIN orders_
  /\ Submit([type |-> "kNew", id |-> i], Put(orders_, i, Entry(s, p, "kActive")))

SubmitModify(i, p) ==
  /\ Active(i)
  /\ Submit([type |-> "kModify", id |-> i, old |-> orders_[i]],
            [orders_ EXCEPT ![i].price = p])

SubmitCancel(i) ==
  /\ Active(i)
  /\ Submit([type |-> "kCancel", id |-> i, old |-> orders_[i]],
            [orders_ EXCEPT ![i].status = "kCancelled"])

\* Mutant: the cancelled order is not removed, and add() of its id fails.
UndoneUnremoved(c) ==
  CASE c.type = "kNew" -> Removed(orders_, c.id)
    [] c.type = "kModify" -> IF Active(c.id) THEN [orders_ EXCEPT ![c.id].price = c.old.price]
                             ELSE orders_
    [] c.type = "kCancel" -> orders_

\* The repository after undo(); modify() refuses an order that is not active.
Undone(c) ==
  CASE c.type = "kNew" -> Removed(orders_, c.id)
    [] c.type = "kModify" -> IF Active(c.id) THEN [orders_ EXCEPT ![c.id].price = c.old.price]
                             ELSE orders_
    [] c.type = "kCancel" -> Put(orders_, c.id, Entry(c.old.side, c.old.price, "kActive"))

undo_last ==
  /\ log_ # <<>>
  /\ orders_' = Undone(Last(log_))
  /\ log_' = Front(log_) /\ before' = Front(before)

Next ==
  \/ \E i \in Ids, s \in Sides, p \in Prices : SubmitNew(i, s, p)
  \/ \E i \in Ids : SubmitCancel(i) \/ \E p \in Prices : SubmitModify(i, p)
  \/ undo_last

Spec == Init /\ [][Next]_vars

-----------------------------------------------------------------------------
(* ExecuteCommandProcessor::undo_last: each undo restores the repository   *)
(* as it was when the command was submitted, through any interleaving of   *)
(* commands on the same order and undos.                                   *)
UndoRestores == Len(log_') < Len(log_) => orders_' = Last(before)

-----------------------------------------------------------------------------
\* Types.
Entries == [side : Sides, price : Prices, status : {"kActive", "kCancelled"}]

Repos == UNION {[D -> Entries] : D \in SUBSET Ids}

AllCommands == [type : {"kNew"}, id : Ids]
               \cup [type : {"kModify", "kCancel"}, id : Ids, old : Entries]

\* Command c led from the repository prior to repo.
Applied(c, prior, repo) ==
  IF c.type = "kNew"
  THEN c.id \notin DOMAIN prior /\ \E e \in Entries : repo = Put(prior, c.id, e)
  ELSE /\ c.id \in DOMAIN prior /\ c.old = prior[c.id] /\ c.old.status = "kActive"
       /\ IF c.type = "kModify"
          THEN \E p \in Prices : repo = [prior EXCEPT ![c.id] = Entry(c.old.side, p, "kActive")]
          ELSE repo = [prior EXCEPT ![c.id] = Entry(c.old.side, c.old.price, "kCancelled")]

\* The repository after command k.
After(k) == IF k = Len(log_) THEN orders_ ELSE before[k + 1]

\* What every step keeps.
IInv ==
  /\ orders_ \in Repos /\ before \in Seq(Repos) /\ log_ \in Seq(AllCommands)
  /\ Len(before) = Len(log_)
  /\ \A k \in 1..Len(log_) : Applied(log_[k], before[k], After(k))
=============================================================================
