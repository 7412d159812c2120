----------------------------- MODULE LoanTokens -----------------------------
(***************************************************************************)
(* LoanBox (memory/06_loan_tokens): loans by explicit token.  A token is a *)
(* plain value, so the caller may keep copies of one, use them after the   *)
(* loan has ended, repay them twice, change their kind and make one up.    *)
(***************************************************************************)
EXTENDS Naturals, SequencesExt

CONSTANTS
  MaxLoans  \* bound: loans the caller takes out

VARIABLES
  loans_, next_id_, writer_,
  issued, repaid  \* the tokens the caller was given and has repaid

vars == <<loans_, next_id_, writer_, issued, repaid>>

Token(i, m) == [id |-> i, mut |-> m]

\* What a caller may present, issued or not.
Presented == [id : 0..MaxLoans, mut : BOOLEAN]

Init == /\ loans_ = <<>>
        /\ next_id_ = 1
        /\ writer_ = FALSE
        /\ issued = {}
        /\ repaid = {}

\* A record for a new token; it lives until prune() takes it away.
Issue(m) ==
  /\ next_id_ <= MaxLoans
  /\ loans_' = Append(loans_, Token(next_id_, m))
  /\ next_id_' = next_id_ + 1
  /\ issued' = issued \cup {Token(next_id_, m)}

Borrow == ~writer_ /\ Issue(FALSE) /\ UNCHANGED <<writer_, repaid>>

\* Mutant: readers are not looked for.
BorrowMutOverReaders == ~writer_ /\ Issue(TRUE) /\ writer_' = TRUE /\ UNCHANGED repaid

BorrowMut ==
  /\ ~writer_ /\ loans_ = <<>>
  /\ Issue(TRUE)
  /\ writer_' = TRUE
  /\ UNCHANGED repaid

\* access() and access_mut() give the object to token t.
Access(t) == \E i \in 1..Len(loans_) : loans_[i] = t
AccessMut(t) == t.mut /\ \E i \in 1..Len(loans_) : loans_[i].id = t.id

\* The record find() returns, and the others, the live ones, in their order.
Find(t) == CHOOSE i \in 1..Len(loans_) : loans_[i].id = t.id
Prune(t) == [j \in 1..(Len(loans_) - 1) |-> loans_[IF j < Find(t) THEN j ELSE j + 1]]

\* repay() that returns true; it refuses a token that is not on loan.
Repay(t) ==
  /\ Access(t)
  /\ loans_' = Prune(t)
  /\ writer_' = (writer_ /\ ~t.mut)
  /\ repaid' = repaid \cup {t}
  /\ UNCHANGED <<next_id_, issued>>

Next == Borrow \/ BorrowMut \/ \E t \in Presented : Repay(t)

Spec == Init /\ [][Next]_vars

-----------------------------------------------------------------------------
TypeOK ==
  /\ ToSet(loans_) \subseteq issued /\ repaid \subseteq issued
  /\ next_id_ \in 1..(MaxLoans + 1) /\ writer_ \in BOOLEAN

(* LoanBox, whatever token is presented: access() and repay() take one     *)
(* from the borrow() that issued it to its repayment and never again; with *)
(* the writer's token out no other resolves at all; and without a writer   *)
(* access_mut() resolves nothing but a reader's id with its kind changed.  *)
TokensExclude ==
  /\ \A t \in Presented : Access(t) <=> t \in issued \ repaid
  /\ \A t \in issued, u \in Presented : AccessMut(t) /\ (Access(u) \/ AccessMut(u)) => t = u
  /\ \A t \in Presented : AccessMut(t) => t \in issued \/ Token(t.id, FALSE) \in issued \ repaid
  /\ writer_ <=> \E t \in issued : AccessMut(t)

-----------------------------------------------------------------------------
\* Types.
AllTokens == [id : Nat, mut : BOOLEAN]

\* No two records have the same id.
Records ==
  /\ loans_ \in Seq(AllTokens) /\ next_id_ \in Nat /\ writer_ \in BOOLEAN
  /\ \A i, j \in 1..Len(loans_) : loans_[i].id = loans_[j].id => i = j

\* Ids are not given out twice, and who has a record has not repaid.
Known ==
  /\ issued \subseteq AllTokens /\ repaid \subseteq issued
  /\ \A t \in issued : t.id < next_id_
  /\ \A t, u \in issued : t.id = u.id => t = u
  /\ \A t \in AllTokens : Access(t) <=> t \in issued /\ t \notin repaid

\* A record of a writer is alone.
Writes ==
  /\ writer_ <=> \E i \in 1..Len(loans_) : loans_[i].mut
  /\ \A i \in 1..Len(loans_) : loans_[i].mut => Len(loans_) = 1

\* What every step keeps.
IInv == Records /\ Known /\ Writes
=============================================================================
