-------------------------- MODULE SequencedStream ---------------------------
(***************************************************************************)
(* The reorder buffer of logic/05_sequenced_stream behind a feed that      *)
(* loses, duplicates and reorders (external): a message sent may be        *)
(* delivered any number of times and in any order until it is lost, and    *)
(* the feed sends again what pending_gaps() reports.                       *)
(***************************************************************************)
EXTENDS Naturals, Sequences, FiniteSetsExt

CONSTANT MaxSeq           \* bound: the messages of the feed are 1 .. MaxSeq

SeqNums == 1 .. MaxSeq

VARIABLES
  next_, buffer_,         \* buffer_: the sequence numbers that are parked
  out,                    \* everything on_message() has returned
  sent, flying            \* the feed: how many were sent, what is under way

vars == <<next_, buffer_, out, sent, flying>>

Init ==
  /\ next_ = 1 /\ buffer_ = {}
  /\ out = <<>>
  /\ sent = 0 /\ flying = {}

Send ==
  /\ sent < MaxSeq
  /\ sent' = sent + 1 /\ flying' = flying \cup {sent + 1}
  /\ UNCHANGED <<next_, buffer_, out>>

Lose(n) ==
  /\ n \in flying /\ flying' = flying \ {n}
  /\ UNCHANGED <<next_, buffer_, out, sent>>

pending_gaps == IF buffer_ = {} THEN {} ELSE next_ .. Min(buffer_) - 1

SendAgain(n) ==
  /\ n \in pending_gaps \ flying /\ flying' = flying \cup {n}
  /\ UNCHANGED <<next_, buffer_, out, sent>>

\* Mutant: a follower stays in the buffer when the gap before it is filled.
ReleaseOne(n) ==
  /\ next_' = n + 1
  /\ out' = Append(out, n)
  /\ UNCHANGED buffer_

\* on_message() of the message that was expected: it comes out, and so does
\* what is parked behind it, up to the first number e that is not.
Release(n) == \E e \in n + 1 .. MaxSeq + 1 :
  /\ n + 1 .. e - 1 \subseteq buffer_ /\ e \notin buffer_
  /\ next_' = e
  /\ out' = out \o [i \in 1 .. e - n |-> n + i - 1]
  /\ buffer_' = buffer_ \ (n + 1 .. e - 1)

\* Mutant: what was delivered may be parked again.
ParkAny(n) == n # next_ /\ buffer_' = buffer_ \cup {n} /\ UNCHANGED <<next_, out>>

Park(n) == n > next_ /\ buffer_' = buffer_ \cup {n} /\ UNCHANGED <<next_, out>>

\* on_message(); the feed may deliver the message once more.
on_message(n) ==
  /\ n \in flying
  /\ flying' \in {flying, flying \ {n}}
  /\ \/ n < next_ /\ UNCHANGED <<next_, buffer_, out>>
     \/ Park(n)
     \/ n = next_ /\ Release(n)
  /\ UNCHANGED sent

\* The bounded feed has ended and reports no gap.
FeedOver == sent = MaxSeq /\ flying = {} /\ buffer_ = {} /\ UNCHANGED vars

Next ==
  \/ Send
  \/ FeedOver
  \/ \E n \in SeqNums : on_message(n) \/ Lose(n) \/ SendAgain(n)

(* The feed keeps answering gaps, and a message that is sent again and     *)
(* again gets through.                                                     *)
Fairness ==
  \A n \in SeqNums : WF_vars(SendAgain(n)) /\ SF_vars(on_message(n))

Spec == Init /\ [][Next]_vars /\ Fairness

-----------------------------------------------------------------------------
TypeOK ==
  /\ next_ \in 1 .. MaxSeq + 1 /\ buffer_ \subseteq SeqNums
  /\ out \in Seq(SeqNums) /\ sent \in 0 .. MaxSeq /\ flying \subseteq SeqNums

(* SequencedStream::on_message: the messages come out in sequence, each    *)
(* once, whatever the feed repeats; next_ is behind the last one, and what *)
(* is parked is ahead of it.                                               *)
InSequence ==
  /\ out = [i \in 1 .. next_ - 1 |-> i]
  /\ \A n \in buffer_ : n > next_

(* SequencedStream: a message that was parked is delivered in the end, as  *)
(* every gap before it is reported and filled.                             *)
ParkedDelivered == \A n \in SeqNums : n \in buffer_ ~> n < next_

-----------------------------------------------------------------------------
\* What every step keeps.
IInv == TypeOK /\ InSequence
=============================================================================
