------------------------------ MODULE Seqlock -------------------------------
(***************************************************************************)
(* The seqlock of concurrency/02_seqlock.  The n-th write() stores the     *)
(* payload n, as an atomic, between the counts 2n - 1 and 2n.  A reader    *)
(* loads, of each variable, a store no older than the last it knows of;    *)
(* where Ordered, the latest.  A release store brings the payload along to *)
(* the acquire load that reads it; the others bring nothing.               *)
(***************************************************************************)
EXTENDS Naturals

CONSTANTS
  Readers,
  MaxWrites,  \* bound on the calls of write()
  Ordered     \* whether stores are seen as they are made

VARIABLES
  seq_, value_,
  wpc,              \* the writer
  pc, s1, copy,     \* the readers: locals of read()
  seqKnown, valueKnown,
  atCall, got       \* payload published when read() was called; last result

wVars == <<seq_, value_, wpc>>
rVars == <<pc, s1, copy, seqKnown, valueKnown, atCall, got>>
vars == <<wVars, rVars>>

Init ==
  /\ seq_ = 0 /\ value_ = 0 /\ wpc = "idle"
  /\ pc = [r \in Readers |-> "idle"]
  /\ s1 = [r \in Readers |-> 0] /\ copy = [r \in Readers |-> 0]
  /\ seqKnown = [r \in Readers |-> 0] /\ valueKnown = [r \in Readers |-> 0]
  /\ atCall = [r \in Readers |-> 0] /\ got = [r \in Readers |-> 0]

-----------------------------------------------------------------------------
\* write(), one action per store.
WriteOdd ==
  /\ wpc = "idle" /\ value_ < MaxWrites
  /\ seq_' = seq_ + 1 /\ wpc' = "odd"
  /\ UNCHANGED <<value_, rVars>>

WriteValue ==
  /\ wpc = "odd" /\ value_' = value_ + 1 /\ wpc' = "stored"
  /\ UNCHANGED <<seq_, rVars>>

WriteEven ==
  /\ wpc = "stored" /\ seq_' = seq_ + 1 /\ wpc' = "idle"
  /\ UNCHANGED <<value_, rVars>>

Published == seq_ \div 2

-----------------------------------------------------------------------------
Goto(r, l) == pc' = [pc EXCEPT ![r] = l]
Visible(known, latest) == IF Ordered THEN {latest} ELSE known .. latest
Later(a, b) == IF a > b THEN a ELSE b

Call(r) ==
  /\ pc[r] = "idle" /\ Goto(r, "first")
  /\ atCall' = [atCall EXCEPT ![r] = Published]
  /\ UNCHANGED <<wVars, s1, copy, seqKnown, valueKnown, got>>

\* s1; an odd count starts over.
LoadFirst(r) ==
  /\ pc[r] = "first"
  /\ \E s \in Visible(seqKnown[r], seq_) :
       /\ s1' = [s1 EXCEPT ![r] = s]
       /\ seqKnown' = [seqKnown EXCEPT ![r] = s]
       /\ valueKnown' = [valueKnown EXCEPT ![r] = IF s % 2 = 0 THEN Later(@, s \div 2) ELSE @]
       /\ Goto(r, IF s % 2 = 1 THEN "first" ELSE "copy")
  /\ UNCHANGED <<wVars, copy, atCall, got>>

LoadValue(r) ==
  /\ pc[r] = "copy" /\ Goto(r, "second")
  /\ \E v \in Visible(valueKnown[r], value_) :
       /\ copy' = [copy EXCEPT ![r] = v]
       /\ valueKnown' = [valueKnown EXCEPT ![r] = v]
  /\ UNCHANGED <<wVars, s1, seqKnown, atCall, got>>

\* Mutant: whatever the second count is.
LoadSecondIgnored(r) ==
  /\ pc[r] = "second" /\ Goto(r, "idle")
  /\ got' = [got EXCEPT ![r] = copy[r]]
  /\ UNCHANGED <<wVars, s1, copy, seqKnown, valueKnown, atCall>>

\* s2; read() returns if it is s1.
LoadSecond(r) ==
  /\ pc[r] = "second"
  /\ \E s \in Visible(seqKnown[r], seq_) :
       /\ seqKnown' = [seqKnown EXCEPT ![r] = s]
       /\ \/ s = s1[r] /\ got' = [got EXCEPT ![r] = copy[r]] /\ Goto(r, "idle")
          \/ s # s1[r] /\ UNCHANGED got /\ Goto(r, "first")
  /\ UNCHANGED <<wVars, s1, copy, valueKnown, atCall>>

ReadStep(r) == Call(r) \/ LoadFirst(r) \/ LoadValue(r) \/ LoadSecond(r)

Next == WriteOdd \/ WriteValue \/ WriteEven \/ \E r \in Readers : ReadStep(r)

Spec == Init /\ [][Next]_vars

-----------------------------------------------------------------------------
Returns(r) == pc[r] = "second" /\ pc'[r] = "idle"

(* read(): where stores are seen in order, the snapshot was published, and *)
(* not before the call began; and in any case a reader never goes back, and*)
(* gets the payload of the count it saw or a later one.                    *)
SnapshotsCurrent ==
  \A r \in Readers : Returns(r) =>
    /\ got'[r] >= got[r] /\ got'[r] >= s1[r] \div 2
    /\ Ordered => got'[r] \in atCall[r] .. Published

-----------------------------------------------------------------------------
\* Types.
Types ==
  /\ value_ \in Nat /\ seq_ \in Nat
  /\ pc \in [Readers -> {"idle", "first", "copy", "second"}]
  /\ {s1, copy, seqKnown, valueKnown, atCall, got} \subseteq [Readers -> Nat]

\* seq_ counts the stores of the writer, two to a payload.
Counting ==
  \/ wpc = "idle" /\ seq_ = 2 * value_
  \/ wpc = "odd" /\ seq_ = 2 * value_ + 1
  \/ wpc = "stored" /\ seq_ + 1 = 2 * value_

\* What a reader has seen is in the past.
Known(r) ==
  /\ seqKnown[r] <= seq_ /\ valueKnown[r] <= value_
  /\ got[r] <= valueKnown[r] /\ 2 * atCall[r] <= seq_

\* A read under way has an even count, and a payload not older than that.
Reading(r) ==
  /\ pc[r] \in {"copy", "second"} =>
       s1[r] % 2 = 0 /\ s1[r] <= seq_ /\ s1[r] <= 2 * valueKnown[r]
  /\ pc[r] = "second" => /\ copy[r] = valueKnown[r]
                         /\ Ordered /\ seq_ = s1[r] => copy[r] = value_

\* What every step keeps.
IInv == Types /\ Counting /\ \A r \in Readers : Known(r) /\ Reading(r)
=============================================================================
