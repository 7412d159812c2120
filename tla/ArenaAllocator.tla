--------------------------- MODULE ArenaAllocator ---------------------------
(***************************************************************************)
(* The bump allocator of memory/01_arena_allocator, in machine words.  The *)
(* chain of chunks is a sequence, the newest first; a chunk is where its   *)
(* Block lies in the heap, its size and what is used of it.  The heap      *)
(* (external) gives a Block the storage that `new Block` asks for, which   *)
(* is that of the header alone.                                            *)
(***************************************************************************)
EXTENDS Integers, Sequences, SequencesExt, FiniteSetsExt

CONSTANTS
  block_size_,
  Sizes, Alignments,  \* of the requests
  Header,             \* words of a Block
  Places,             \* where the heap puts a Block
  MaxLive             \* bound on the allocations

VARIABLES
  chain,              \* from head_ on
  block_count_,
  taken,              \* places the heap has given out
  live,               \* the allocations not undone, the oldest first
  marks               \* allocate_all(): the mark, and Len(live) then

vars == <<chain, block_count_, taken, live, marks>>

Init ==
  /\ chain = <<>> /\ block_count_ = 0
  /\ taken = {} /\ live = <<>> /\ marks = <<>>

AlignUp(v, a) == ((v + a - 1) \div a) * a

Data(b) == b.at + Header

NewBlock(c, at, size) == <<[at |-> at, size |-> size, used |-> 0]>> \o c

Requested(size, a) == AlignUp(Max({size, 1}), a)

Padding(b, a) == AlignUp(Data(b) + b.used, a) - (Data(b) + b.used)

Fits(b, size, a) == Padding(b, a) + Requested(size, a) <= b.size - b.used

\* allocate() when the newest chunk has room.
Bump(c, size, a) ==
  LET b == Head(c)
      taking == Padding(b, a) + Requested(size, a) IN
  /\ chain' = <<[b EXCEPT !.used = @ + taking]>> \o Tail(c)
  /\ live' = Append(live, [lo |-> AlignUp(Data(b) + b.used, a), size |-> Max({size, 1})])

\* The chunk that allocate() chains has headroom for the alignment.
ChunkSize(size, a) == Max({block_size_, Requested(size, a) + a})

\* The chunk at the head, if the arena has one, is full: allocate() chains a
\* chunk and tries again; a first chunk may turn out too small as well.
Chained(size, a, at, after) ==
  LET first == IF chain = <<>> THEN NewBlock(chain, at, block_size_) ELSE chain IN
  IF Fits(Head(first), size, a) THEN first
  ELSE NewBlock(first, after, ChunkSize(size, a))

allocate(size, a) ==
  /\ Len(live) < MaxLive
  /\ \E at, after \in Places :
       LET c == Chained(size, a, at, after)
           new == Len(c) - Len(chain)
           at_new == {c[k].at : k \in 1 .. new} IN
       /\ at_new \cap taken = {} /\ Cardinality(at_new) = new
       /\ Bump(c, size, a)
       /\ block_count_' = block_count_ + new
       /\ taken' = taken \cup at_new
  /\ UNCHANGED marks

allocate_all ==
  /\ Len(marks) < MaxLive
  /\ \E at \in Places :
       LET c == IF chain = <<>> THEN NewBlock(<<>>, at, block_size_) ELSE chain IN
       /\ chain = <<>> => at \notin taken
       /\ chain' = c
       /\ block_count_' = IF chain = <<>> THEN block_count_ + 1 ELSE block_count_
       /\ taken' = IF chain = <<>> THEN taken \cup {at} ELSE taken
       /\ marks' = Append(marks, [at |-> Data(Head(c)) + Head(c).used, n |-> Len(live)])
  /\ UNCHANGED live

Holds(b, target) == target \in Data(b) .. Data(b) + b.size - 1

\* rollback_to() the i-th mark: the first chunk that holds it, newest first.
rollback_to(i) ==
  LET m == marks[i]
      holders == {k \in DOMAIN chain : Holds(chain[k], m.at)}
      k == Min(holders) IN
  /\ live' = SubSeq(live, 1, m.n) /\ marks' = SubSeq(marks, 1, i)
  /\ IF holders = {} THEN UNCHANGED <<chain, block_count_, taken>>
     ELSE /\ chain' = <<[chain[k] EXCEPT !.used = m.at - Data(chain[k])]>>
                        \o SubSeq(chain, k + 1, Len(chain))
          /\ block_count_' = block_count_ - (k - 1)
          /\ taken' = taken \ {chain[j].at : j \in 1 .. k - 1}

\* reset() leaves head_ at the oldest chunk; the others are not linked to it.
reset ==
  /\ chain # <<>>
  /\ chain' = <<[Last(chain) EXCEPT !.used = 0]>>
  /\ live' = <<>> /\ marks' = <<>>
  /\ UNCHANGED <<block_count_, taken>>

release ==
  /\ taken' = taken \ {chain[k].at : k \in DOMAIN chain}
  /\ chain' = <<>> /\ block_count_' = 0
  /\ live' = <<>> /\ marks' = <<>>

Next ==
  \/ \E s \in Sizes, a \in Alignments : allocate(s, a)
  \/ allocate_all
  \/ \E i \in DOMAIN marks : rollback_to(i)
  \/ reset
  \/ release

Spec == Init /\ [][Next]_vars

-----------------------------------------------------------------------------
Words(x) == x.lo .. x.lo + x.size - 1

(* allocate(): "returned addresses NEVER overlap across undispatched       *)
(* allocations" (arena_allocator.h), with chunks that lie in the heap      *)
(* where `new Block` puts them.                                            *)
NeverOverlap ==
  \A i, j \in DOMAIN live : i # j => Words(live[i]) \cap Words(live[j]) = {}

=============================================================================
