----------------------------- MODULE ObjectPool -----------------------------
(***************************************************************************)
(* ObjectPool of exercises/concurrency/07_object_pool: a freelist threaded *)
(* through head_, popped and pushed by CAS, and RAII handles.  One action  *)
(* per atomic operation on shared memory; live_, which only the destructor *)
(* reads, changes with the CAS beside it.  Slot 0 is nullptr; every thread *)
(* has its own handle variables.                                           *)
(***************************************************************************)
EXTENDS Integers, FiniteSetTheorems, SequenceTheorems, WellFoundedInduction,
        TLAPS

CONSTANTS Threads, Capacity, HandleIds, NoHandle

Slots == 1 .. Capacity
nullptr == 0

VARIABLES
  head_, next, live_,
  handle,     \* handle[t][h]: the slot (obj_) of handle h of thread t, or nullptr
  detached,   \* the slots given away for good by Handle::release()
  pc,
  op,         \* op[t]: the handle the call in progress works on, and for a
              \* move-assignment the handle it moves from
  slot, nxt   \* the locals of acquire() and release_obj()

vars == <<head_, next, live_, handle, detached, pc, op, slot, nxt>>

Goto(t, l) == pc' = [pc EXCEPT ![t] = l]

Init ==
  /\ head_ = IF Capacity = 0 THEN nullptr ELSE 1
  /\ next = [s \in Slots |-> IF s < Capacity THEN s + 1 ELSE nullptr]
  /\ live_ = 0
  /\ handle = [t \in Threads |-> [h \in HandleIds |-> nullptr]]
  /\ detached = {}
  /\ pc = [t \in Threads |-> "idle"]
  /\ op = [t \in Threads |-> [to |-> NoHandle, from |-> NoHandle]]
  /\ slot = [t \in Threads |-> nullptr]
  /\ nxt = [t \in Threads |-> nullptr]

-----------------------------------------------------------------------------
(* acquire(), whose result initialises the empty handle h *)

\* slot is (re)loaded from head_: a null head is an exhausted pool.
Look(t) ==
  /\ slot' = [slot EXCEPT ![t] = head_]
  /\ Goto(t, IF head_ = nullptr THEN "idle" ELSE "next")

Acquire(t, h) ==
  /\ pc[t] = "idle"
  /\ handle[t][h] = nullptr
  /\ op' = [op EXCEPT ![t].to = h]
  /\ Look(t)
  /\ UNCHANGED <<head_, next, live_, handle, detached, nxt>>

ReadNext(t) ==
  /\ pc[t] = "next"
  /\ nxt' = [nxt EXCEPT ![t] = next[slot[t]]]
  /\ Goto(t, "pop")
  /\ UNCHANGED <<head_, next, live_, handle, detached, op, slot>>

\* Mutant: the head is stored without comparing.
PopBlindly(t) ==
  /\ pc[t] = "pop"
  /\ head_' = nxt[t]
  /\ handle' = [handle EXCEPT ![t][op[t].to] = slot[t]]
  /\ live_' = live_ + 1
  /\ Goto(t, "idle")
  /\ UNCHANGED <<next, detached, op, slot, nxt>>

Pop(t) ==
  /\ pc[t] = "pop"
  /\ head_ = slot[t]
  /\ head_' = nxt[t]
  /\ handle' = [handle EXCEPT ![t][op[t].to] = slot[t]]
  /\ live_' = live_ + 1
  /\ Goto(t, "idle")
  /\ UNCHANGED <<next, detached, op, slot, nxt>>

\* The CAS fails, because of another thread or spuriously, and reloads slot.
PopFails(t) ==
  /\ pc[t] = "pop"
  /\ Look(t)
  /\ UNCHANGED <<head_, next, live_, handle, detached, op, nxt>>

-----------------------------------------------------------------------------
(* Handle: reset(), the destructor, move and release() *)

\* reset() of h begins release_obj(); a move-assignment h = move(g) does
\* that first when h owns an object.
Release(t, h, g) ==
  /\ pc[t] = "idle"
  /\ h # g
  /\ handle[t][h] # nullptr
  /\ op' = [op EXCEPT ![t] = [to |-> h, from |-> g]]
  /\ slot' = [slot EXCEPT ![t] = handle[t][h]]
  /\ nxt' = [nxt EXCEPT ![t] = head_]
  /\ Goto(t, "store")
  /\ UNCHANGED <<head_, next, live_, handle, detached>>

StoreNext(t) ==
  /\ pc[t] = "store"
  /\ next' = [next EXCEPT ![slot[t]] = nxt[t]]
  /\ Goto(t, "push")
  /\ UNCHANGED <<head_, live_, handle, detached, op, slot, nxt>>

\* The thread's handles after h = move(g), or after a reset of h.
Moved(hs, h, g) ==
  IF g = NoHandle THEN [hs EXCEPT ![h] = nullptr]
                  ELSE [hs EXCEPT ![h] = hs[g], ![g] = nullptr]

Push(t) ==
  /\ pc[t] = "push"
  /\ head_ = nxt[t]
  /\ head_' = slot[t]
  /\ live_' = live_ - 1
  /\ handle' = [handle EXCEPT ![t] = Moved(@, op[t].to, op[t].from)]
  /\ Goto(t, "idle")
  /\ UNCHANGED <<next, detached, op, slot, nxt>>

PushFails(t) ==
  /\ pc[t] = "push"
  /\ nxt' = [nxt EXCEPT ![t] = head_]
  /\ Goto(t, "store")
  /\ UNCHANGED <<head_, next, live_, handle, detached, op, slot>>

\* A move into an empty handle needs no release.
Move(t, h, g) ==
  /\ pc[t] = "idle"
  /\ h # g /\ handle[t][h] = nullptr /\ handle[t][g] # nullptr
  /\ handle' = [handle EXCEPT ![t] = Moved(@, h, g)]
  /\ UNCHANGED <<head_, next, live_, detached, pc, op, slot, nxt>>

\* Handle::release(): the caller keeps the object, the slot never returns.
Detach(t, h) ==
  /\ pc[t] = "idle"
  /\ handle[t][h] # nullptr
  /\ detached' = detached \cup {handle[t][h]}
  /\ handle' = [handle EXCEPT ![t][h] = nullptr]
  /\ live_' = live_ - 1
  /\ UNCHANGED <<head_, next, pc, op, slot, nxt>>

-----------------------------------------------------------------------------
Step(t) ==
  ReadNext(t) \/ Pop(t) \/ PopFails(t) \/ StoreNext(t) \/ Push(t) \/ PushFails(t)

Next ==
  \E t \in Threads :
    \/ Step(t)
    \/ \E h \in HandleIds :
         \/ Acquire(t, h) \/ Detach(t, h)
         \/ \E g \in HandleIds \cup {NoHandle} : Release(t, h, g)
         \/ \E g \in HandleIds : Move(t, h, g)

Spec == Init /\ [][Next]_vars

-----------------------------------------------------------------------------
(* Types; live_ is unsigned in the code and may not pass below zero.       *)
TypeOK ==
  /\ head_ \in Slots \cup {nullptr}
  /\ next \in [Slots -> Slots \cup {nullptr}]
  /\ live_ \in 0 .. Capacity
  /\ handle \in [Threads -> [HandleIds -> Slots \cup {nullptr}]]
  /\ detached \subseteq Slots
  /\ pc \in [Threads -> {"idle", "next", "pop", "store", "push"}]
  /\ op \in [Threads -> [to : HandleIds \cup {NoHandle},
                         from : HandleIds \cup {NoHandle}]]
  /\ slot \in [Threads -> Slots \cup {nullptr}]
  /\ nxt \in [Threads -> Slots \cup {nullptr}]

\* The freelist: what a walk from head_ along next meets.
Walk[n \in 0 .. Capacity] ==
  IF n = 0 THEN head_ ELSE IF Walk[n - 1] = nullptr THEN nullptr ELSE next[Walk[n - 1]]

Free == {Walk[n] : n \in 0 .. Capacity} \ {nullptr}

Owners(s) == {o \in Threads \X HandleIds : handle[o[1]][o[2]] = s}

(* A slot is owned by at most one handle: acquire() never hands out an     *)
(* object that another handle still owns.                                  *)
HandlesExclusive == \A s \in Slots : Cardinality(Owners(s)) <= 1

(* A slot is in exactly one place, on the freelist, in one handle or given *)
(* away: nothing is handed out twice, freed twice or lost.                 *)
OnePlace ==
  \A s \in Slots :
    Cardinality(Owners(s)) + (IF s \in Free THEN 1 ELSE 0)
                           + (IF s \in detached THEN 1 ELSE 0) = 1

(* live_ counts the handles that own an object, so that the destructor's   *)
(* assertion means that every handle has been returned.                    *)
LiveCounts ==
  live_ = Cardinality({o \in Threads \X HandleIds : handle[o[1]][o[2]] # nullptr})

-----------------------------------------------------------------------------
\* The threads T use the pool through the handles H: one thread, or two threads
\* with one handle each.
Modest(T, H) ==
  /\ Capacity \in Nat /\ IsFiniteSet(Threads) /\ IsFiniteSet(HandleIds)
  /\ NoHandle \notin HandleIds /\ T \subseteq Threads /\ H \subseteq HandleIds
  /\ \A t, u, v \in T : t = u \/ t = v \/ u = v
  /\ (\A t, u \in T : t = u) \/ (\A h, g \in H : h = g)

\* A step of that use.
Use(T, H) ==
  \E t \in T :
    \/ Step(t)
    \/ \E h \in H :
         \/ Acquire(t, h) \/ Detach(t, h)
         \/ \E g \in H \cup {NoHandle} : Release(t, h, g)
         \/ \E g \in H : Move(t, h, g)

\* Types, but for live_, which LiveCounts determines.
Types ==
  /\ head_ \in Slots \cup {nullptr}
  /\ next \in [Slots -> Slots \cup {nullptr}]
  /\ handle \in [Threads -> [HandleIds -> Slots \cup {nullptr}]]
  /\ detached \subseteq Slots
  /\ pc \in [Threads -> {"idle", "next", "pop", "store", "push"}]
  /\ op \in [Threads -> [to : HandleIds \cup {NoHandle}, from : HandleIds \cup {NoHandle}]]
  /\ slot \in [Threads -> Slots \cup {nullptr}]
  /\ nxt \in [Threads -> Slots \cup {nullptr}]

\* Nobody else works on the pool, and no other handle owns anything.
Unused(T, H) ==
  /\ \A t \in Threads \ T : pc[t] = "idle"
  /\ \A t \in Threads, h \in HandleIds : handle[t][h] # nullptr => t \in T /\ h \in H

\* A slot has one handle at most, and none when it was given away.
Owned ==
  /\ \A t, u \in Threads : \A h, g \in HandleIds :
       handle[t][h] # nullptr /\ handle[t][h] = handle[u][g] => t = u /\ h = g
  /\ \A t \in Threads, h \in HandleIds : handle[t][h] \notin detached

\* The slots that acquire() may hand out.
Loose == {s \in Slots \ detached : \A t \in Threads, h \in HandleIds : handle[t][h] # s}

\* acquire() fills an empty handle; release_obj() returns the slot of its handle.
Working(t, H) ==
  /\ pc[t] \in {"next", "pop"} =>
       op[t].to \in H /\ handle[t][op[t].to] = nullptr /\ slot[t] \in Slots
  /\ pc[t] \in {"store", "push"} =>
       /\ op[t].to \in H /\ op[t].from \in (H \cup {NoHandle}) \ {op[t].to}
       /\ slot[t] \in Slots /\ slot[t] = handle[t][op[t].to]
  /\ pc[t] = "push" => next[slot[t]] = nxt[t]

\* Thread u has the slot that t has loaded, as it took it from the head.
Borrowed(t, u) ==
  /\ \E h \in HandleIds : handle[u][h] = slot[t]
  /\ next[slot[t]] = head_
  /\ pc[t] = "pop" => nxt[t] = head_
  /\ pc[u] \in {"store", "push"} => nxt[u] = head_

\* The slot that an acquire() has loaded is free with the link that was read, in
\* the hands of the other thread, to return the list as it was, or gone for good.
Seen(t) ==
  pc[t] \in {"next", "pop"} =>
    \/ slot[t] \in Loose /\ (pc[t] = "pop" => nxt[t] = next[slot[t]])
    \/ slot[t] \in detached
    \/ \E u \in Threads \ {t} : Borrowed(t, u)

\* What every step of that use keeps, with the free list.
IInv(T, H) ==
  /\ Types /\ Unused(T, H) /\ Owned /\ LiveCounts
  /\ \A t \in T : Working(t, H) /\ Seen(t)

-----------------------------------------------------------------------------
(* Linked lists *)

(* A set of numbers that is not empty has a least one.                     *)
LEMMA NatMin ==
  ASSUME NEW T \in SUBSET Nat, T # {} 
  PROVE  \E x \in T : \A y \in T : x <= y
<1> DEFINE R == OpToRel(<, Nat)
<1>1. IsWellFoundedOn(R, Nat)
  BY NatLessThanWellFounded
<1>2. \A x, y \in Nat : y < x => <<y, x>> \in R
  BY DEF OpToRel
<1> HIDE DEF R
<1>3. PICK x \in T : \A y \in T : ~ (<<y, x>> \in R)
  BY <1>1, WFMin
<1>4. ASSUME NEW y \in T PROVE x <= y
  <2>1. x \in Nat /\ y \in Nat
    OBVIOUS
  <2>2. ~(y < x)
    BY <2>1, <1>2, <1>3, Zenon
  <2> QED
    BY <2>1, <2>2
<1> QED
  BY <1>4

\* s lists what hangs on head along the links, nil being the end.
Chained(S, nil, head, link, s) ==
  /\ s \in Seq(S)
  /\ \A i, j \in 1 .. Len(s) : s[i] = s[j] => i = j
  /\ head = IF s = <<>> THEN nil ELSE s[1]
  /\ \A i \in 1 .. Len(s) : link[s[i]] = IF i < Len(s) THEN s[i + 1] ELSE nil

\* W[k] is where k links lead, nil leading nowhere.
Follows(S, nil, head, link, n, W) ==
  /\ W[0] = head
  /\ \A k \in 1 .. n : /\ W[k - 1] \in S => W[k] = link[W[k - 1]]
                       /\ W[k - 1] = nil => W[k] = nil

\* Only x's link may have changed.
SameBut(S, x, link, after) == \A y \in S \ {x} : after[y] = link[y]

\* One more link.
WalkTo(nil, head, link, f, k) == IF k = 0 THEN head ELSE IF f[k - 1] = nil THEN nil ELSE link[f[k - 1]]

\* f goes c links far.
IsWalk(nil, head, link, c, f) == f = [k \in 0 .. c |-> WalkTo(nil, head, link, f, k)]

\* The elements of the list.
Members(s) == {s[i] : i \in 1 .. Len(s)}

(* A walk of any length exists: if not, up to a least length, to which one *)
(* more link can be added.                                                 *)
LEMMA WalkExists ==
  ASSUME NEW nil, NEW head, NEW link, NEW c \in Nat
  PROVE  \E f : IsWalk(nil, head, link, c, f)
<1> DEFINE G(f, k) == IF k = 0 THEN head ELSE IF f[k - 1] = nil THEN nil ELSE link[f[k - 1]]
           E(m) == \E f : f = [k \in 0 .. m |-> G(f, k)]
           T == {m \in 0 .. c : ~ E(m)}
<1>0. E(0)
  <2> DEFINE h == [n \in 0 .. 0 |-> head]
  <2>1. h = [n \in 0 .. 0 |-> G(h, n)]
    OBVIOUS
  <2> QED
    BY <2>1
<1>1. ASSUME NEW m \in Nat, E(m) PROVE E(m + 1)
  <2>1. PICK f : f = [n \in 0 .. m |-> G(f, n)]
    BY <1>1
  <2> DEFINE g == IF f[m] = nil THEN nil ELSE link[f[m]]
             h == [n \in 0 .. m + 1 |-> IF n = m + 1 THEN g ELSE f[n]]
  <2>2. \A n \in 0 .. m : h[n] = f[n] /\ f[n] = G(f, n)
    BY <2>1
  <2>3. h[m + 1] = g
    OBVIOUS
  <2> HIDE DEF g, h
  <2>4. \A n \in 0 .. m : h[n] = G(h, n)
    BY <2>2
  <2>5. h[m + 1] = G(h, m + 1)
    BY <2>2, <2>3 DEF g
  <2>6. \A n \in 0 .. m + 1 : h[n] = G(h, n)
    BY <2>4, <2>5
  <2>7. h = [n \in 0 .. m + 1 |-> h[n]]
    BY DEF h
  <2>8. h = [n \in 0 .. m + 1 |-> G(h, n)]
    <3> HIDE DEF G
    <3> QED
      BY <2>6, <2>7
  <2> QED
    BY <2>8
<1> HIDE DEF E
<1>2. T = {}
  <2> SUFFICES ASSUME T # {} PROVE FALSE
    OBVIOUS
  <2>0. T \in SUBSET Nat
    OBVIOUS
  <2> HIDE DEF T
  <2>1. PICK m \in T : \A y \in T : m <= y
    BY <2>0, NatMin
  <2>2. m # 0
    BY <2>1, <1>0 DEF T
  <2>3. m - 1 \in Nat /\ m - 1 \notin T
    BY <2>0, <2>1, <2>2
  <2>4. E(m - 1)
    BY <2>3, <2>1 DEF T
  <2>5. E((m - 1) + 1)
    BY <2>3, <2>4, <1>1
  <2> QED
    BY <2>5, <2>1 DEF T
<1>3. c \in 0 .. c /\ c \notin T
  BY <1>2
<1>4. E(c)
  BY <1>3
<1>5. PICK f : f = [k \in 0 .. c |-> G(f, k)]
  BY <1>4 DEF E
<1>6. \A k : G(f, k) = WalkTo(nil, head, link, f, k)
  BY DEF WalkTo
<1>7. f = [k \in 0 .. c |-> WalkTo(nil, head, link, f, k)]
  <2> HIDE DEF G
  <2> QED
    BY <1>5, <1>6
<1> QED
  BY <1>7 DEF IsWalk

(* A list of different elements is no longer than their set is large.      *)
LEMMA ChainFits ==
  ASSUME NEW S, IsFiniteSet(S), NEW r \in Seq(S), \A i, j \in 1 .. Len(r) : r[i] = r[j] => i = j
  PROVE  Len(r) <= Cardinality(S)
<1> DEFINE R == {r[i] : i \in 1 .. Len(r)}
<1>0. Len(r) \in Nat /\ R \subseteq S
  OBVIOUS
<1>1. r \in Bijection(1 .. Len(r), R)
  <2>1. r \in [1 .. Len(r) -> R]
    OBVIOUS
  <2> QED
    BY <2>1 DEF Bijection, Injection, Surjection, IsInjective
<1>2. ExistsBijection(1 .. Len(r), R)
  BY <1>1 DEF ExistsBijection
<1>3. IsFiniteSet(1 .. Len(r)) /\ Cardinality(1 .. Len(r)) = Len(r)
  <2>1. \A k \in Nat : IsFiniteSet(1 .. k) /\ Cardinality(1 .. k) = IF 1 > k THEN 0 ELSE k - 1 + 1
    <3> TAKE k \in Nat
    <3>1. 1 \in Int /\ k \in Int
      OBVIOUS
    <3> QED
      BY <3>1, FS_Interval
  <2>2. \A k \in Nat : (IF 1 > k THEN 0 ELSE k - 1 + 1) = k
    OBVIOUS
  <2> QED
    BY <1>0, <2>1, <2>2
<1> HIDE DEF R
<1>4. Cardinality(R) = Len(r)
  BY <1>2, <1>3, FS_Bijection
<1>5. Cardinality(R) <= Cardinality(S)
  BY <1>0, FS_Subset
<1> QED
  BY <1>4, <1>5

(* Following the links long enough meets the members of the list and no    *)
(* others.                                                                 *)
LEMMA ChainWalked ==
  ASSUME NEW S, NEW nil, nil \notin S, NEW head, NEW link, NEW s, Chained(S, nil, head, link, s),
         NEW n \in Nat, Len(s) <= n, NEW W, Follows(S, nil, head, link, n, W)
  PROVE  /\ \A k \in 0 .. n : W[k] # nil => W[k] \in Members(s)
         /\ \A x \in Members(s) : \E k \in 0 .. n : W[k] = x /\ x # nil
         /\ \A k \in 0 .. n : W[k] # nil => \A j \in 0 .. k : W[j] # nil
<1> DEFINE A(k) == IF k < Len(s) THEN s[k + 1] ELSE nil
           T == {m \in 0 .. n : W[m] # A(m)}
<1>0. s \in Seq(S) /\ Len(s) \in Nat /\ (s = <<>> <=> Len(s) = 0)
      /\ \A i \in 1 .. Len(s) : s[i] \in S /\ s[i] # nil
  BY DEF Chained
<1>1. T = {}
  <2> SUFFICES ASSUME T # {} PROVE FALSE
    OBVIOUS
  <2>0. T \in SUBSET Nat
    OBVIOUS
  <2> HIDE DEF T
  <2>1. PICK m \in T : \A y \in T : m <= y
    BY <2>0, NatMin
  <2>2. m # 0
    BY <1>0, <2>1 DEF T, Chained, Follows
  <2>3. m \in 1 .. n /\ m - 1 \in 0 .. n /\ m - 1 \notin T
    BY <2>0, <2>1, <2>2 DEF T
  <2>4. W[m - 1] = IF m - 1 < Len(s) THEN s[m] ELSE nil
    BY <2>3 DEF T
  <2>6. CASE m <= Len(s)
    <3>1. m \in 1 .. Len(s) /\ m - 1 < Len(s)
      BY <1>0, <2>3, <2>6
    <3>2. W[m] = link[s[m]]
      BY <3>1, <1>0, <2>3, <2>4 DEF Follows
    <3>3. W[m] = IF m < Len(s) THEN s[m + 1] ELSE nil
      BY <3>1, <3>2 DEF Chained
    <3> QED
      BY <3>3, <2>1 DEF T
  <2>7. CASE ~(m <= Len(s))
    <3>1. ~(m < Len(s)) /\ ~(m - 1 < Len(s))
      BY <1>0, <2>3, <2>7
    <3>2. W[m] = nil
      BY <3>1, <2>3, <2>4 DEF Follows
    <3> QED
      BY <3>1, <3>2, <2>1 DEF T
  <2> QED
    BY <2>6, <2>7
<1>2. \A k \in 0 .. n : W[k] = A(k)
  BY <1>1
<1>3. ASSUME NEW k \in 0 .. n, W[k] # nil PROVE W[k] \in Members(s)
  <2>1. k < Len(s) /\ W[k] = s[k + 1]
    BY <1>2, <1>3
  <2>2. k + 1 \in 1 .. Len(s)
    BY <2>1, <1>0
  <2> QED
    BY <2>1, <2>2 DEF Members
<1>4. ASSUME NEW i \in 1 .. Len(s) PROVE \E k \in 0 .. n : W[k] = s[i] /\ s[i] # nil
  <2>1. i - 1 \in 0 .. n /\ i - 1 < Len(s) /\ (i - 1) + 1 = i
    BY <1>0
  <2>2. W[i - 1] = s[i]
    BY <1>2, <2>1
  <2> QED
    BY <2>1, <2>2, <1>0
<1>5. ASSUME NEW k \in 0 .. n, W[k] # nil, NEW j \in 0 .. k PROVE W[j] # nil
  <2>1. k < Len(s) /\ j \in 0 .. n /\ j < Len(s) /\ j + 1 \in 1 .. Len(s)
    BY <1>0, <1>2, <1>5
  <2>2. W[j] = s[j + 1]
    BY <1>2, <2>1
  <2> QED
    BY <2>1, <2>2, <1>0
<1> QED
  BY <1>3, <1>4, <1>5 DEF Members

(* The first is taken off.                                                 *)
LEMMA ChainPopped ==
  ASSUME NEW S, NEW nil, nil \notin S, NEW head, NEW link, NEW s, Chained(S, nil, head, link, s),
         head # nil, NEW after, SameBut(S, head, link, after)
  PROVE  /\ Chained(S, nil, link[head], after, Tail(s)) /\ head \in S /\ head \in Members(s)
         /\ Members(Tail(s)) = Members(s) \ {head}
<1>0. /\ s \in Seq(S) /\ s # <<>> /\ Len(s) \in Nat /\ Len(s) > 0 /\ s[1] = head
      /\ \A i \in 1 .. Len(s) : s[i] \in S
  BY DEF Chained
<1> DEFINE t == Tail(s)
<1>l. Len(s) \in Nat /\ Len(s) > 0
  BY <1>0
<1>1. /\ t \in Seq(S) /\ Len(t) = Len(s) - 1 /\ (t = <<>> <=> Len(t) = 0)
      /\ \A i \in 1 .. Len(s) - 1 : t[i] = s[i + 1]
  <2>1. t \in Seq(S) /\ Len(t) = Len(s) - 1 /\ \A i \in 1 .. Len(s) - 1 : t[i] = s[i + 1]
    BY <1>0
  <2> HIDE DEF t
  <2>2. t = <<>> <=> Len(t) = 0
    BY <2>1
  <2> QED
    BY <2>1, <2>2
<1> HIDE DEF t
<1>2. ASSUME NEW i \in 1 .. Len(t), NEW j \in 1 .. Len(t), t[i] = t[j] PROVE i = j
  <2>1. /\ i \in 1 .. Len(s) - 1 /\ i + 1 \in 1 .. Len(s)
        /\ j \in 1 .. Len(s) - 1 /\ j + 1 \in 1 .. Len(s)
    BY <1>0, <1>1
  <2>2. s[i + 1] = s[j + 1]
    BY <1>1, <2>1, <1>2
  <2>3. i + 1 = j + 1
    BY <2>1, <2>2 DEF Chained
  <2> QED
    BY <2>1, <2>3
<1>3. ASSUME NEW i \in 1 .. Len(t) PROVE t[i] # head
  <2>1. i \in Nat \ {0} /\ i + 1 \in 1 .. Len(s) /\ 1 \in 1 .. Len(s) /\ t[i] = s[i + 1] /\ i + 1 # 1
    BY <1>0, <1>1
  <2> QED
    BY <2>1, <1>0 DEF Chained
<1>4. link[head] = IF t = <<>> THEN nil ELSE t[1]
  <2>1. 1 \in 1 .. Len(s) /\ link[s[1]] = IF 1 < Len(s) THEN s[1 + 1] ELSE nil
    BY <1>0 DEF Chained
  <2>2. CASE Len(s) = 1
    BY <2>1, <2>2, <1>0, <1>1
  <2>3. CASE Len(s) # 1
    <3>0. \A m \in Nat : m > 0 /\ m # 1 => 1 < m /\ 1 \in 1 .. m - 1
      OBVIOUS
    <3>1. 1 < Len(s) /\ 1 \in 1 .. Len(s) - 1
      BY <1>l, <2>3, <3>0
    <3>2. t[1] = s[1 + 1] /\ t # <<>>
      BY <1>0, <1>1, <3>1
    <3> QED
      BY <3>1, <3>2, <2>1, <1>0
  <2> QED
    BY <2>2, <2>3
<1>5. ASSUME NEW i \in 1 .. Len(t) PROVE after[t[i]] = IF i < Len(t) THEN t[i + 1] ELSE nil
  <2>1. i + 1 \in 1 .. Len(s) /\ t[i] = s[i + 1] /\ t[i] \in S \ {head}
    BY <1>0, <1>1, <1>3
  <2>2. after[t[i]] = link[s[i + 1]]
    BY <2>1 DEF SameBut
  <2>3. link[s[i + 1]] = IF i + 1 < Len(s) THEN s[i + 2] ELSE nil
    BY <2>1, <1>0 DEF Chained
  <2> QED
    BY <1>0, <1>1, <2>1, <2>2, <2>3
<1>6. Members(t) = Members(s) \ {head}
  <2>1. ASSUME NEW i \in 1 .. Len(t) PROVE t[i] \in Members(s) \ {head}
    <3>1. i + 1 \in 1 .. Len(s) /\ t[i] = s[i + 1]
      BY <1>0, <1>1
    <3> QED
      BY <3>1, <1>3 DEF Members
  <2>2. ASSUME NEW i \in 1 .. Len(s), s[i] # head PROVE s[i] \in Members(t)
    <3>1. i # 1 /\ i - 1 \in 1 .. Len(t) /\ (i - 1) + 1 = i
      BY <1>0, <1>1, <2>2
    <3>2. t[i - 1] = s[i]
      BY <1>0, <1>1, <3>1
    <3> QED
      BY <3>1, <3>2 DEF Members
  <2> QED
    BY <2>1, <2>2 DEF Members
<1>7. head \in Members(s)
  BY <1>0 DEF Members
<1> QED
  BY <1>0, <1>1, <1>2, <1>4, <1>5, <1>6, <1>7 DEF Chained, t

(* One that was not there is put in front.                                 *)
LEMMA ChainPushed ==
  ASSUME NEW S, NEW nil, nil \notin S, NEW head, NEW link, NEW s, Chained(S, nil, head, link, s),
         NEW x \in S, x \notin Members(s), NEW after, after[x] = head, SameBut(S, x, link, after)
  PROVE  \E t : Chained(S, nil, x, after, t) /\ Members(t) = Members(s) \cup {x}
<1>0. s \in Seq(S) /\ Len(s) \in Nat /\ (\A i \in 1 .. Len(s) : s[i] \in S /\ s[i] # x) /\ (s = <<>> <=> Len(s) = 0)
  BY DEF Chained, Members
<1> DEFINE t == <<x>> \o s
<1>1. t \in Seq(S) /\ Len(t) = Len(s) + 1 /\ t[1] = x /\ \A i \in 1 .. Len(s) : t[i + 1] = s[i]
  BY <1>0
<1> HIDE DEF t
<1>i. \A i \in 1 .. Len(t) : i = 1 \/ (i - 1 \in 1 .. Len(s) /\ t[i] = s[i - 1])
  <2> TAKE i \in 1 .. Len(t)
  <2>1. i # 1 => i - 1 \in 1 .. Len(s) /\ (i - 1) + 1 = i
    BY <1>0, <1>1
  <2> QED
    BY <2>1, <1>1
<1>2. ASSUME NEW i \in 1 .. Len(t), NEW j \in 1 .. Len(t), t[i] = t[j] PROVE i = j
  <2>0. i \in Nat /\ j \in Nat
    BY <1>0, <1>1
  <2>1. CASE i = 1
    <3>1. j = 1 \/ (j - 1 \in 1 .. Len(s) /\ t[j] = s[j - 1])
      BY <1>i
    <3> QED
      BY <3>1, <2>1, <1>2, <1>0, <1>1
  <2>2. CASE j = 1
    <3>1. i = 1 \/ (i - 1 \in 1 .. Len(s) /\ t[i] = s[i - 1])
      BY <1>i
    <3> QED
      BY <3>1, <2>2, <1>2, <1>0, <1>1
  <2>3. CASE i # 1 /\ j # 1
    <3>1. /\ i - 1 \in 1 .. Len(s) /\ t[i] = s[i - 1]
          /\ j - 1 \in 1 .. Len(s) /\ t[j] = s[j - 1]
      BY <2>3, <1>i
    <3>2. i - 1 = j - 1
      BY <3>1, <1>2 DEF Chained
    <3> QED
      BY <3>2, <2>0
  <2> QED
    BY <2>1, <2>2, <2>3
<1>3. t # <<>>
  BY <1>0, <1>1
<1>4. ASSUME NEW i \in 1 .. Len(t) PROVE after[t[i]] = IF i < Len(t) THEN t[i + 1] ELSE nil
  <2>1. CASE i = 1
    BY <2>1, <1>0, <1>1 DEF Chained
  <2>2. CASE i # 1
    <3>1. i - 1 \in 1 .. Len(s) /\ t[i] = s[i - 1]
      BY <2>2, <1>i
    <3>2. after[t[i]] = link[s[i - 1]]
      BY <3>1, <1>0 DEF SameBut
    <3>3. link[s[i - 1]] = IF i - 1 < Len(s) THEN s[i] ELSE nil
      BY <3>1, <1>0 DEF Chained
    <3> QED
      BY <3>1, <3>2, <3>3, <1>0, <1>1
  <2> QED
    BY <2>1, <2>2
<1>5. Members(t) = Members(s) \cup {x}
  <2>1. ASSUME NEW i \in 1 .. Len(t) PROVE t[i] \in Members(s) \cup {x}
    BY <1>1, <1>i DEF Members
  <2>2. ASSUME NEW i \in 1 .. Len(s) PROVE s[i] \in Members(t)
    <3>1. i + 1 \in 1 .. Len(t) /\ t[i + 1] = s[i]
      BY <1>0, <1>1
    <3> QED
      BY <3>1 DEF Members
  <2>3. x \in Members(t)
    BY <1>0, <1>1 DEF Members
  <2>4. Members(t) \subseteq Members(s) \cup {x}
    BY <2>1 DEF Members
  <2>5. Members(s) \subseteq Members(t)
    <3>1. ASSUME NEW y \in Members(s) PROVE y \in Members(t)
      <4>1. PICK i \in 1 .. Len(s) : y = s[i]
        BY DEF Members
      <4> QED
        BY <4>1, <2>2
    <3> QED
      BY <3>1
  <2> QED
    BY ONLY <2>3, <2>4, <2>5
<1> QED
  BY <1>1, <1>2, <1>3, <1>4, <1>5 DEF Chained

(* One that was not there is put at the end.                               *)
LEMMA ChainAppended ==
  ASSUME NEW S, NEW nil, nil \notin S, NEW head, NEW link, NEW s, Chained(S, nil, head, link, s),
         s # <<>>, NEW x \in S, x \notin Members(s), NEW after,
         after[s[Len(s)]] = x, after[x] = nil, SameBut(S, s[Len(s)], link, after)
  PROVE  \E t : /\ Chained(S, nil, head, after, t) /\ Members(t) = Members(s) \cup {x}
                /\ t # <<>> /\ t[Len(t)] = x
<1>0. /\ s \in Seq(S) /\ Len(s) \in Nat /\ Len(s) > 0
      /\ \A i \in 1 .. Len(s) : s[i] \in S /\ s[i] # x
  BY DEF Chained, Members
<1> DEFINE t == Append(s, x)
<1>1. /\ t \in Seq(S) /\ Len(t) = Len(s) + 1 /\ t[Len(s) + 1] = x
      /\ \A i \in 1 .. Len(s) : t[i] = s[i]
  BY <1>0
<1> HIDE DEF t
<1>i. \A i \in 1 .. Len(t) : i = Len(s) + 1 \/ (i \in 1 .. Len(s) /\ t[i] = s[i])
  BY <1>0, <1>1
<1>2. ASSUME NEW i \in 1 .. Len(t), NEW j \in 1 .. Len(t), t[i] = t[j] PROVE i = j
  <2>1. CASE i \in 1 .. Len(s) /\ j \in 1 .. Len(s)
    BY <2>1, <1>1, <1>2 DEF Chained
  <2>2. CASE i = Len(s) + 1
    BY <2>2, <1>0, <1>1, <1>2, <1>i
  <2>3. CASE j = Len(s) + 1
    BY <2>3, <1>0, <1>1, <1>2, <1>i
  <2> QED
    BY <2>1, <2>2, <2>3, <1>i
<1>3. t # <<>> /\ head = t[1] /\ t[Len(t)] = x
  BY <1>0, <1>1 DEF Chained
<1>4. ASSUME NEW i \in 1 .. Len(t) PROVE after[t[i]] = IF i < Len(t) THEN t[i + 1] ELSE nil
  <2>1. CASE i = Len(s) + 1
    BY <2>1, <1>0, <1>1
  <2>2. CASE i = Len(s)
    BY <2>2, <1>0, <1>1
  <2>3. CASE i \in 1 .. Len(s) /\ i # Len(s)
    <3>1. i + 1 \in 1 .. Len(s) /\ Len(s) \in 1 .. Len(s) /\ i < Len(s) /\ i < Len(t)
      BY <2>3, <1>0, <1>1
    <3>2. s[i] # s[Len(s)]
      BY <2>3, <3>1 DEF Chained
    <3>3. after[s[i]] = link[s[i]]
      BY <2>3, <3>2, <1>0 DEF SameBut
    <3>4. link[s[i]] = s[i + 1]
      BY <2>3, <3>1 DEF Chained
    <3> QED
      BY <2>3, <3>1, <3>3, <3>4, <1>1
  <2> QED
    BY <2>1, <2>2, <2>3, <1>i
<1>5. Members(t) = Members(s) \cup {x}
  <2>1. ASSUME NEW i \in 1 .. Len(t) PROVE t[i] \in Members(s) \cup {x}
    BY <1>1, <1>i DEF Members
  <2>2. ASSUME NEW i \in 1 .. Len(s) PROVE s[i] \in Members(t)
    <3>1. i \in 1 .. Len(t) /\ t[i] = s[i]
      BY <1>0, <1>1
    <3> QED
      BY <3>1 DEF Members
  <2>3. x \in Members(t)
    <3>1. Len(s) + 1 \in 1 .. Len(t)
      BY <1>0, <1>1
    <3> QED
      BY <3>1, <1>1 DEF Members
  <2>4. Members(t) \subseteq Members(s) \cup {x}
    BY <2>1 DEF Members
  <2>5. Members(s) \subseteq Members(t)
    <3>1. ASSUME NEW y \in Members(s) PROVE y \in Members(t)
      <4>1. PICK i \in 1 .. Len(s) : y = s[i]
        BY DEF Members
      <4> QED
        BY <4>1, <2>2
    <3> QED
      BY <3>1
  <2> QED
    BY ONLY <2>3, <2>4, <2>5
<1> QED
  BY <1>1, <1>2, <1>3, <1>4, <1>5 DEF Chained

(* Numbers that hang on one another in order.                              *)
LEMMA ChainOfAll ==
  ASSUME NEW a \in Int, NEW n \in Nat, n > 0, NEW nil, nil \notin a .. a + n - 1,
         NEW link, \A x \in a .. a + n - 1 : link[x] = IF x + 1 < a + n THEN x + 1 ELSE nil
  PROVE  \E s : Chained(a .. a + n - 1, nil, a, link, s) /\ Members(s) = a .. a + n - 1
<1> DEFINE s == [i \in 1 .. n |-> a + i - 1]
<1>1. s \in Seq(a .. a + n - 1) /\ Len(s) = n /\ \A i \in 1 .. n : s[i] = a + i - 1
  <2>1. \A i \in 1 .. n : a + i - 1 \in a .. a + n - 1
    OBVIOUS
  <2> QED
    BY <2>1
<1>2. s # <<>>
  BY <1>1
<1> HIDE DEF s
<1>3. ASSUME NEW i \in 1 .. n PROVE link[s[i]] = IF i < n THEN s[i + 1] ELSE nil
  <2>1. a + i - 1 \in a .. a + n - 1 /\ s[i] = a + i - 1
    BY <1>1
  <2>2. link[a + i - 1] = IF (a + i - 1) + 1 < a + n THEN (a + i - 1) + 1 ELSE nil
    BY <2>1
  <2>3. i < n => s[i + 1] = a + (i + 1) - 1
    BY <1>1
  <2> QED
    BY <2>1, <2>2, <2>3
<1>4. Chained(a .. a + n - 1, nil, a, link, s)
  BY <1>1, <1>2, <1>3 DEF Chained
<1>5. Members(s) = a .. a + n - 1
  <2>1. ASSUME NEW x \in a .. a + n - 1 PROVE x \in Members(s)
    <3>1. x - a + 1 \in 1 .. n /\ s[x - a + 1] = x
      BY <1>1
    <3> QED
      BY <3>1, <1>1 DEF Members
  <2>2. \A i \in 1 .. n : s[i] \in a .. a + n - 1
    BY <1>1
  <2> QED
    BY <2>1, <2>2, <1>1 DEF Members
<1> QED
  BY <1>4, <1>5

-----------------------------------------------------------------------------
(* The list of the pool *)

\* The loose slots hang on the head, each once.
Listed == \E s : Chained(Slots, nullptr, head_, next, s) /\ Members(s) = Loose

(* nullptr is no slot, and the head of the list is loose.                  *)
LEMMA HeadLoose ==
  ASSUME Capacity \in Nat, Listed, head_ # nullptr
  PROVE  head_ \in Loose
<1>1. nullptr \notin Slots
  BY DEF nullptr, Slots
<1>2. PICK s : Chained(Slots, nullptr, head_, next, s) /\ Members(s) = Loose
  BY DEF Listed
<1>3. SameBut(Slots, head_, next, next)
  BY DEF SameBut
<1> QED
  BY <1>1, <1>2, <1>3, ChainPopped

(* A list whose links stay is as it was.                                   *)
LEMMA ListedSame ==
  ASSUME Listed, head_' = head_, next' = next, Loose' = Loose
  PROVE  Listed'
BY DEF Listed

\* Only thread t has changed its locals.
OnlyLocals(t) ==
  \A u \in Threads \ {t} : pc'[u] = pc[u] /\ slot'[u] = slot[u] /\ nxt'[u] = nxt[u] /\ op'[u] = op[u]

(* Steps that read shared memory only: the other threads see nothing, and a*)
(* thread that returns the slot t has loaded reads the head as it is.      *)
LEMMA LocalKeeps ==
  ASSUME NEW T, NEW H, Modest(T, H), IInv(T, H), Listed, NEW t \in T,
         head_' = head_, next' = next, live_' = live_, handle' = handle, detached' = detached,
         OnlyLocals(t), Types', Working(t, H)', Seen(t)',
         pc'[t] \in {"store", "push"} => nxt'[t] = head_
  PROVE  IInv(T, H)' /\ Listed'
<1>1. Loose' = Loose /\ Slots' = Slots
  BY DEF Loose, Slots
<1>2. Listed'
  BY <1>1, ListedSame
<1>3. Owned' /\ LiveCounts'
  BY DEF IInv, Owned, LiveCounts
<1>4. Unused(T, H)'
  BY DEF IInv, Unused, OnlyLocals
<1>5. ASSUME NEW u \in T, u # t PROVE Working(u, H)' /\ Seen(u)'
  <2>0. u \in Threads \ {t}
    BY <1>5 DEF Modest
  <2>1. pc'[u] = pc[u] /\ slot'[u] = slot[u] /\ nxt'[u] = nxt[u] /\ op'[u] = op[u]
    BY <2>0 DEF OnlyLocals
  <2>2. Working(u, H) /\ Seen(u)
    BY DEF IInv
  <2>3. Working(u, H)'
    BY <2>1, <2>2 DEF Working
  <2>4. ASSUME NEW v \in Threads \ {u}, Borrowed(u, v) PROVE Borrowed(u, v)'
    <3>1. CASE v = t
      BY <3>1, <2>1, <2>4 DEF Borrowed
    <3>2. CASE v # t
      BY <3>2, <2>1, <2>4 DEF Borrowed, OnlyLocals
    <3> QED
      BY <3>1, <3>2
  <2>5. Seen(u)'
    BY <1>1, <2>1, <2>2, <2>4 DEF Seen
  <2> QED
    BY <2>3, <2>5
<1> QED
  BY <1>2, <1>3, <1>4, <1>5 DEF IInv

(* acquire() looks at the head, or a failed CAS does.                      *)
LEMMA LookKeeps ==
  ASSUME NEW T, NEW H, Modest(T, H), IInv(T, H), Listed, NEW t \in T,
         (\E h \in H : Acquire(t, h)) \/ PopFails(t)
  PROVE  IInv(T, H)' /\ Listed'
<1>0. t \in Threads /\ Types /\ Working(t, H) /\ H \subseteq HandleIds /\ Capacity \in Nat
  BY DEF Modest, IInv
<1>1. /\ head_' = head_ /\ next' = next /\ live_' = live_ /\ handle' = handle /\ detached' = detached
      /\ nxt' = nxt /\ slot' = [slot EXCEPT ![t] = head_]
      /\ pc' = [pc EXCEPT ![t] = IF head_ = nullptr THEN "idle" ELSE "next"]
  BY DEF Acquire, PopFails, Look, Goto
<1>2. /\ op' \in [Threads -> [to : HandleIds \cup {NoHandle}, from : HandleIds \cup {NoHandle}]]
      /\ \A u \in Threads \ {t} : op'[u] = op[u]
      /\ op'[t].to \in H /\ handle[t][op'[t].to] = nullptr
  <2>1. CASE \E h \in H : Acquire(t, h)
    <3>1. PICK h \in H : handle[t][h] = nullptr /\ op' = [op EXCEPT ![t].to = h]
      BY <2>1 DEF Acquire
    <3> QED
      BY <1>0, <3>1 DEF Types
  <2>2. CASE PopFails(t)
    BY <1>0, <2>2 DEF PopFails, Types, Working
  <2> QED
    BY <2>1, <2>2
<1>3. OnlyLocals(t)
  BY <1>0, <1>1, <1>2 DEF OnlyLocals, Types
<1>4. Types'
  BY <1>0, <1>1, <1>2 DEF Types, Slots
<1>5. pc'[t] \in {"idle", "next"} /\ slot'[t] = head_ /\ (pc'[t] = "next" => head_ \in Loose)
  BY <1>0, <1>1, HeadLoose DEF Types
<1>6. Working(t, H)'
  BY <1>1, <1>2, <1>5 DEF Working, Loose
<1>7. Seen(t)'
  BY <1>1, <1>5 DEF Seen, Loose, Slots
<1> QED
  BY <1>1, <1>3, <1>4, <1>5, <1>6, <1>7, LocalKeeps

(* acquire() reads the link of the slot it has loaded.                     *)
LEMMA ReadNextKeeps ==
  ASSUME NEW T, NEW H, Modest(T, H), IInv(T, H), Listed, NEW t \in T, ReadNext(t)
  PROVE  IInv(T, H)' /\ Listed'
<1>0. t \in Threads /\ Types /\ Working(t, H) /\ Seen(t) /\ pc[t] = "next"
  BY DEF Modest, IInv, ReadNext
<1>1. /\ head_' = head_ /\ next' = next /\ live_' = live_ /\ handle' = handle /\ detached' = detached
      /\ op' = op /\ slot' = slot /\ nxt' = [nxt EXCEPT ![t] = next[slot[t]]]
      /\ pc' = [pc EXCEPT ![t] = "pop"]
  BY DEF ReadNext, Goto
<1>2. slot[t] \in Slots /\ pc'[t] = "pop" /\ nxt'[t] = next[slot[t]] /\ slot'[t] = slot[t]
  BY <1>0, <1>1 DEF Types, Working
<1>3. OnlyLocals(t)
  BY <1>0, <1>1 DEF OnlyLocals, Types
<1>4. Types'
  BY <1>0, <1>1, <1>2 DEF Types, Slots
<1>5. Working(t, H)'
  BY <1>0, <1>1, <1>2 DEF Working
<1>6. Seen(t)'
  <2>0. Loose' = Loose
    BY <1>1 DEF Loose, Slots
  <2>1. CASE slot[t] \in Loose
    BY <2>0, <2>1, <1>1, <1>2 DEF Seen
  <2>2. CASE slot[t] \in detached
    BY <2>2, <1>1, <1>2 DEF Seen
  <2>3. ASSUME NEW u \in Threads \ {t}, Borrowed(t, u) PROVE Borrowed(t, u)'
    BY <2>3, <1>0, <1>1, <1>2, <1>3 DEF Borrowed, OnlyLocals
  <2> QED
    BY <1>0, <2>1, <2>2, <2>3 DEF Seen
<1> QED
  BY <1>1, <1>2, <1>3, <1>4, <1>5, <1>6, LocalKeeps

(* release_obj() reads the head, or a failed CAS does.                     *)
LEMMA ReleaseKeeps ==
  ASSUME NEW T, NEW H, Modest(T, H), IInv(T, H), Listed, NEW t \in T,
         (\E h \in H, g \in H \cup {NoHandle} : Release(t, h, g)) \/ PushFails(t)
  PROVE  IInv(T, H)' /\ Listed'
<1>0. t \in Threads /\ Types /\ Working(t, H) /\ H \subseteq HandleIds
  BY DEF Modest, IInv
<1>1. /\ head_' = head_ /\ next' = next /\ live_' = live_ /\ handle' = handle /\ detached' = detached
      /\ nxt' = [nxt EXCEPT ![t] = head_] /\ pc' = [pc EXCEPT ![t] = "store"]
  BY DEF Release, PushFails, Goto
<1>2. /\ op' \in [Threads -> [to : HandleIds \cup {NoHandle}, from : HandleIds \cup {NoHandle}]]
      /\ slot' \in [Threads -> Slots \cup {nullptr}]
      /\ \A u \in Threads \ {t} : op'[u] = op[u] /\ slot'[u] = slot[u]
      /\ op'[t].to \in H /\ op'[t].from \in (H \cup {NoHandle}) \ {op'[t].to}
      /\ slot'[t] \in Slots /\ slot'[t] = handle[t][op'[t].to]
  <2>1. CASE \E h \in H, g \in H \cup {NoHandle} : Release(t, h, g)
    <3>1. PICK h \in H, g \in H \cup {NoHandle} :
            /\ h # g /\ handle[t][h] # nullptr /\ op' = [op EXCEPT ![t] = [to |-> h, from |-> g]]
            /\ slot' = [slot EXCEPT ![t] = handle[t][h]]
      BY <2>1 DEF Release
    <3>2. handle[t][h] \in Slots
      BY <1>0, <3>1 DEF Types
    <3>3. op'[t] = [to |-> h, from |-> g] /\ slot'[t] = handle[t][h]
      BY <1>0, <3>1 DEF Types
    <3>4. op' \in [Threads -> [to : HandleIds \cup {NoHandle}, from : HandleIds \cup {NoHandle}]]
      BY <1>0, <3>1 DEF Types
    <3>5. slot' \in [Threads -> Slots \cup {nullptr}]
      BY <1>0, <3>1, <3>2 DEF Types
    <3>6. \A u \in Threads \ {t} : op'[u] = op[u] /\ slot'[u] = slot[u]
      BY <1>0, <3>1 DEF Types
    <3> QED
      BY <3>1, <3>2, <3>3, <3>4, <3>5, <3>6
  <2>2. CASE PushFails(t)
    BY <1>0, <2>2 DEF PushFails, Types, Working
  <2> QED
    BY <2>1, <2>2
<1>3. OnlyLocals(t)
  BY <1>0, <1>1, <1>2 DEF OnlyLocals, Types
<1>4. Types'
  BY <1>0, <1>1, <1>2 DEF Types, Slots
<1>5. pc'[t] = "store" /\ nxt'[t] = head_
  BY <1>0, <1>1 DEF Types
<1>6. Working(t, H)'
  BY <1>1, <1>2, <1>5 DEF Working, Slots
<1>7. Seen(t)'
  BY <1>5 DEF Seen
<1> QED
  BY <1>1, <1>3, <1>4, <1>5, <1>6, <1>7, LocalKeeps

(* A link outside the list does not matter to it.                          *)
LEMMA ChainKept ==
  ASSUME NEW S, NEW nil, NEW head, NEW link, NEW s, Chained(S, nil, head, link, s),
         NEW x, x \notin Members(s), NEW after, SameBut(S, x, link, after)
  PROVE  Chained(S, nil, head, after, s)
<1>1. \A i \in 1 .. Len(s) : s[i] \in S \ {x}
  BY DEF Chained, Members
<1>2. \A i \in 1 .. Len(s) : after[s[i]] = link[s[i]]
  BY <1>1 DEF SameBut
<1> QED
  BY <1>2 DEF Chained

(* Of two threads the one has what the other has loaded.                   *)
LEMMA Partner ==
  ASSUME NEW T, NEW H, Modest(T, H), IInv(T, H), NEW t \in T, NEW u \in T, u # t,
         pc[u] \in {"next", "pop"}, NEW v \in Threads \ {u}, Borrowed(u, v)
  PROVE  /\ v = t /\ slot[u] \in Slots /\ slot[u] # nullptr
         /\ \A g \in H : handle[t][g] = slot[u]
<1>1. PICK h \in HandleIds : handle[v][h] = slot[u]
  BY DEF Borrowed
<1>2. slot[u] \in Slots /\ slot[u] # nullptr
  BY DEF IInv, Working, Slots, nullptr, Modest
<1>3. v \in T /\ h \in H
  BY <1>1, <1>2 DEF IInv, Unused
<1>4. v = t /\ \A g \in H : g = h
  BY <1>3 DEF Modest
<1> QED
  BY <1>1, <1>2, <1>4

(* A loaded slot that is loose has the link that was read.                 *)
LEMMA LooseSeen ==
  ASSUME NEW u, Seen(u), pc[u] = "pop", slot[u] \in Loose
  PROVE  nxt[u] = next[slot[u]]
BY DEF Seen, Borrowed, Loose

(* release_obj() stores the link of a slot that is nobody else's; for a    *)
(* thread that has loaded that slot it is the link it had.                 *)
LEMMA StoreNextKeeps ==
  ASSUME NEW T, NEW H, Modest(T, H), IInv(T, H), Listed, NEW t \in T, StoreNext(t)
  PROVE  IInv(T, H)' /\ Listed'
<1>0. t \in Threads /\ Types /\ Working(t, H) /\ pc[t] = "store" /\ Owned /\ H \subseteq HandleIds
  BY DEF Modest, IInv, StoreNext
<1>1. /\ head_' = head_ /\ live_' = live_ /\ handle' = handle /\ detached' = detached
      /\ op' = op /\ slot' = slot /\ nxt' = nxt /\ next' = [next EXCEPT ![slot[t]] = nxt[t]]
      /\ pc' = [pc EXCEPT ![t] = "push"]
  BY DEF StoreNext, Goto
<1>2. slot[t] \in Slots /\ op[t].to \in H /\ slot[t] = handle[t][op[t].to] /\ slot[t] # nullptr
  BY <1>0 DEF Working, Slots, nullptr, Modest
<1>3. slot[t] \notin Loose /\ Loose' = Loose
  BY <1>0, <1>1, <1>2 DEF Loose, Slots
<1>4. Listed'
  <2>1. PICK s : Chained(Slots, nullptr, head_, next, s) /\ Members(s) = Loose
    BY DEF Listed
  <2>2. SameBut(Slots, slot[t], next, next')
    BY <1>0, <1>1 DEF SameBut, Types
  <2>3. Chained(Slots, nullptr, head_, next', s)
    BY <1>3, <2>1, <2>2, ChainKept
  <2> QED
    BY <2>1, <2>3, <1>1, <1>3 DEF Listed, Slots
<1>5. Types'
  BY <1>0, <1>1, <1>2 DEF Types, Slots
<1>6. Owned' /\ LiveCounts'
  BY <1>1 DEF IInv, Owned, LiveCounts
<1>7. Unused(T, H)'
  BY <1>0, <1>1 DEF IInv, Unused, Types
<1>8. /\ pc'[t] = "push" /\ next'[slot[t]] = nxt[t] /\ \A x \in Slots \ {slot[t]} : next'[x] = next[x]
      /\ \A u \in Threads \ {t} : pc'[u] = pc[u]
  BY <1>0, <1>1, <1>2 DEF Types
<1>9. Working(t, H)' /\ Seen(t)'
  BY <1>0, <1>1, <1>8 DEF Working, Seen, Slots
<1>10. ASSUME NEW u \in T, u # t PROVE Working(u, H)' /\ Seen(u)'
  <2>0. u \in Threads /\ Working(u, H) /\ Seen(u) /\ pc'[u] = pc[u]
    BY <1>8, <1>10 DEF IInv, Modest
  <2>1. pc[u] = "push" => slot[u] # slot[t] /\ slot[u] \in Slots
    BY <1>0, <1>2, <1>10, <2>0 DEF Working, Owned
  <2>2. Working(u, H)'
    BY <2>0, <2>1, <1>1, <1>8 DEF Working, Slots
  <2>3. CASE pc[u] \in {"next", "pop"} /\ slot[u] \in Loose
    <3>1. slot[u] \in Slots \ {slot[t]}
      BY <2>3, <1>3 DEF Loose
    <3> QED
      BY <3>1, <2>0, <2>2, <2>3, <1>1, <1>3, <1>8, LooseSeen DEF Seen
  <2>4. CASE pc[u] \in {"next", "pop"} /\ slot[u] \in detached
    BY <2>2, <2>4, <1>1 DEF Seen
  <2>5. ASSUME pc[u] \in {"next", "pop"}, NEW v \in Threads \ {u}, Borrowed(u, v) PROVE Borrowed(u, v)'
    <3>1. v = t /\ slot[u] = slot[t]
      BY <2>5, <1>2, <1>10, Partner
    <3> QED
      BY <3>1, <2>5, <2>0, <1>0, <1>1, <1>8 DEF Borrowed
  <2>6. Seen(u)'
    BY <2>0, <2>3, <2>4, <2>5, <1>1 DEF Seen
  <2> QED
    BY <2>2, <2>6
<1> QED
  BY <1>4, <1>5, <1>6, <1>7, <1>9, <1>10 DEF IInv

\* The handles that own a slot.
Pairs(f) == {o \in Threads \X HandleIds : f[o[1]][o[2]] # nullptr}

\* Of the handles f and k only h of t differs: k owns a slot there.
Fills(f, k, t, h) ==
  /\ f[t][h] = nullptr /\ k[t][h] # nullptr
  /\ \A u \in Threads, g \in HandleIds : (u = t /\ g = h) \/ (f[u][g] = nullptr <=> k[u][g] = nullptr)

(* One more handle owns a slot.                                            *)
LEMMA PairAdded ==
  ASSUME IsFiniteSet(Threads), IsFiniteSet(HandleIds), NEW f, NEW k, NEW t \in Threads, NEW h \in HandleIds,
         Fills(f, k, t, h)
  PROVE  Cardinality(Pairs(k)) = Cardinality(Pairs(f)) + 1 /\ Cardinality(Pairs(f)) \in Nat
<1>1. IsFiniteSet(Threads \X HandleIds)
  BY FS_Product
<1>2. Pairs(f) \subseteq Threads \X HandleIds /\ IsFiniteSet(Pairs(f))
  BY <1>1, FS_Subset DEF Pairs
<1>3. <<t, h>> \notin Pairs(f)
  BY DEF Pairs, Fills
<1>4. Pairs(k) = Pairs(f) \cup {<<t, h>>}
  <2>1. ASSUME NEW o \in Threads \X HandleIds PROVE o \in Pairs(k) <=> o \in Pairs(f) \cup {<<t, h>>}
    <3>1. o = <<o[1], o[2]>> /\ o[1] \in Threads /\ o[2] \in HandleIds
      OBVIOUS
    <3>2. CASE o[1] = t /\ o[2] = h
      BY <3>1, <3>2 DEF Pairs, Fills
    <3>3. CASE ~(o[1] = t /\ o[2] = h)
      BY <3>1, <3>3 DEF Pairs, Fills
    <3> QED
      BY <3>2, <3>3
  <2>2. Pairs(k) \subseteq Threads \X HandleIds /\ <<t, h>> \in Threads \X HandleIds
    BY DEF Pairs
  <2> QED
    BY <2>1, <2>2, <1>2
<1> QED
  BY <1>2, <1>3, <1>4, FS_AddElement, FS_CardinalityType

(* acquire()'s CAS: the head is loose, so the link that was read is its    *)
(* link still, and the list loses its first slot.                          *)
LEMMA PopKeeps ==
  ASSUME NEW T, NEW H, Modest(T, H), IInv(T, H), Listed, NEW t \in T, Pop(t)
  PROVE  IInv(T, H)' /\ Listed'
<1>0. /\ t \in Threads /\ Types /\ Working(t, H) /\ Seen(t) /\ pc[t] = "pop" /\ Owned /\ H \subseteq HandleIds
      /\ Capacity \in Nat /\ head_ = slot[t]
  BY DEF Modest, IInv, Pop
<1>1. PICK h \in H : h = op[t].to /\ h \in HandleIds /\ handle[t][h] = nullptr
  BY <1>0 DEF Working
<1>2. head_ \in Slots /\ head_ # nullptr
  BY <1>0 DEF Working, Slots, nullptr
<1>3. head_ \in Loose
  BY <1>0, <1>2, HeadLoose
<1>4. nxt[t] = next[head_]
  BY <1>0, <1>3 DEF Seen, Borrowed, Loose
<1>5. /\ head_' = next[head_] /\ live_' = live_ + 1 /\ detached' = detached
      /\ op' = op /\ slot' = slot /\ nxt' = nxt /\ next' = next
      /\ handle' = [handle EXCEPT ![t][h] = head_] /\ pc' = [pc EXCEPT ![t] = "idle"]
  BY <1>0, <1>1, <1>4 DEF Pop, Goto
<1>6. /\ handle' \in [Threads -> [HandleIds -> Slots \cup {nullptr}]] /\ handle'[t][h] = head_
      /\ \A u \in Threads, g \in HandleIds : (u = t /\ g = h) \/ handle'[u][g] = handle[u][g]
      /\ pc'[t] = "idle" /\ \A u \in Threads \ {t} : pc'[u] = pc[u]
  BY <1>0, <1>1, <1>2, <1>5 DEF Types
<1>7. Loose' = Loose \ {head_}
  <2>1. ASSUME NEW s \in Slots \ detached
        PROVE  (\A u \in Threads, g \in HandleIds : handle'[u][g] # s) <=>
               (\A u \in Threads, g \in HandleIds : handle[u][g] # s) /\ s # head_
    <3>1. s # nullptr
      BY DEF Slots, nullptr, Modest
    <3>2. ASSUME \A u \in Threads, g \in HandleIds : handle'[u][g] # s
          PROVE  (\A u \in Threads, g \in HandleIds : handle[u][g] # s) /\ s # head_
      BY <1>0, <1>1, <1>6, <3>1, <3>2
    <3>3. ASSUME \A u \in Threads, g \in HandleIds : handle[u][g] # s, s # head_
          PROVE  \A u \in Threads, g \in HandleIds : handle'[u][g] # s
      BY <1>6, <3>3
    <3> QED
      BY <3>2, <3>3
  <2> QED
    BY <2>1, <1>5 DEF Loose, Slots
<1>8. Listed'
  <2>1. PICK s : Chained(Slots, nullptr, head_, next, s) /\ Members(s) = Loose
    BY DEF Listed
  <2>2. SameBut(Slots, head_, next, next) /\ nullptr \notin Slots
    BY DEF SameBut, Slots, nullptr
  <2>3. Chained(Slots, nullptr, next[head_], next, Tail(s)) /\ Members(Tail(s)) = Members(s) \ {head_}
    BY <1>2, <2>1, <2>2, ChainPopped
  <2> QED
    BY <2>1, <2>3, <1>5, <1>7 DEF Listed, Slots
<1>9. Types'
  BY <1>0, <1>2, <1>5, <1>6 DEF Types, Slots
<1>10. Owned'
  <2>1. \A u \in Threads, g \in HandleIds : handle[u][g] # head_
    BY <1>3 DEF Loose
  <2>2. head_ \notin detached
    BY <1>3 DEF Loose
  <2> QED
    BY <1>0, <1>1, <1>5, <1>6, <2>1, <2>2 DEF Owned
<1>11. LiveCounts'
  <2>1. Fills(handle, handle', t, h)
    BY <1>1, <1>2, <1>6 DEF Fills
  <2>2. Cardinality(Pairs(handle')) = Cardinality(Pairs(handle)) + 1
    BY <1>0, <1>1, <2>1, PairAdded DEF Modest
  <2> QED
    BY <2>2, <1>5 DEF IInv, LiveCounts, Pairs
<1>12. Unused(T, H)'
  BY <1>1, <1>6 DEF IInv, Unused
<1>13. Working(t, H)' /\ Seen(t)'
  BY <1>6 DEF Working, Seen
<1>14. ASSUME NEW u \in T, u # t PROVE Working(u, H)' /\ Seen(u)'
  <2>0. u \in Threads /\ Working(u, H) /\ Seen(u) /\ pc'[u] = pc[u]
    BY <1>6, <1>14 DEF IInv, Modest
  <2>2. Working(u, H)'
    BY <2>0, <1>0, <1>5, <1>6, <1>14 DEF Working, Slots
  <2>3. ASSUME pc[u] \in {"next", "pop"}, slot[u] \in Loose PROVE Seen(u)'
    <3>1. CASE slot[u] # head_
      BY <2>0, <2>3, <3>1, <1>5, <1>7, LooseSeen DEF Seen
    <3>2. CASE slot[u] = head_
      <4>1. pc[u] = "pop" => nxt[u] = next[head_]
        BY <2>0, <2>3, <3>2, LooseSeen
      <4>2. Borrowed(u, t)'
        BY <2>0, <3>2, <4>1, <1>1, <1>5, <1>6 DEF Borrowed
      <4> QED
        BY <4>2, <1>0, <1>14 DEF Seen
    <3> QED
      BY <3>1, <3>2
  <2>4. ASSUME slot[u] \in detached PROVE Seen(u)'
    BY <2>4, <1>5 DEF Seen
  <2>5. ASSUME pc[u] \in {"next", "pop"}, NEW v \in Threads \ {u}, Borrowed(u, v) PROVE FALSE
    BY <2>5, <1>1, <1>14, Partner
  <2>6. Seen(u)'
    BY <2>0, <2>3, <2>4, <2>5 DEF Seen
  <2> QED
    BY <2>2, <2>6
<1> QED
  BY <1>8, <1>9, <1>10, <1>11, <1>12, <1>13, <1>14 DEF IInv

(* Handle::release(): the slot is nobody's any more, and on no list.       *)
LEMMA DetachKeeps ==
  ASSUME NEW T, NEW H, Modest(T, H), IInv(T, H), Listed, NEW t \in T, NEW h \in H, Detach(t, h)
  PROVE  IInv(T, H)' /\ Listed'
<1>0. /\ t \in Threads /\ Types /\ pc[t] = "idle" /\ Owned /\ h \in HandleIds
      /\ handle[t][h] # nullptr
  BY DEF Modest, IInv, Detach
<1>1. PICK x \in Slots : x = handle[t][h] /\ x # nullptr
  BY <1>0 DEF Types
<1>5. /\ head_' = head_ /\ next' = next /\ live_' = live_ - 1 /\ detached' = detached \cup {x}
      /\ op' = op /\ slot' = slot /\ nxt' = nxt /\ pc' = pc
      /\ handle' = [handle EXCEPT ![t][h] = nullptr]
  BY <1>1 DEF Detach
<1>6. /\ handle' \in [Threads -> [HandleIds -> Slots \cup {nullptr}]] /\ handle'[t][h] = nullptr
      /\ \A u \in Threads, g \in HandleIds : (u = t /\ g = h) \/ handle'[u][g] = handle[u][g]
  BY <1>0, <1>5 DEF Types
<1>7. Loose' = Loose
  <2>1. ASSUME NEW s \in Slots
        PROVE  s \notin detached' /\ (\A u \in Threads, g \in HandleIds : handle'[u][g] # s) <=>
               s \notin detached /\ (\A u \in Threads, g \in HandleIds : handle[u][g] # s)
    <3>1. s # nullptr
      BY DEF Slots, nullptr, Modest
    <3> QED
      BY <1>0, <1>1, <1>5, <1>6, <3>1
  <2> QED
    BY <2>1 DEF Loose, Slots
<1>8. Listed'
  BY <1>5, <1>7, ListedSame
<1>9. Types'
  BY <1>0, <1>1, <1>5, <1>6 DEF Types, Slots
<1>10. Owned'
  <2>1. nullptr \notin detached'
    BY <1>0, <1>1, <1>5 DEF Types, nullptr, Slots
  <2>2. \A u \in Threads, g \in HandleIds : handle'[u][g] # x
    BY <1>0, <1>1, <1>6 DEF Owned
  <2> QED
    BY <1>0, <1>5, <1>6, <2>1, <2>2 DEF Owned
<1>11. LiveCounts'
  <2>1. Fills(handle', handle, t, h)
    BY <1>0, <1>6 DEF Fills
  <2>2. Cardinality(Pairs(handle)) = Cardinality(Pairs(handle')) + 1 /\ Cardinality(Pairs(handle')) \in Nat
    BY <1>0, <2>1, PairAdded DEF Modest
  <2> QED
    BY <2>2, <1>5 DEF IInv, LiveCounts, Pairs
<1>12. Unused(T, H)'
  BY <1>5, <1>6 DEF IInv, Unused
<1>13. Working(t, H)' /\ Seen(t)'
  BY <1>0, <1>5 DEF Working, Seen
<1>14. ASSUME NEW u \in T, u # t PROVE Working(u, H)' /\ Seen(u)'
  <2>0. u \in Threads /\ Working(u, H) /\ Seen(u)
    BY <1>14 DEF IInv, Modest
  <2>2. Working(u, H)'
    BY <2>0, <1>0, <1>5, <1>6, <1>14 DEF Working, Slots, Modest
  <2>3. ASSUME pc[u] \in {"next", "pop"}, slot[u] \in Loose PROVE Seen(u)'
    BY <2>0, <2>3, <1>5, <1>7, LooseSeen DEF Seen
  <2>4. ASSUME slot[u] \in detached PROVE Seen(u)'
    BY <2>4, <1>5 DEF Seen
  <2>5. ASSUME pc[u] \in {"next", "pop"}, NEW v \in Threads \ {u}, Borrowed(u, v) PROVE Seen(u)'
    <3>1. slot[u] = x
      BY <2>5, <1>1, <1>14, Partner
    <3> QED
      BY <3>1, <1>5 DEF Seen
  <2>6. Seen(u)'
    <3>1. pc[u] \notin {"next", "pop"} => Seen(u)'
      BY <1>5 DEF Seen
    <3> QED
    BY <2>0, <2>3, <2>4, <2>5, <3>1 DEF Seen
  <2> QED
    BY <2>2, <2>6
<1> QED
  BY <1>8, <1>9, <1>10, <1>11, <1>12, <1>13, <1>14 DEF IInv

(* release_obj()'s CAS: the slot is the first of the list again, its link  *)
(* being the head that the CAS has found; a move-assignment then takes what*)
(* the other handle has.                                                   *)
LEMMA PushKeeps ==
  ASSUME NEW T, NEW H, Modest(T, H), IInv(T, H), Listed, NEW t \in T, Push(t)
  PROVE  IInv(T, H)' /\ Listed'
<1>0. /\ t \in Threads /\ Types /\ Working(t, H) /\ pc[t] = "push" /\ Owned /\ H \subseteq HandleIds
      /\ Capacity \in Nat /\ head_ = nxt[t] /\ NoHandle \notin HandleIds
  BY DEF Modest, IInv, Push
<1>1. PICK h \in H, x \in Slots : /\ h = op[t].to /\ h \in HandleIds /\ handle[t][h] = x /\ x # nullptr
                                  /\ x = slot[t] /\ next[x] = head_
  BY <1>0 DEF Working, Slots, nullptr
<1>2. PICK g \in (H \cup {NoHandle}) \ {h} : g = op[t].from
  BY <1>0, <1>1 DEF Working
<1>5. /\ head_' = x /\ live_' = live_ - 1 /\ detached' = detached
      /\ op' = op /\ slot' = slot /\ nxt' = nxt /\ next' = next
      /\ handle' = [handle EXCEPT ![t] = Moved(@, h, g)] /\ pc' = [pc EXCEPT ![t] = "idle"]
  BY <1>0, <1>1, <1>2 DEF Push, Goto
<1>m. handle[t] \in [HandleIds -> Slots \cup {nullptr}] /\ handle'[t] = Moved(handle[t], h, g)
  BY <1>0, <1>5 DEF Types
<1>6. /\ handle'[t] \in [HandleIds -> Slots \cup {nullptr}]
      /\ g = NoHandle => handle'[t][h] = nullptr
      /\ g # NoHandle => g \in H /\ handle'[t][g] = nullptr /\ handle'[t][h] = handle[t][g]
      /\ \A k \in HandleIds \ {h, g} : handle'[t][k] = handle[t][k]
  <2>1. CASE g = NoHandle
    BY <2>1, <1>0, <1>1, <1>2, <1>m DEF Moved
  <2>2. CASE g # NoHandle
    <3>1. g \in H /\ g \in HandleIds
      BY <2>2, <1>0, <1>2
    <3> QED
      BY <2>2, <3>1, <1>0, <1>1, <1>2, <1>m DEF Moved
  <2> QED
    BY <2>1, <2>2
<1>k. \A k \in HandleIds : k # h /\ handle'[t][k] # nullptr => k # g /\ handle'[t][k] = handle[t][k]
  BY <1>0, <1>6
<1>7. /\ handle' \in [Threads -> [HandleIds -> Slots \cup {nullptr}]]
      /\ \A u \in Threads \ {t} : handle'[u] = handle[u]
      /\ pc'[t] = "idle" /\ \A u \in Threads \ {t} : pc'[u] = pc[u]
  BY <1>0, <1>5, <1>6, <1>m DEF Types
\* Whatever a handle owns now, one other than h of t owned before.
<1>8. /\ \A u \in Threads, k \in HandleIds : handle'[u][k] # nullptr =>
           \E l \in HandleIds : ~(u = t /\ l = h) /\ handle'[u][k] = handle[u][l]
      /\ \A u \in Threads, k \in HandleIds : handle[u][k] # nullptr /\ ~(u = t /\ k = h) =>
           \E l \in HandleIds : handle'[u][l] = handle[u][k]
  <2>0. ASSUME NEW u \in Threads, NEW k \in HandleIds, handle'[u][k] # nullptr
        PROVE  \E l \in HandleIds : ~(u = t /\ l = h) /\ handle'[u][k] = handle[u][l]
    <3>1. CASE u # t
      BY <3>1, <1>7
    <3>2. CASE u = t /\ k = h
      <4>1. g # NoHandle /\ g \in HandleIds /\ g # h
        BY <3>2, <2>0, <1>0, <1>2, <1>6
      <4> QED
        BY <3>2, <4>1, <1>6
    <3>3. CASE u = t /\ k # h
      BY <3>3, <2>0, <1>k
    <3> QED
      BY <3>1, <3>2, <3>3
  <2>1. ASSUME NEW u \in Threads, NEW k \in HandleIds, handle[u][k] # nullptr, ~(u = t /\ k = h)
        PROVE  \E l \in HandleIds : handle'[u][l] = handle[u][k]
    <3>1. CASE u # t
      BY <3>1, <1>7
    <3>2. CASE u = t /\ k = g
      BY <3>2, <1>0, <1>1, <1>6
    <3>3. CASE u = t /\ k # g
      BY <3>3, <2>1, <1>6
    <3> QED
      BY <3>1, <3>2, <3>3
  <2> QED
    BY <2>0, <2>1
<1>9. \A u \in Threads, k \in HandleIds : handle'[u][k] # x
  BY <1>0, <1>1, <1>8 DEF Owned
<1>10. Loose' = Loose \cup {x}
  <2>1. x \notin detached
    BY <1>0, <1>1 DEF Owned
  <2>2. ASSUME NEW s \in Slots
        PROVE  (\A u \in Threads, k \in HandleIds : handle'[u][k] # s) <=>
               (\A u \in Threads, k \in HandleIds : handle[u][k] # s) \/ s = x
    <3>1. s # nullptr
      BY DEF Slots, nullptr, Modest
    <3>2. ASSUME \A u \in Threads, k \in HandleIds : handle'[u][k] # s, s # x
          PROVE  \A u \in Threads, k \in HandleIds : handle[u][k] # s
      BY <3>1, <3>2, <1>1, <1>8
    <3>3. ASSUME \A u \in Threads, k \in HandleIds : handle[u][k] # s
          PROVE  \A u \in Threads, k \in HandleIds : handle'[u][k] # s
      BY <3>1, <3>3, <1>8
    <3> QED
      BY <3>2, <3>3, <1>9
  <2> QED
    BY <2>1, <2>2, <1>5 DEF Loose, Slots
<1>11. Listed'
  <2>1. PICK s : Chained(Slots, nullptr, head_, next, s) /\ Members(s) = Loose
    BY DEF Listed
  <2>2. SameBut(Slots, x, next, next) /\ nullptr \notin Slots
    BY DEF SameBut, Slots, nullptr
  <2>3. x \notin Members(s)
    BY <2>1, <1>0, <1>1 DEF Loose
  <2>4. PICK r : Chained(Slots, nullptr, x, next, r) /\ Members(r) = Members(s) \cup {x}
    BY <1>1, <2>1, <2>2, <2>3, ChainPushed
  <2> QED
    BY <2>1, <2>4, <1>5, <1>10 DEF Listed, Slots
<1>12. Types'
  BY <1>0, <1>1, <1>5, <1>7 DEF Types, Slots
<1>13. Owned'
  <2>1. ASSUME NEW u \in Threads, NEW v \in Threads, NEW k \in HandleIds, NEW l \in HandleIds,
               handle'[u][k] # nullptr, handle'[u][k] = handle'[v][l]
        PROVE  u = v /\ k = l
    <3>1. PICK i \in HandleIds : handle'[u][k] = handle[u][i]
      BY <2>1, <1>8
    <3>2. PICK j \in HandleIds : handle'[v][l] = handle[v][j]
      BY <2>1, <1>8
    <3>3. u = v
      <4>1. handle[u][i] # nullptr /\ handle[u][i] = handle[v][j]
        BY <2>1, <3>1, <3>2
      <4> QED
        BY <4>1, <1>0 DEF Owned
    <3>4. CASE u # t
      BY <3>3, <3>4, <1>0, <1>7, <2>1 DEF Owned
    <3>5. CASE u = t
      <4> DEFINE Was(m) == IF m = h THEN g ELSE m
      <4>1. ASSUME NEW m \in HandleIds, handle'[t][m] # nullptr
            PROVE  Was(m) \in HandleIds /\ Was(m) # h /\ handle'[t][m] = handle[t][Was(m)] /\ m # g
        <5>1. CASE m = h
          BY <4>1, <5>1, <1>0, <1>2, <1>6
        <5>2. CASE m # h
          BY <4>1, <5>2, <1>k
        <5> QED
          BY <5>1, <5>2
      <4> HIDE DEF Was
      <4>a. /\ Was(k) \in HandleIds /\ Was(l) \in HandleIds /\ handle[t][Was(k)] # nullptr
            /\ handle[t][Was(k)] = handle[t][Was(l)]
        BY <3>3, <3>5, <4>1, <2>1
      <4>2. Was(k) = Was(l)
        BY <4>a, <1>0 DEF Owned
      <4>3. k # g /\ l # g
        BY <3>3, <3>5, <4>1, <2>1
      <4> QED
        BY <3>3, <3>5, <4>2, <4>3 DEF Was
    <3> QED
      BY <3>4, <3>5
  <2>2. ASSUME NEW u \in Threads, NEW k \in HandleIds PROVE handle'[u][k] \notin detached'
    <3>1. nullptr \notin detached
      BY <1>0 DEF Types, Slots, nullptr
    <3> QED
      BY <3>1, <1>0, <1>5, <1>8 DEF Owned
  <2> QED
    BY <2>1, <2>2 DEF Owned
<1>14. LiveCounts'
  <2>1. PICK k \in HandleIds : Fills(handle', handle, t, k)
    <3>1. CASE g = NoHandle
      <4>1. Fills(handle', handle, t, h)
        BY <3>1, <1>0, <1>1, <1>6, <1>7 DEF Fills
      <4> QED
        BY <4>1, <1>1
    <3>2. CASE g # NoHandle /\ handle[t][g] = nullptr
      <4>1. Fills(handle', handle, t, h)
        BY <3>2, <1>0, <1>1, <1>6, <1>7 DEF Fills
      <4> QED
        BY <4>1, <1>1
    <3>3. CASE g # NoHandle /\ handle[t][g] # nullptr
      <4>1. Fills(handle', handle, t, g)
        BY <3>3, <1>0, <1>1, <1>6, <1>7 DEF Fills
      <4> QED
        BY <3>3, <4>1, <1>0, <1>6
    <3> QED
      BY <3>1, <3>2, <3>3
  <2>2. Cardinality(Pairs(handle)) = Cardinality(Pairs(handle')) + 1 /\ Cardinality(Pairs(handle')) \in Nat
    BY <1>0, <2>1, PairAdded DEF Modest
  <2> QED
    BY <2>2, <1>5 DEF IInv, LiveCounts, Pairs
<1>15. Unused(T, H)'
  <2>1. \A u \in Threads \ T : pc'[u] = "idle"
    BY <1>7 DEF IInv, Unused
  <2>2. ASSUME NEW u \in Threads, NEW k \in HandleIds, handle'[u][k] # nullptr PROVE u \in T /\ k \in H
    <3>1. CASE u # t
      BY <2>2, <3>1, <1>7 DEF IInv, Unused
    <3>2. CASE u = t /\ k # h
      BY <2>2, <3>2, <1>k DEF IInv, Unused
    <3>3. CASE u = t /\ k = h
      BY <3>3, <1>1
    <3> QED
      BY <3>1, <3>2, <3>3
  <2> QED
    BY <2>1, <2>2 DEF Unused
<1>16. Working(t, H)' /\ Seen(t)'
  BY <1>7 DEF Working, Seen
<1>17. ASSUME NEW u \in T, u # t PROVE Working(u, H)' /\ Seen(u)'
  <2>0. u \in Threads /\ Working(u, H) /\ Seen(u) /\ pc'[u] = pc[u] /\ handle'[u] = handle[u]
    BY <1>7, <1>17 DEF IInv, Modest
  <2>2. Working(u, H)'
    BY <2>0, <1>5 DEF Working, Slots
  <2>3. ASSUME pc[u] \in {"next", "pop"}, slot[u] \in Loose PROVE Seen(u)'
    BY <2>0, <2>3, <1>5, <1>10, LooseSeen DEF Seen
  <2>4. ASSUME slot[u] \in detached PROVE Seen(u)'
    BY <2>4, <1>5 DEF Seen
  <2>5. ASSUME pc[u] \in {"next", "pop"}, NEW v \in Threads \ {u}, Borrowed(u, v) PROVE Seen(u)'
    <3>1. slot[u] = x
      BY <2>5, <1>1, <1>17, Partner
    <3>2. pc[u] = "pop" => nxt[u] = next[x]
      BY <2>5, <1>1 DEF Borrowed
    <3> QED
      BY <3>1, <3>2, <2>0, <1>5, <1>10 DEF Seen
  <2>6. Seen(u)'
    <3>1. pc[u] \notin {"next", "pop"} => Seen(u)'
      BY <2>0 DEF Seen
    <3> QED
      BY <2>0, <2>3, <2>4, <2>5, <3>1 DEF Seen
  <2> QED
    BY <2>2, <2>6
<1> QED
  BY <1>11, <1>12, <1>13, <1>14, <1>15, <1>16, <1>17 DEF IInv

(* A move into an empty handle; there is one thread then.                  *)
LEMMA MoveKeeps ==
  ASSUME NEW T, NEW H, Modest(T, H), IInv(T, H), Listed, NEW t \in T, NEW h \in H, NEW g \in H, Move(t, h, g)
  PROVE  IInv(T, H)' /\ Listed'
<1>0. /\ t \in Threads /\ Types /\ Owned /\ h \in HandleIds /\ g \in HandleIds /\ g # NoHandle
      /\ h # g /\ handle[t][h] = nullptr /\ handle[t][g] # nullptr /\ pc[t] = "idle"
  BY DEF Modest, IInv, Move
<1>1. \A u \in T : u = t
  BY <1>0 DEF Modest
<1>2. /\ head_' = head_ /\ live_' = live_ /\ detached' = detached /\ pc' = pc
      /\ op' = op /\ slot' = slot /\ nxt' = nxt /\ next' = next
      /\ handle' = [handle EXCEPT ![t] = Moved(@, h, g)]
  BY DEF Move
<1>m. handle[t] \in [HandleIds -> Slots \cup {nullptr}] /\ handle'[t] = Moved(handle[t], h, g)
  BY <1>0, <1>2 DEF Types
<1>3. /\ handle'[t] \in [HandleIds -> Slots \cup {nullptr}]
      /\ handle'[t][g] = nullptr /\ handle'[t][h] = handle[t][g]
      /\ \A k \in HandleIds \ {h, g} : handle'[t][k] = handle[t][k]
  BY <1>0, <1>m DEF Moved
<1>4. /\ handle' \in [Threads -> [HandleIds -> Slots \cup {nullptr}]]
      /\ \A u \in Threads \ {t} : handle'[u] = handle[u]
  BY <1>0, <1>2, <1>3, <1>m DEF Types
\* Whatever a handle owns one handle owned before, and the other way round.
<1>5. /\ \A u \in Threads, k \in HandleIds : \E l \in HandleIds : handle'[u][k] = handle[u][l]
      /\ \A u \in Threads, k \in HandleIds : \E l \in HandleIds : handle'[u][l] = handle[u][k]
  <2>1. ASSUME NEW u \in Threads, NEW k \in HandleIds
        PROVE  /\ \E l \in HandleIds : handle'[u][k] = handle[u][l]
               /\ \E l \in HandleIds : handle'[u][l] = handle[u][k]
    <3>1. CASE u # t
      BY <3>1, <1>4
    <3>2. CASE u = t /\ k = h
      BY <3>2, <1>0, <1>3
    <3>3. CASE u = t /\ k = g
      BY <3>3, <1>0, <1>3
    <3>4. CASE u = t /\ k \notin {h, g}
      BY <3>4, <1>3
    <3> QED
      BY <3>1, <3>2, <3>3, <3>4
  <2> QED
    BY <2>1
<1>6. Loose' = Loose
  <2>1. ASSUME NEW s
        PROVE  (\A u \in Threads, k \in HandleIds : handle'[u][k] # s) <=>
               (\A u \in Threads, k \in HandleIds : handle[u][k] # s)
    <3>1. ASSUME \A u \in Threads, k \in HandleIds : handle'[u][k] # s, NEW u \in Threads, NEW k \in HandleIds
          PROVE  handle[u][k] # s
      <4>1. PICK l \in HandleIds : handle'[u][l] = handle[u][k]
        BY <1>5
      <4> QED
        BY <3>1, <4>1
    <3>2. ASSUME \A u \in Threads, k \in HandleIds : handle[u][k] # s, NEW u \in Threads, NEW k \in HandleIds
          PROVE  handle'[u][k] # s
      <4>1. PICK l \in HandleIds : handle'[u][k] = handle[u][l]
        BY <1>5
      <4> QED
        BY <3>2, <4>1
    <3> QED
      BY <3>1, <3>2
  <2> QED
    BY <2>1, <1>2 DEF Loose, Slots
<1>7. Listed'
  BY <1>2, <1>6, ListedSame
<1>8. Types'
  BY <1>0, <1>2, <1>4 DEF Types, Slots
<1>9. Owned'
  <2>1. ASSUME NEW u \in Threads, NEW v \in Threads, NEW k \in HandleIds, NEW l \in HandleIds,
               handle'[u][k] # nullptr, handle'[u][k] = handle'[v][l]
        PROVE  u = v /\ k = l
    <3> DEFINE Was(w, m) == IF w = t /\ m = h THEN g ELSE m
    <3>1. ASSUME NEW w \in Threads, NEW m \in HandleIds, handle'[w][m] # nullptr
          PROVE  Was(w, m) \in HandleIds /\ handle'[w][m] = handle[w][Was(w, m)] /\ ~(w = t /\ m = g)
      <4>1. CASE w = t
        BY <3>1, <4>1, <1>0, <1>3
      <4>2. CASE w # t
        BY <3>1, <4>2, <1>4
      <4> QED
        BY <4>1, <4>2
    <3> HIDE DEF Was
    <3>2. /\ Was(u, k) \in HandleIds /\ Was(v, l) \in HandleIds /\ handle[u][Was(u, k)] # nullptr
          /\ handle[u][Was(u, k)] = handle[v][Was(v, l)] /\ ~(u = t /\ k = g) /\ ~(v = t /\ l = g)
      BY <3>1, <2>1
    <3>3. u = v /\ Was(u, k) = Was(v, l)
      BY <3>2, <1>0 DEF Owned
    <3> QED
      BY <3>2, <3>3 DEF Was
  <2>2. ASSUME NEW u \in Threads, NEW k \in HandleIds PROVE handle'[u][k] \notin detached'
    <3>1. PICK l \in HandleIds : handle'[u][k] = handle[u][l]
      BY <1>5
    <3> QED
      BY <3>1, <1>0, <1>2 DEF Owned
  <2> QED
    BY <2>1, <2>2 DEF Owned
<1>10. LiveCounts'
  <2>1. PICK f : f = [handle EXCEPT ![t][g] = nullptr]
    OBVIOUS
  <2>2. f[t][g] = nullptr /\ \A u \in Threads, k \in HandleIds : (u = t /\ k = g) \/ f[u][k] = handle[u][k]
    BY <2>1, <1>0 DEF Types
  <2>3. Fills(f, handle, t, g)
    BY <2>2, <1>0 DEF Fills
  <2>4. Fills(f, handle', t, h)
    <3>1. f[t][h] = nullptr /\ handle'[t][h] # nullptr
      BY <2>2, <1>0, <1>3
    <3>2. ASSUME NEW u \in Threads, NEW k \in HandleIds, ~(u = t /\ k = h)
          PROVE  f[u][k] = nullptr <=> handle'[u][k] = nullptr
      <4>1. CASE u # t
        BY <4>1, <2>2, <1>4
      <4>2. CASE u = t /\ k = g
        BY <4>2, <2>2, <1>3
      <4>3. CASE u = t /\ k # g
        BY <4>3, <3>2, <2>2, <1>3
      <4> QED
        BY <4>1, <4>2, <4>3
    <3> QED
      BY <3>1, <3>2 DEF Fills
  <2>5. Cardinality(Pairs(handle)) = Cardinality(Pairs(handle'))
    BY <2>3, <2>4, <1>0, PairAdded DEF Modest
  <2> QED
    BY <2>5, <1>2 DEF IInv, LiveCounts, Pairs
<1>11. Unused(T, H)'
  <2>1. \A u \in Threads \ T : pc'[u] = "idle"
    BY <1>2 DEF IInv, Unused
  <2>2. ASSUME NEW u \in Threads, NEW k \in HandleIds, handle'[u][k] # nullptr PROVE u \in T /\ k \in H
    <3>1. CASE u # t
      BY <2>2, <3>1, <1>4 DEF IInv, Unused
    <3>2. CASE u = t /\ k \notin {h, g}
      BY <2>2, <3>2, <1>3 DEF IInv, Unused
    <3>3. CASE u = t /\ k \in {h, g}
      BY <3>3
    <3> QED
      BY <3>1, <3>2, <3>3
  <2> QED
    BY <2>1, <2>2 DEF Unused
<1>12. Working(t, H)' /\ Seen(t)'
  BY <1>0, <1>2 DEF Working, Seen
<1> QED
  BY <1>1, <1>7, <1>8, <1>9, <1>10, <1>11, <1>12 DEF IInv

(* Every step of the use keeps the invariant.                              *)
LEMMA PoolInductive ==
  ASSUME NEW T, NEW H, Modest(T, H), IInv(T, H), Listed, [Use(T, H)]_vars
  PROVE  IInv(T, H)' /\ Listed'
<1>1. CASE UNCHANGED vars
  <2>1. /\ head_' = head_ /\ live_' = live_ /\ detached' = detached /\ pc' = pc
        /\ op' = op /\ slot' = slot /\ nxt' = nxt /\ next' = next /\ handle' = handle
    BY <1>1 DEF vars
  <2>2. Loose' = Loose
    BY <2>1 DEF Loose, Slots
  <2>3. Listed'
    BY <2>1, <2>2, ListedSame
  <2>4. \A t \in T : Working(t, H)' /\ Seen(t)'
    BY <2>1, <2>2 DEF IInv, Working, Seen, Borrowed, Slots
  <2> QED
    BY <2>1, <2>3, <2>4 DEF IInv, Types, Unused, Owned, LiveCounts, Slots
<1>2. CASE Use(T, H)
  <2>1. PICK t \in T :
          \/ Step(t)
          \/ \E h \in H : \/ Acquire(t, h) \/ Detach(t, h)
                          \/ \E g \in H \cup {NoHandle} : Release(t, h, g)
                          \/ \E g \in H : Move(t, h, g)
    BY <1>2 DEF Use
  <2>2. CASE Step(t)
    BY <2>2, ReadNextKeeps, PopKeeps, LookKeeps, StoreNextKeeps, PushKeeps, ReleaseKeeps DEF Step
  <2>3. CASE \E h \in H : Acquire(t, h)
    BY <2>3, LookKeeps
  <2>4. CASE \E h \in H : Detach(t, h)
    BY <2>4, DetachKeeps
  <2>5. CASE \E h \in H, g \in H \cup {NoHandle} : Release(t, h, g)
    BY <2>5, ReleaseKeeps
  <2>6. CASE \E h \in H, g \in H : Move(t, h, g)
    BY <2>6, MoveKeeps
  <2> QED
    BY <2>1, <2>2, <2>3, <2>4, <2>5, <2>6
<1> QED
  BY <1>1, <1>2

(* A new pool: every slot is on the list, and nobody has a handle.         *)
LEMMA PoolInitHolds ==
  ASSUME NEW T, NEW H, Modest(T, H), Init
  PROVE  IInv(T, H) /\ Listed
<1>0. Capacity \in Nat
  BY DEF Modest
<1>1. Loose = Slots
  <2>1. \A s \in Slots : s # nullptr
    BY DEF Slots, nullptr
  <2>2. \A t \in Threads, h \in HandleIds : handle[t][h] = nullptr
    BY DEF Init
  <2>3. detached = {}
    BY DEF Init
  <2> QED
    BY <2>1, <2>2, <2>3 DEF Loose
<1>2. Listed
  <2>1. CASE Capacity = 0
    <3>1. Slots = {} /\ head_ = nullptr
      BY <2>1 DEF Slots, Init
    <3>2. Chained(Slots, nullptr, head_, next, <<>>) /\ Members(<<>>) = {}
      BY <3>1 DEF Chained, Members
    <3> QED
      BY <3>1, <3>2, <1>1 DEF Listed
  <2>2. CASE Capacity > 0
    <3>1. Slots = 1 .. 1 + Capacity - 1 /\ nullptr \notin Slots
      BY <1>0 DEF Slots, nullptr
    <3>2. head_ = 1 /\ \A x \in Slots : next[x] = IF x + 1 < 1 + Capacity THEN x + 1 ELSE nullptr
      BY <1>0, <2>2 DEF Init, Slots
    <3>3. \E s : Chained(1 .. 1 + Capacity - 1, nullptr, 1, next, s) /\ Members(s) = 1 .. 1 + Capacity - 1
      BY <1>0, <2>2, <3>1, <3>2, ChainOfAll
    <3> QED
      BY <3>1, <3>2, <3>3, <1>1 DEF Listed
  <2> QED
    BY <1>0, <2>1, <2>2
<1>3. Types
  <2>1. head_ \in Slots \cup {nullptr}
    BY <1>0 DEF Init, Slots
  <2>2. next \in [Slots -> Slots \cup {nullptr}]
    <3>1. \A s \in Slots : s < Capacity => s + 1 \in Slots
      BY <1>0 DEF Slots
    <3> QED
      BY <3>1 DEF Init
  <2> QED
    BY <2>1, <2>2 DEF Init, Types
<1>4. LiveCounts
  <2>1. {o \in Threads \X HandleIds : handle[o[1]][o[2]] # nullptr} = {}
    BY DEF Init
  <2> QED
    BY <2>1, FS_EmptySet DEF Init, LiveCounts
<1>5. Owned
  BY DEF Init, Owned
<1>6. Unused(T, H) /\ \A t \in T : Working(t, H) /\ Seen(t)
  BY DEF Init, Unused, Working, Seen, Modest
<1> QED
  BY <1>2, <1>3, <1>4, <1>5, <1>6 DEF IInv

(* The walk of the model is the list.                                      *)
LEMMA PoolFreeWalked ==
  ASSUME Capacity \in Nat, Listed
  PROVE  Free = Loose
<1>0. PICK s : Chained(Slots, nullptr, head_, next, s) /\ Members(s) = Loose
  BY DEF Listed
<1>1. \E f : IsWalk(nullptr, head_, next, Capacity, f)
  BY WalkExists
<1>2. Walk = CHOOSE f : IsWalk(nullptr, head_, next, Capacity, f)
  BY DEF Walk, WalkTo, IsWalk
<1>3. IsWalk(nullptr, head_, next, Capacity, Walk)
  BY <1>1, <1>2
<1>4. \A k \in 0 .. Capacity : Walk[k] = WalkTo(nullptr, head_, next, Walk, k)
  BY <1>3 DEF IsWalk
<1>5. nullptr \notin Slots
  BY DEF nullptr, Slots
<1>6. Follows(Slots, nullptr, head_, next, Capacity, Walk)
  BY <1>4, <1>5 DEF Follows, WalkTo
<1>7. IsFiniteSet(Slots) /\ Cardinality(Slots) = Capacity
  <2>1. 1 \in Int /\ Capacity \in Int
    OBVIOUS
  <2>2. IsFiniteSet(1 .. Capacity) /\ Cardinality(1 .. Capacity) = IF 1 > Capacity THEN 0 ELSE Capacity - 1 + 1
    BY <2>1, FS_Interval
  <2> QED
    BY <2>2 DEF Slots
<1>8. Len(s) <= Capacity
  BY <1>0, <1>7, ChainFits DEF Chained
<1>9. /\ \A k \in 0 .. Capacity : Walk[k] # nullptr => Walk[k] \in Members(s)
      /\ \A x \in Members(s) : \E k \in 0 .. Capacity : Walk[k] = x /\ x # nullptr
  BY <1>0, <1>5, <1>6, <1>8, ChainWalked
<1> QED
  BY <1>0, <1>9 DEF Free

(* What the invariant promises.                                            *)
LEMMA PoolImplied ==
  ASSUME NEW T, NEW H, Modest(T, H), IInv(T, H), Listed
  PROVE  TypeOK /\ OnePlace /\ LiveCounts
<1>0. Capacity \in Nat /\ IsFiniteSet(Threads) /\ IsFiniteSet(HandleIds) /\ Owned /\ Types /\ LiveCounts
  BY DEF Modest, IInv
<1>1. live_ \in 0 .. Capacity
  <2> DEFINE f == [o \in Pairs(handle) |-> handle[o[1]][o[2]]]
  <2>1. f \in [Pairs(handle) -> Slots]
    BY <1>0 DEF Pairs, Types
  <2>2. ASSUME NEW o \in Pairs(handle), NEW p \in Pairs(handle), f[o] = f[p] PROVE o = p
    <3>1. o = <<o[1], o[2]>> /\ p = <<p[1], p[2]>> /\ {o[1], p[1]} \subseteq Threads /\ {o[2], p[2]} \subseteq HandleIds
      BY DEF Pairs
    <3>2. handle[o[1]][o[2]] # nullptr /\ handle[o[1]][o[2]] = handle[p[1]][p[2]]
      BY <2>2 DEF Pairs
    <3> QED
      BY <3>1, <3>2, <1>0 DEF Owned
  <2>3. f \in Injection(Pairs(handle), Slots)
    BY <2>1, <2>2 DEF Injection, IsInjective
  <2>4. IsFiniteSet(Slots) /\ Cardinality(Slots) = Capacity
    <3>1. 1 \in Int /\ Capacity \in Int
      BY <1>0
    <3>2. IsFiniteSet(1 .. Capacity) /\ Cardinality(1 .. Capacity) = IF 1 > Capacity THEN 0 ELSE Capacity - 1 + 1
      BY <3>1, FS_Interval
    <3> QED
      BY <1>0, <3>2 DEF Slots
  <2> HIDE DEF f
  <2>5. IsFiniteSet(Pairs(handle)) /\ Cardinality(Pairs(handle)) <= Capacity
    BY <2>3, <2>4, FS_Injection
  <2>6. Cardinality(Pairs(handle)) \in Nat
    BY <2>5, FS_CardinalityType
  <2> QED
    BY <1>0, <2>5, <2>6 DEF LiveCounts, Pairs
<1>2. TypeOK
  BY <1>0, <1>1 DEF TypeOK, Types
<1>3. Free = Loose
  BY <1>0, PoolFreeWalked
<1>4. ASSUME NEW s \in Slots
      PROVE  Cardinality(Owners(s)) + (IF s \in Free THEN 1 ELSE 0) + (IF s \in detached THEN 1 ELSE 0) = 1
  <2>0. s # nullptr
    BY <1>0 DEF Slots, nullptr
  <2>1. CASE \E t \in Threads, h \in HandleIds : handle[t][h] = s
    <3>1. PICK t \in Threads, h \in HandleIds : handle[t][h] = s
      BY <2>1
    <3>2. s \notin Loose /\ s \notin detached
      BY <3>1, <1>0 DEF Loose, Owned
    <3>3. Owners(s) = {<<t, h>>}
      <4>1. ASSUME NEW o \in Owners(s) PROVE o = <<t, h>>
        <5>1. o = <<o[1], o[2]>> /\ o[1] \in Threads /\ o[2] \in HandleIds /\ handle[o[1]][o[2]] = s
          BY DEF Owners
        <5>2. o[1] = t /\ o[2] = h
          BY <5>1, <3>1, <2>0, <1>0 DEF Owned
        <5> QED
          BY <5>1, <5>2
      <4>2. <<t, h>> \in Owners(s)
        BY <3>1 DEF Owners
      <4> QED
        BY <4>1, <4>2
    <3>4. Cardinality(Owners(s)) = 1
      BY <3>3, FS_Singleton
    <3> QED
      BY <1>3, <3>2, <3>4
  <2>2. CASE ~ \E t \in Threads, h \in HandleIds : handle[t][h] = s
    <3>1. Owners(s) = {}
      BY <2>2 DEF Owners
    <3>2. Cardinality(Owners(s)) = 0
      BY <3>1, FS_EmptySet
    <3>3. s \in Loose <=> s \notin detached
      BY <2>2 DEF Loose
    <3> QED
      BY <1>3, <3>2, <3>3
  <2> QED
    BY <2>1, <2>2
<1> QED
  BY <1>0, <1>2, <1>4 DEF OnePlace

(* ObjectPool, for any number of slots, used by one thread with any handles*)
(* or by two with one handle each: a slot is free, owned by one handle or  *)
(* given away, and live_ counts the owners.                                *)
THEOREM PoolSafe ==
  ASSUME NEW T, NEW H, Modest(T, H)
  PROVE  Init /\ [][Use(T, H)]_vars => [](TypeOK /\ OnePlace /\ LiveCounts)
<1> DEFINE I == IInv(T, H) /\ Listed
<1>1. Init => I
  BY PoolInitHolds
<1>2. I /\ [Use(T, H)]_vars => I'
  BY PoolInductive
<1>3. I => TypeOK /\ OnePlace /\ LiveCounts
  BY PoolImplied
<1> QED
  BY <1>1, <1>2, <1>3, PTL
=============================================================================
