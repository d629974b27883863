--------------------------- MODULE ChunkReplicaProofs ---------------------------
(***************************************************************************)
(* Proofs about a client's copy of the world: its types, and that the       *)
(* publication table of the server is what the client will have.            *)
(*                                                                         *)
(* The server queues messages in an order in which they can be taken, one   *)
(* after the other; a frame takes the chunk messages first and then plans   *)
(* the edits.  The proof compares the two: copies that are Alike at every   *)
(* chunk stay alike whatever they take, and an edit may change places with  *)
(* a chunk message after it, because a slice of its chunk is not older      *)
(* (Orderly).  So a frame does not change what the client will have in the  *)
(* end (FrameExpected), and a tick changes it as it changes the table.      *)
(*                                                                         *)
(* Folds are reasoned about through their traces: a fold over a sequence is *)
(* the last value of a function on 0..Len(s), and what holds of its first   *)
(* value and is kept by each step holds of its last (UpTo).                 *)
(***************************************************************************)
EXTENDS ChunkReplica, FiniteSetTheorems, SequenceTheorems, WellFoundedInduction, TLAPS

--------------------------------------------------------------------------------
(* Folds *)

LEMMA Smallest ==
  ASSUME NEW S \in SUBSET Nat, S # {}
  PROVE  \E n \in S : \A m \in S : n <= m
<1> DEFINE less == {p \in Nat \X Nat : p[1] < p[2]}
<1>1. IsWellFoundedOn(less, Nat)
  BY NatLessThanWellFounded DEF OpToRel
<1> HIDE DEF less
<1>2. PICK n \in S : \A m \in S : <<m, n>> \notin less
  BY <1>1, WFMin
<1>3. \A m \in S : ~(m < n)
  BY <1>2 DEF less
<1>4. n \in Nat /\ \A m \in S : m \in Nat
  OBVIOUS
<1> QED BY <1>3, <1>4

\* What holds of 0, and of n + 1 when it holds of n, holds up to any bound.
LEMMA UpTo ==
  ASSUME NEW N \in Nat, NEW S, 0 \in S,
         \A n \in 0..(N - 1) : n \in S => n + 1 \in S
  PROVE  \A n \in 0..N : n \in S
<1> DEFINE Rest == {n \in 0..N : n \notin S}
<1> SUFFICES ASSUME Rest # {} PROVE FALSE
  OBVIOUS
<1>1. Rest \in SUBSET Nat
  OBVIOUS
<1>2. PICK n \in Rest : \A m \in Rest : n <= m
  <2> HIDE DEF Rest
  <2> QED BY <1>1, Smallest
<1>3. n # 0 /\ n - 1 \in 0..(N - 1) /\ ~(n <= n - 1) /\ n \in Nat
  OBVIOUS
<1>4. n - 1 \in S
  BY <1>2, <1>3
<1>5. (n - 1) + 1 \in S
  BY <1>3, <1>4
<1> QED BY <1>3, <1>5

\* The values of an iteration, and two iterations in step with each other.
Iteration(g, base, f, N) == g[0] = base /\ \A i \in 1..N : g[i] = f[<<g[i - 1], i>>]
InStep(g, h, N) == g[0] = h[0] /\ \A i \in 1..N : g[i - 1] = h[i - 1] => g[i] = h[i]

\* A step that stays within S can be iterated.
LEMMA Iterates ==
  ASSUME NEW S, NEW base \in S, NEW N \in Nat, NEW f \in [S \X (1..N) -> S]
  PROVE  \E g \in [0..N -> S] : Iteration(g, base, f, N)
<1> USE DEF Iteration
<1> DEFINE Iterate(g, n) == g[0] = base /\ \A i \in 1..n : g[i] = f[<<g[i - 1], i>>]
           Far == {n \in 0..N : \E g \in [0..n -> S] : Iterate(g, n)}
<1>1. 0 \in Far
  <2> DEFINE g0 == [n \in 0..0 |-> base]
  <2>1. g0 \in [0..0 -> S] /\ Iterate(g0, 0)
    OBVIOUS
  <2> HIDE DEF g0
  <2> QED BY <2>1
<1>2. ASSUME NEW n \in 0..(N - 1), n \in Far PROVE n + 1 \in Far
  <2>1. PICK g \in [0..n -> S] : Iterate(g, n)
    BY <1>2
  <2> DEFINE h == [i \in 0..(n + 1) |-> IF i = n + 1 THEN f[<<g[n], n + 1>>] ELSE g[i]]
  <2>2. h \in [0..(n + 1) -> S]
    OBVIOUS
  <2>3. h[0] = base
    BY <2>1
  <2>4. ASSUME NEW i \in 1..(n + 1) PROVE h[i] = f[<<h[i - 1], i>>]
    <3>1. CASE i = n + 1
      <4>1. i - 1 = n /\ n \in 0..(n + 1) /\ n # n + 1
        BY <3>1
      <4>2. h[n] = g[n] /\ h[i] = f[<<g[n], n + 1>>]
        BY <4>1, <3>1
      <4> QED BY <4>1, <4>2, <3>1
    <3>2. CASE i # n + 1
      <4>1. i \in 1..n /\ i - 1 \in 0..n /\ i - 1 # n + 1
        BY <3>2
      <4>2. h[i] = g[i] /\ h[i - 1] = g[i - 1]
        BY <4>1, <3>2
      <4> QED BY <2>1, <4>1, <4>2
    <3> QED BY <3>1, <3>2
  <2> HIDE DEF h
  <2> QED BY <2>2, <2>3, <2>4
<1>3. N \in Far
  <2> HIDE DEF Far
  <2>1. \A n \in 0..N : n \in Far
    BY <1>1, <1>2, UpTo
  <2> QED BY <2>1
<1> QED BY <1>3

\* Two iterations of the same steps from the same base agree.
LEMMA Agree ==
  ASSUME NEW N \in Nat, NEW g, NEW h, InStep(g, h, N)
  PROVE  \A n \in 0..N : g[n] = h[n]
<1> USE DEF InStep
<1> DEFINE Same == {n \in 0..N : g[n] = h[n]}
<1>1. 0 \in Same
  OBVIOUS
<1>2. ASSUME NEW n \in 0..(N - 1), n \in Same PROVE n + 1 \in Same
  <2>1. n + 1 \in 1..N /\ (n + 1) - 1 = n
    OBVIOUS
  <2> QED BY <1>2, <2>1
<1> HIDE DEF Same
<1>3. \A n \in 0..N : n \in Same
  BY <1>1, <1>2, UpTo
<1> QED BY <1>3 DEF Same

\* What is taken message by message.
Taking(g, copy, s) == g[0] = copy /\ \A i \in 1..Len(s) : g[i] = Take(g[i - 1], s[i])

LEMMA TakingSteps ==
  ASSUME NEW S, NEW copy \in S, NEW s, Len(s) \in Nat,
         \A x \in S : \A i \in 1..Len(s) : Take(x, s[i]) \in S
  PROVE  \E g \in [0..Len(s) -> S] : Taking(g, copy, s) /\ Taken(copy, s) = g[Len(s)]
<1> DEFINE N == Len(s)
           f == [p \in S \X (1..N) |-> Take(p[1], s[p[2]])]
           Step(x, m) == Strict(Take, x, m)
           Body(h) == [n \in 0..N |-> IF n = 0 THEN copy ELSE Step(h[n - 1], s[n])]
           after == CHOOSE h : h = Body(h)
<1>1. N \in Nat /\ f \in [S \X (1..N) -> S] /\ \A x \in S : \A i \in 1..N : f[<<x, i>>] = Take(x, s[i])
  OBVIOUS
<1>2. \A x, m : Step(x, m) = Take(x, m)
  BY DEF Strict
<1>3. Taken(copy, s) = after[N]
  BY DEF Taken, Fold
<1> HIDE DEF N, f, Step
<1> HIDE DEF Body, after
<1>4. PICK g \in [0..N -> S] : Iteration(g, copy, f, N)
  BY <1>1, Iterates
<1>5. ASSUME NEW i \in 1..N PROVE g[i] = Take(g[i - 1], s[i])
  <2>1. i - 1 \in 0..N
    BY <1>1
  <2>2. g[i - 1] \in S
    BY <2>1
  <2> QED BY <1>1, <1>4, <2>2 DEF Iteration
<1>6. after = Body(after)
  <2>1. g = Body(g)
    BY <1>1, <1>2, <1>4, <1>5 DEF Body, Iteration
  <2> QED BY <2>1 DEF after
<1>7. \A n \in 0..N : after[n] = g[n]
  <2>1. after[0] = g[0]
    BY <1>1, <1>4, <1>6 DEF Body, Iteration
  <2>2. ASSUME NEW i \in 1..N, after[i - 1] = g[i - 1] PROVE after[i] = g[i]
    BY <1>1, <1>2, <1>5, <1>6, <2>2 DEF Body
  <2>3. InStep(after, g, N)
    BY <2>1, <2>2 DEF InStep
  <2> QED BY <1>1, <2>3, Agree
<1>8. N \in 0..N
  BY <1>1
<1> QED BY <1>3, <1>4, <1>5, <1>7, <1>8 DEF Taking, N, Iteration

\* What is planned batch by batch.
Planning(g, copy, s) == g[0] = copy /\ \A i \in 1..Len(s) : g[i] = Plan(g[i - 1], s[i])

LEMMA PlanningSteps ==
  ASSUME NEW S, NEW copy \in S, NEW s, Len(s) \in Nat,
         \A x \in S : \A i \in 1..Len(s) : Plan(x, s[i]) \in S
  PROVE  \E g \in [0..Len(s) -> S] : Planning(g, copy, s) /\ Planned(copy, s) = g[Len(s)]
<1> DEFINE N == Len(s)
           f == [p \in S \X (1..N) |-> Plan(p[1], s[p[2]])]
           Step(x, m) == Strict(Plan, x, m)
           Body(h) == [n \in 0..N |-> IF n = 0 THEN copy ELSE Step(h[n - 1], s[n])]
           after == CHOOSE h : h = Body(h)
<1>1. N \in Nat /\ f \in [S \X (1..N) -> S] /\ \A x \in S : \A i \in 1..N : f[<<x, i>>] = Plan(x, s[i])
  OBVIOUS
<1>2. \A x, m : Step(x, m) = Plan(x, m)
  BY DEF Strict
<1>3. Planned(copy, s) = after[N]
  BY DEF Planned, Fold
<1> HIDE DEF N, f, Step
<1> HIDE DEF Body, after
<1>4. PICK g \in [0..N -> S] : Iteration(g, copy, f, N)
  BY <1>1, Iterates
<1>5. ASSUME NEW i \in 1..N PROVE g[i] = Plan(g[i - 1], s[i])
  <2>1. i - 1 \in 0..N
    BY <1>1
  <2>2. g[i - 1] \in S
    BY <2>1
  <2> QED BY <1>1, <1>4, <2>2 DEF Iteration
<1>6. after = Body(after)
  <2>1. g = Body(g)
    BY <1>1, <1>2, <1>4, <1>5 DEF Body, Iteration
  <2> QED BY <2>1 DEF after
<1>7. \A n \in 0..N : after[n] = g[n]
  <2>1. after[0] = g[0]
    BY <1>1, <1>4, <1>6 DEF Body, Iteration
  <2>2. ASSUME NEW i \in 1..N, after[i - 1] = g[i - 1] PROVE after[i] = g[i]
    BY <1>1, <1>2, <1>5, <1>6, <2>2 DEF Body
  <2>3. InStep(after, g, N)
    BY <2>1, <2>2 DEF InStep
  <2> QED BY <1>1, <2>3, Agree
<1>8. N \in 0..N
  BY <1>1
<1> QED BY <1>3, <1>4, <1>5, <1>7, <1>8 DEF Planning, N, Iteration

\* How the reports of a tick advance the publications.
Advancing(g, table, s) == g[0] = table /\ \A i \in 1..Len(s) : g[i] = AdvancePublication(g[i - 1], s[i])

LEMMA AdvancingSteps ==
  ASSUME NEW S, NEW table \in S, NEW s, Len(s) \in Nat,
         \A x \in S : \A i \in 1..Len(s) : AdvancePublication(x, s[i]) \in S
  PROVE  \E g \in [0..Len(s) -> S] : Advancing(g, table, s) /\ Fold(AdvancePublication, table, s) = g[Len(s)]
<1> DEFINE N == Len(s)
           f == [p \in S \X (1..N) |-> AdvancePublication(p[1], s[p[2]])]
           Step(x, m) == Strict(AdvancePublication, x, m)
           Body(h) == [n \in 0..N |-> IF n = 0 THEN table ELSE Step(h[n - 1], s[n])]
           after == CHOOSE h : h = Body(h)
<1>1. N \in Nat /\ f \in [S \X (1..N) -> S] /\ \A x \in S : \A i \in 1..N : f[<<x, i>>] = AdvancePublication(x, s[i])
  OBVIOUS
<1>2. \A x, m : Step(x, m) = AdvancePublication(x, m)
  BY DEF Strict
<1>3. Fold(AdvancePublication, table, s) = after[N]
  BY DEF Fold
<1> HIDE DEF N, f, Step
<1> HIDE DEF Body, after
<1>4. PICK g \in [0..N -> S] : Iteration(g, table, f, N)
  BY <1>1, Iterates
<1>5. ASSUME NEW i \in 1..N PROVE g[i] = AdvancePublication(g[i - 1], s[i])
  <2>1. i - 1 \in 0..N
    BY <1>1
  <2>2. g[i - 1] \in S
    BY <2>1
  <2> QED BY <1>1, <1>4, <2>2 DEF Iteration
<1>6. after = Body(after)
  <2>1. g = Body(g)
    BY <1>1, <1>2, <1>4, <1>5 DEF Body, Iteration
  <2> QED BY <2>1 DEF after
<1>7. \A n \in 0..N : after[n] = g[n]
  <2>1. after[0] = g[0]
    BY <1>1, <1>4, <1>6 DEF Body, Iteration
  <2>2. ASSUME NEW i \in 1..N, after[i - 1] = g[i - 1] PROVE after[i] = g[i]
    BY <1>1, <1>2, <1>5, <1>6, <2>2 DEF Body
  <2>3. InStep(after, g, N)
    BY <2>1, <2>2 DEF InStep
  <2> QED BY <1>1, <2>3, Agree
<1>8. N \in 0..N
  BY <1>1
<1> QED BY <1>3, <1>4, <1>5, <1>7, <1>8 DEF Advancing, N, Iteration

\* How the chunk messages of a sequence are queued.
Queuing(g, base, s) == g[0] = base /\ \A i \in 1..Len(s) : g[i] = Enqueue(g[i - 1], s[i])

LEMMA QueuingSteps ==
  ASSUME NEW S, NEW base \in S, NEW s, Len(s) \in Nat,
         \A x \in S : \A i \in 1..Len(s) : Enqueue(x, s[i]) \in S
  PROVE  \E g \in [0..Len(s) -> S] : Queuing(g, base, s) /\ Fold(Enqueue, base, s) = g[Len(s)]
<1> DEFINE N == Len(s)
           f == [p \in S \X (1..N) |-> Enqueue(p[1], s[p[2]])]
           Step(x, m) == Strict(Enqueue, x, m)
           Body(h) == [n \in 0..N |-> IF n = 0 THEN base ELSE Step(h[n - 1], s[n])]
           after == CHOOSE h : h = Body(h)
<1>1. N \in Nat /\ f \in [S \X (1..N) -> S] /\ \A x \in S : \A i \in 1..N : f[<<x, i>>] = Enqueue(x, s[i])
  OBVIOUS
<1>2. \A x, m : Step(x, m) = Enqueue(x, m)
  BY DEF Strict
<1>3. Fold(Enqueue, base, s) = after[N]
  BY DEF Fold
<1> HIDE DEF N, f, Step
<1> HIDE DEF Body, after
<1>4. PICK g \in [0..N -> S] : Iteration(g, base, f, N)
  BY <1>1, Iterates
<1>5. ASSUME NEW i \in 1..N PROVE g[i] = Enqueue(g[i - 1], s[i])
  <2>1. i - 1 \in 0..N
    BY <1>1
  <2>2. g[i - 1] \in S
    BY <2>1
  <2> QED BY <1>1, <1>4, <2>2 DEF Iteration
<1>6. after = Body(after)
  <2>1. g = Body(g)
    BY <1>1, <1>2, <1>4, <1>5 DEF Body, Iteration
  <2> QED BY <2>1 DEF after
<1>7. \A n \in 0..N : after[n] = g[n]
  <2>1. after[0] = g[0]
    BY <1>1, <1>4, <1>6 DEF Body, Iteration
  <2>2. ASSUME NEW i \in 1..N, after[i - 1] = g[i - 1] PROVE after[i] = g[i]
    BY <1>1, <1>2, <1>5, <1>6, <2>2 DEF Body
  <2>3. InStep(after, g, N)
    BY <2>1, <2>2 DEF InStep
  <2> QED BY <1>1, <2>3, Agree
<1>8. N \in 0..N
  BY <1>1
<1> QED BY <1>3, <1>4, <1>5, <1>7, <1>8 DEF Queuing, N, Iteration

\* How snapshots are queued.
Snapping(g, base, s) == g[0] = base /\ \A i \in 1..Len(s) : g[i] = AddSnapshot(g[i - 1], s[i])

LEMMA SnappingSteps ==
  ASSUME NEW S, NEW base \in S, NEW s, Len(s) \in Nat,
         \A x \in S : \A i \in 1..Len(s) : AddSnapshot(x, s[i]) \in S
  PROVE  \E g \in [0..Len(s) -> S] : Snapping(g, base, s) /\ Fold(AddSnapshot, base, s) = g[Len(s)]
<1> DEFINE N == Len(s)
           f == [p \in S \X (1..N) |-> AddSnapshot(p[1], s[p[2]])]
           Step(x, m) == Strict(AddSnapshot, x, m)
           Body(h) == [n \in 0..N |-> IF n = 0 THEN base ELSE Step(h[n - 1], s[n])]
           after == CHOOSE h : h = Body(h)
<1>1. N \in Nat /\ f \in [S \X (1..N) -> S] /\ \A x \in S : \A i \in 1..N : f[<<x, i>>] = AddSnapshot(x, s[i])
  OBVIOUS
<1>2. \A x, m : Step(x, m) = AddSnapshot(x, m)
  BY DEF Strict
<1>3. Fold(AddSnapshot, base, s) = after[N]
  BY DEF Fold
<1> HIDE DEF N, f, Step
<1> HIDE DEF Body, after
<1>4. PICK g \in [0..N -> S] : Iteration(g, base, f, N)
  BY <1>1, Iterates
<1>5. ASSUME NEW i \in 1..N PROVE g[i] = AddSnapshot(g[i - 1], s[i])
  <2>1. i - 1 \in 0..N
    BY <1>1
  <2>2. g[i - 1] \in S
    BY <2>1
  <2> QED BY <1>1, <1>4, <2>2 DEF Iteration
<1>6. after = Body(after)
  <2>1. g = Body(g)
    BY <1>1, <1>2, <1>4, <1>5 DEF Body, Iteration
  <2> QED BY <2>1 DEF after
<1>7. \A n \in 0..N : after[n] = g[n]
  <2>1. after[0] = g[0]
    BY <1>1, <1>4, <1>6 DEF Body, Iteration
  <2>2. ASSUME NEW i \in 1..N, after[i - 1] = g[i - 1] PROVE after[i] = g[i]
    BY <1>1, <1>2, <1>5, <1>6, <2>2 DEF Body
  <2>3. InStep(after, g, N)
    BY <2>1, <2>2 DEF InStep
  <2> QED BY <1>1, <2>3, Agree
<1>8. N \in 0..N
  BY <1>1
<1> QED BY <1>3, <1>4, <1>5, <1>7, <1>8 DEF Snapping, N, Iteration

\* How commands are executed.
Executing(g, base, s) == g[0] = base /\ \A i \in 1..Len(s) : g[i] = Execute(g[i - 1], s[i])

LEMMA ExecutingSteps ==
  ASSUME NEW S, NEW base \in S, NEW s, Len(s) \in Nat,
         \A x \in S : \A i \in 1..Len(s) : Execute(x, s[i]) \in S
  PROVE  \E g \in [0..Len(s) -> S] : Executing(g, base, s) /\ Fold(Execute, base, s) = g[Len(s)]
<1> DEFINE N == Len(s)
           f == [p \in S \X (1..N) |-> Execute(p[1], s[p[2]])]
           Step(x, m) == Strict(Execute, x, m)
           Body(h) == [n \in 0..N |-> IF n = 0 THEN base ELSE Step(h[n - 1], s[n])]
           after == CHOOSE h : h = Body(h)
<1>1. N \in Nat /\ f \in [S \X (1..N) -> S] /\ \A x \in S : \A i \in 1..N : f[<<x, i>>] = Execute(x, s[i])
  OBVIOUS
<1>2. \A x, m : Step(x, m) = Execute(x, m)
  BY DEF Strict
<1>3. Fold(Execute, base, s) = after[N]
  BY DEF Fold
<1> HIDE DEF N, f, Step
<1> HIDE DEF Body, after
<1>4. PICK g \in [0..N -> S] : Iteration(g, base, f, N)
  BY <1>1, Iterates
<1>5. ASSUME NEW i \in 1..N PROVE g[i] = Execute(g[i - 1], s[i])
  <2>1. i - 1 \in 0..N
    BY <1>1
  <2>2. g[i - 1] \in S
    BY <2>1
  <2> QED BY <1>1, <1>4, <2>2 DEF Iteration
<1>6. after = Body(after)
  <2>1. g = Body(g)
    BY <1>1, <1>2, <1>4, <1>5 DEF Body, Iteration
  <2> QED BY <2>1 DEF after
<1>7. \A n \in 0..N : after[n] = g[n]
  <2>1. after[0] = g[0]
    BY <1>1, <1>4, <1>6 DEF Body, Iteration
  <2>2. ASSUME NEW i \in 1..N, after[i - 1] = g[i - 1] PROVE after[i] = g[i]
    BY <1>1, <1>2, <1>5, <1>6, <2>2 DEF Body
  <2>3. InStep(after, g, N)
    BY <2>1, <2>2 DEF InStep
  <2> QED BY <1>1, <2>3, Agree
<1>8. N \in 0..N
  BY <1>1
<1> QED BY <1>3, <1>4, <1>5, <1>7, <1>8 DEF Executing, N, Iteration

--------------------------------------------------------------------------------
(* Versions, tables, messages and copies, given the generations and the chunks of the *)
(* world: nothing that was ever sent is ahead of them.                                *)

Versions == [gen : Nat, rev : Nat]

\* Not ahead of the chunk.
Recent(g, w, c, v) == /\ v.gen <= g[c]
                      /\ c \in DOMAIN w /\ v.gen = g[c] => v.rev <= w[c].rev

TablesOf(V) == UNION {[D -> V] : D \in SUBSET Chunks}
Partials == [version : Versions, got : (SUBSET (1..Slices)) \ {1..Slices}]

Tables(g, w) == {t \in TablesOf(Versions) : \A c \in DOMAIN t : Recent(g, w, c, t[c])}
Parts(g, w) == {t \in TablesOf(Partials) : \A c \in DOMAIN t : Recent(g, w, c, t[c].version)}
Copies(g, w) == [remote : Tables(g, w), assembly : Parts(g, w),
                 error : {"none", "base_missing", "base_gap"}]

SliceMsgs(g, w) ==
  {m \in [kind : {"slice"}, chunk : Chunks, version : Versions, y : 1..Slices] :
     Recent(g, w, m.chunk, m.version)}
RemovalMsgs == [kind : {"removal"}, chunk : Chunks]
EditMsgs(g, w) ==
  {m \in [kind : {"batch"}, seq : Nat, about : {"voxel"}, chunk : Chunks, version : Versions] :
     Recent(g, w, m.chunk, m.version)}
RecordMsgs == [kind : {"batch"}, seq : Nat, about : {"record"}]
DeltaMsgs(r) == [kind : {"delta"}, seq : Nat, held : 0..r]

Queueable(g, w) == SliceMsgs(g, w) \cup RemovalMsgs
Reportable(g, w) == EditMsgs(g, w) \cup RecordMsgs
Sendable(g, w, r) == Queueable(g, w) \cup Reportable(g, w) \cup DeltaMsgs(r)

LEMMA TableFacts ==
  ASSUME NEW V, NEW t \in TablesOf(V)
  PROVE  DOMAIN t \subseteq Chunks /\ t \in [DOMAIN t -> V] /\ \A c \in DOMAIN t : t[c] \in V
BY DEF TablesOf

LEMMA TableIntro ==
  ASSUME NEW V, NEW D, D \subseteq Chunks, NEW t \in [D -> V]
  PROVE  t \in TablesOf(V)
BY DEF TablesOf

LEMMA PutFacts ==
  ASSUME NEW V, NEW t \in TablesOf(V), NEW c \in Chunks, NEW v \in V
  PROVE  Put(t, c, v) \in TablesOf(V)
<1>1. DOMAIN t \cup {c} \subseteq Chunks /\ Put(t, c, v) \in [DOMAIN t \cup {c} -> V]
  BY TableFacts DEF Put
<1> QED BY <1>1, TableIntro DEF Put

LEMMA RestrictFacts ==
  ASSUME NEW V, NEW t \in TablesOf(V), NEW D, D \subseteq DOMAIN t
  PROVE  /\ Restrict(t, D) \in TablesOf(V) /\ DOMAIN Restrict(t, D) = D
         /\ \A d \in D : Restrict(t, D)[d] = t[d]
<1>1. D \subseteq Chunks /\ Restrict(t, D) \in [D -> V]
  BY TableFacts DEF Restrict
<1> QED BY <1>1, TableIntro DEF Restrict

LEMMA SameTable ==
  ASSUME NEW V, NEW t \in TablesOf(V), NEW u \in TablesOf(V), DOMAIN t = DOMAIN u,
         \A c \in DOMAIN t : t[c] = u[c]
  PROVE  t = u
BY TableFacts

--------------------------------------------------------------------------------
(* What a message does to a copy *)

\* What the slice m finds in the copy x.
Known(x, m) == m.chunk \in DOMAIN x.remote /\ Covers(x.remote[m.chunk], m.version)
Same(x, m) == m.chunk \in DOMAIN x.assembly /\ x.assembly[m.chunk].version = m.version
Newer(x, m) == /\ m.chunk \in DOMAIN x.assembly /\ x.assembly[m.chunk].version # m.version
               /\ Covers(x.assembly[m.chunk].version, m.version)
Got(x, m) == (IF Same(x, m) THEN x.assembly[m.chunk].got ELSE {}) \cup {m.y}

Installed(x, m) == [remote |-> Put(x.remote, m.chunk, m.version),
                    assembly |-> Without(x.assembly, m.chunk), error |-> x.error]
Gathering(x, m) == [remote |-> x.remote,
                    assembly |-> Put(x.assembly, m.chunk, [version |-> m.version, got |-> Got(x, m)]),
                    error |-> x.error]
Removed(x, m) == [remote |-> Without(x.remote, m.chunk),
                  assembly |-> Without(x.assembly, m.chunk), error |-> x.error]

LEMMA CopyFacts ==
  ASSUME NEW g, NEW w, NEW x \in Copies(g, w)
  PROVE  /\ x.remote \in Tables(g, w) /\ x.remote \in TablesOf(Versions)
         /\ x.assembly \in Parts(g, w) /\ x.assembly \in TablesOf(Partials)
         /\ x = [remote |-> x.remote, assembly |-> x.assembly, error |-> x.error]
         /\ x.error \in {"none", "base_missing", "base_gap"}
BY DEF Copies, Tables, Parts

LEMMA TakeSlice ==
  ASSUME NEW g, NEW w, NEW x \in Copies(g, w), NEW m \in SliceMsgs(g, w)
  PROVE  /\ Known(x, m) \/ Newer(x, m) => Take(x, m) = x
         /\ ~(Known(x, m) \/ Newer(x, m)) /\ Got(x, m) = 1..Slices => Take(x, m) = Installed(x, m)
         /\ ~(Known(x, m) \/ Newer(x, m)) /\ Got(x, m) # 1..Slices => Take(x, m) = Gathering(x, m)
<1> DEFINE got == (IF m.chunk \in DOMAIN x.assembly /\ x.assembly[m.chunk].version = m.version
                   THEN x.assembly[m.chunk].got ELSE {}) \cup {m.y}
<1>1. m.kind = "slice"
  BY DEF SliceMsgs
<1>2. Take(x, m) = ApplySlice(x, m)
  BY <1>1 DEF Take, IsChunkMessage, ApplyChunkMessage
<1>3. got = Got(x, m)
  BY DEF Got, Same
<1>4. Take(x, m) = IF Known(x, m) \/ Newer(x, m) THEN x
        ELSE IF got = 1..Slices
        THEN [x EXCEPT !.remote = Put(@, m.chunk, m.version), !.assembly = Without(@, m.chunk)]
        ELSE [x EXCEPT !.assembly = Put(@, m.chunk, [version |-> m.version, got |-> got])]
  BY <1>2 DEF ApplySlice, Known, Newer
<1>5. x = [remote |-> x.remote, assembly |-> x.assembly, error |-> x.error]
  BY CopyFacts
<1>6. [x EXCEPT !.remote = Put(@, m.chunk, m.version), !.assembly = Without(@, m.chunk)] = Installed(x, m)
  <2> DEFINE remoteThen == Put(x.remote, m.chunk, m.version)
             assemblyThen == Without(x.assembly, m.chunk)
  <2>1. Installed(x, m) = [remote |-> remoteThen, assembly |-> assemblyThen, error |-> x.error]
    BY DEF Installed
  <2> HIDE DEF remoteThen, assemblyThen
  <2>2. [x EXCEPT !.remote = remoteThen, !.assembly = assemblyThen]
          = [remote |-> remoteThen, assembly |-> assemblyThen, error |-> x.error]
    <3> DEFINE y == [x EXCEPT !.remote = remoteThen]
    <3>1. y = [remote |-> remoteThen, assembly |-> x.assembly, error |-> x.error]
      BY <1>5
    <3>2. [y EXCEPT !.assembly = assemblyThen] = [x EXCEPT !.remote = remoteThen, !.assembly = assemblyThen]
      OBVIOUS
    <3> HIDE DEF y
    <3>3. [y EXCEPT !.assembly = assemblyThen] = [remote |-> remoteThen, assembly |-> assemblyThen, error |-> x.error]
      BY <3>1
    <3> QED BY <3>2, <3>3
  <2> QED BY <2>1, <2>2 DEF remoteThen, assemblyThen
<1>7. [x EXCEPT !.assembly = Put(@, m.chunk, [version |-> m.version, got |-> got])] = Gathering(x, m)
  BY <1>3, <1>5 DEF Gathering
<1> HIDE DEF got
<1> QED BY <1>3, <1>4, <1>6, <1>7

LEMMA TakeRemoval ==
  ASSUME NEW g, NEW w, NEW x \in Copies(g, w), NEW m \in RemovalMsgs
  PROVE  Take(x, m) = Removed(x, m)
<1>1. m.kind = "removal"
  BY DEF RemovalMsgs
<1>2. x = [remote |-> x.remote, assembly |-> x.assembly, error |-> x.error]
  BY CopyFacts
<1> QED BY <1>1, <1>2 DEF Take, IsChunkMessage, ApplyChunkMessage, ApplyRemoval, Removed

\* An edit of what the copy has is skipped when covered, applied when it is the next
\* revision, and an error else.
LEMMA PlanEdits ==
  ASSUME NEW g, NEW w, NEW x \in Copies(g, w), NEW m \in EditMsgs(g, w)
  PROVE  /\ Take(x, m) = Plan(x, m)
         /\ x.error # "none" => Plan(x, m) = x
         /\ x.error = "none" /\ m.chunk \notin DOMAIN x.remote =>
              Plan(x, m) = [remote |-> x.remote, assembly |-> x.assembly, error |-> "base_missing"]
         /\ x.error = "none" /\ m.chunk \in DOMAIN x.remote =>
              /\ Covers(x.remote[m.chunk], m.version) => Plan(x, m) = x
              /\ ~Covers(x.remote[m.chunk], m.version) /\ Advanced(x.remote[m.chunk]) = m.version =>
                   Plan(x, m) = [remote |-> Put(x.remote, m.chunk, m.version),
                                 assembly |-> x.assembly, error |-> x.error]
              /\ ~Covers(x.remote[m.chunk], m.version) /\ Advanced(x.remote[m.chunk]) # m.version =>
                   Plan(x, m) = [remote |-> x.remote, assembly |-> x.assembly, error |-> "base_gap"]
<1>1. m.kind = "batch" /\ m.about = "voxel" /\ m.chunk \in Chunks /\ m.version \in Versions
  BY DEF EditMsgs
<1>2. Take(x, m) = Plan(x, m) /\ Plan(x, m) = PlanEdit(x, m)
  BY <1>1 DEF Take, Plan, IsBatch, IsChunkMessage
<1>3. x = [remote |-> x.remote, assembly |-> x.assembly, error |-> x.error]
  BY CopyFacts
<1>4. CASE x.error # "none"
  BY <1>2, <1>4 DEF PlanEdit
<1>5. CASE x.error = "none" /\ m.chunk \notin DOMAIN x.remote
  BY <1>1, <1>2, <1>3, <1>5 DEF PlanEdit
<1>6. CASE x.error = "none" /\ m.chunk \in DOMAIN x.remote
  <2>1. x.remote \in TablesOf(Versions)
    BY CopyFacts
  <2>2. [x.remote EXCEPT ![m.chunk] = m.version] = Put(x.remote, m.chunk, m.version)
    BY <1>6, <2>1, TableFacts DEF Put
  <2>3. Plan(x, m) = IF Covers(x.remote[m.chunk], m.version) THEN x
                     ELSE IF Advanced(x.remote[m.chunk]) = m.version
                     THEN [x EXCEPT !.remote[m.chunk] = m.version]
                     ELSE [x EXCEPT !.error = "base_gap"]
    BY <1>1, <1>2, <1>6 DEF PlanEdit
  <2>4. [x EXCEPT !.remote[m.chunk] = m.version]
          = [remote |-> Put(x.remote, m.chunk, m.version), assembly |-> x.assembly, error |-> x.error]
    BY <1>3, <2>2
  <2>5. [x EXCEPT !.error = "base_gap"] = [remote |-> x.remote, assembly |-> x.assembly, error |-> "base_gap"]
    BY <1>3
  <2> QED BY <1>2, <1>6, <2>3, <2>4, <2>5
<1> QED BY <1>2, <1>4, <1>5, <1>6

LEMMA TakeOthers ==
  ASSUME NEW r, NEW x, NEW m \in RecordMsgs \cup DeltaMsgs(r)
  PROVE  Take(x, m) = x /\ Plan(x, m) = x /\ m.kind \in {"batch", "delta"}
<1>1. CASE m \in RecordMsgs
  <2>1. m.kind = "batch" /\ m.about = "record"
    BY <1>1 DEF RecordMsgs
  <2> QED BY <2>1 DEF Take, Plan, PlanEdit, IsBatch, IsChunkMessage
<1>2. CASE m \in DeltaMsgs(r)
  <2>1. m.kind = "delta"
    BY <1>2 DEF DeltaMsgs
  <2> QED BY <2>1 DEF Take, Plan, IsBatch, IsChunkMessage
<1> QED BY <1>1, <1>2

--------------------------------------------------------------------------------
(* Versions *)

LEMMA AdvancedVersion ==
  ASSUME NEW v \in Versions
  PROVE  /\ Advanced(v) \in Versions /\ Advanced(v).gen = v.gen /\ Advanced(v).rev = v.rev + 1
         /\ Covers(Advanced(v), v) /\ ~Covers(v, Advanced(v))
BY DEF Advanced, Versions, Covers

LEMMA CoversOrder ==
  /\ \A u, v \in Versions : Covers(u, v) \/ Covers(v, u)
  /\ \A u, v \in Versions : Covers(u, v) /\ Covers(v, u) => u = v
  /\ \A u, v, z \in Versions : Covers(u, v) /\ Covers(v, z) => Covers(u, z)
  /\ \A v \in Versions : Covers(v, v)
BY DEF Versions, Covers

\* Between a version and the next there is none.
LEMMA NextVersion ==
  ASSUME NEW u \in Versions, NEW v \in Versions, Covers(u, v)
  PROVE  v = Advanced(u) => FALSE
BY AdvancedVersion

--------------------------------------------------------------------------------
(* Messages keep a copy well formed *)

LEMMA PutRecent ==
  ASSUME NEW g, NEW w, NEW t \in Tables(g, w), NEW c \in Chunks, NEW v \in Versions,
         Recent(g, w, c, v)
  PROVE  Put(t, c, v) \in Tables(g, w)
<1>1. t \in TablesOf(Versions) /\ \A d \in DOMAIN t : Recent(g, w, d, t[d])
  BY DEF Tables
<1>2. ASSUME NEW d \in DOMAIN Put(t, c, v) PROVE Recent(g, w, d, Put(t, c, v)[d])
  <2>1. /\ DOMAIN Put(t, c, v) = DOMAIN t \cup {c}
        /\ Put(t, c, v)[c] = v
        /\ \A e \in DOMAIN t : e # c => Put(t, c, v)[e] = t[e]
    BY DEF Put
  <2>2. CASE d = c
    BY <2>1, <2>2
  <2>3. CASE d # c /\ d \in DOMAIN t
    <3>1. Put(t, c, v)[d] = t[d]
      BY <2>1, <2>3
    <3> QED BY <1>1, <2>3, <3>1
  <2> QED BY <2>1, <2>2, <2>3
<1> QED BY <1>1, <1>2, PutFacts DEF Tables

LEMMA PutPart ==
  ASSUME NEW g, NEW w, NEW t \in Parts(g, w), NEW c \in Chunks, NEW p \in Partials,
         Recent(g, w, c, p.version)
  PROVE  Put(t, c, p) \in Parts(g, w)
<1>1. t \in TablesOf(Partials) /\ \A d \in DOMAIN t : Recent(g, w, d, t[d].version)
  BY DEF Parts
<1>2. ASSUME NEW d \in DOMAIN Put(t, c, p) PROVE Recent(g, w, d, Put(t, c, p)[d].version)
  <2>1. /\ DOMAIN Put(t, c, p) = DOMAIN t \cup {c}
        /\ Put(t, c, p)[c] = p
        /\ \A e \in DOMAIN t : e # c => Put(t, c, p)[e] = t[e]
    BY DEF Put
  <2>2. CASE d = c
    BY <2>1, <2>2
  <2>3. CASE d # c /\ d \in DOMAIN t
    <3>1. Put(t, c, p)[d] = t[d]
      BY <2>1, <2>3
    <3> QED BY <1>1, <2>3, <3>1
  <2> QED BY <2>1, <2>2, <2>3
<1> QED BY <1>1, <1>2, PutFacts DEF Parts

LEMMA RestrictRecent ==
  ASSUME NEW g, NEW w, NEW t \in Tables(g, w), NEW D, D \subseteq DOMAIN t
  PROVE  Restrict(t, D) \in Tables(g, w)
BY RestrictFacts DEF Tables

LEMMA RestrictPart ==
  ASSUME NEW g, NEW w, NEW t \in Parts(g, w), NEW D, D \subseteq DOMAIN t
  PROVE  Restrict(t, D) \in Parts(g, w)
BY RestrictFacts DEF Parts

LEMMA WithoutFacts ==
  ASSUME NEW V, NEW t \in TablesOf(V), NEW c
  PROVE  /\ Without(t, c) \in TablesOf(V) /\ DOMAIN Without(t, c) = DOMAIN t \ {c}
         /\ \A d \in DOMAIN t : d # c => Without(t, c)[d] = t[d]
BY RestrictFacts DEF Without

LEMMA CopyIntro ==
  ASSUME NEW g, NEW w, NEW r \in Tables(g, w), NEW a \in Parts(g, w),
         NEW e \in {"none", "base_missing", "base_gap"}
  PROVE  [remote |-> r, assembly |-> a, error |-> e] \in Copies(g, w)
BY DEF Copies

LEMMA SliceFacts ==
  ASSUME NEW g, NEW w, NEW m \in SliceMsgs(g, w)
  PROVE  /\ m.kind = "slice" /\ m.chunk \in Chunks /\ m.version \in Versions /\ m.y \in 1..Slices
         /\ Recent(g, w, m.chunk, m.version)
BY DEF SliceMsgs

LEMMA EditFacts ==
  ASSUME NEW g, NEW w, NEW m \in EditMsgs(g, w)
  PROVE  /\ m.kind = "batch" /\ m.about = "voxel" /\ m.chunk \in Chunks /\ m.version \in Versions
         /\ Recent(g, w, m.chunk, m.version)
BY DEF EditMsgs

LEMMA GotFacts ==
  ASSUME NEW g, NEW w, NEW x \in Copies(g, w), NEW m \in SliceMsgs(g, w)
  PROVE  Got(x, m) \subseteq 1..Slices /\ m.y \in Got(x, m)
<1>1. x.assembly \in TablesOf(Partials)
  BY CopyFacts
<1>2. m.chunk \in DOMAIN x.assembly => x.assembly[m.chunk] \in Partials
  BY <1>1, TableFacts
<1>3. m.chunk \in DOMAIN x.assembly => x.assembly[m.chunk].got \subseteq 1..Slices
  BY <1>2 DEF Partials
<1> QED BY <1>3, SliceFacts DEF Got, Same

LEMMA TakeStays ==
  ASSUME NEW g, NEW w, NEW r, NEW x \in Copies(g, w), NEW m \in Sendable(g, w, r)
  PROVE  /\ Take(x, m) \in Copies(g, w)
         /\ x.error # "none" => Take(x, m).error # "none"
         /\ m \in Queueable(g, w) => Take(x, m).error = x.error
<1>0. x.remote \in Tables(g, w) /\ x.assembly \in Parts(g, w)
      /\ x.remote \in TablesOf(Versions) /\ x.assembly \in TablesOf(Partials)
      /\ x.error \in {"none", "base_missing", "base_gap"}
  BY CopyFacts
<1>1. CASE m \in SliceMsgs(g, w)
  <2>1. m.chunk \in Chunks /\ m.version \in Versions /\ Recent(g, w, m.chunk, m.version)
    BY <1>1, SliceFacts
  <2>2. Put(x.remote, m.chunk, m.version) \in Tables(g, w)
    BY <1>0, <2>1, PutRecent
  <2>3. Without(x.assembly, m.chunk) \in Parts(g, w)
    BY <1>0, RestrictPart DEF Without
  <2>4. Installed(x, m) \in Copies(g, w) /\ Installed(x, m).error = x.error
    BY <1>0, <2>2, <2>3, CopyIntro DEF Installed
  <2>5. ASSUME Got(x, m) # 1..Slices
        PROVE  Gathering(x, m) \in Copies(g, w) /\ Gathering(x, m).error = x.error
    <3> DEFINE p == [version |-> m.version, got |-> Got(x, m)]
    <3>1. p \in Partials /\ p.version = m.version
      BY <1>1, <2>1, <2>5, GotFacts DEF Partials
    <3>2. Gathering(x, m) = [remote |-> x.remote, assembly |-> Put(x.assembly, m.chunk, p), error |-> x.error]
      BY DEF Gathering
    <3> HIDE DEF p
    <3>3. Put(x.assembly, m.chunk, p) \in Parts(g, w)
      BY <1>0, <2>1, <3>1, PutPart
    <3>4. [remote |-> x.remote, assembly |-> Put(x.assembly, m.chunk, p), error |-> x.error] \in Copies(g, w)
      BY <1>0, <3>3, CopyIntro
    <3> QED BY <3>2, <3>4
  <2> QED BY <1>1, <2>4, <2>5, TakeSlice
<1>2. CASE m \in RemovalMsgs
  <2>1. Without(x.remote, m.chunk) \in Tables(g, w)
    BY <1>0, RestrictRecent DEF Without
  <2>2. Without(x.assembly, m.chunk) \in Parts(g, w)
    BY <1>0, RestrictPart DEF Without
  <2>3. Removed(x, m) \in Copies(g, w) /\ Removed(x, m).error = x.error
    BY <1>0, <2>1, <2>2, CopyIntro DEF Removed
  <2> QED BY <1>2, <2>3, TakeRemoval
<1>3. CASE m \in EditMsgs(g, w)
  <2>0. m \notin Queueable(g, w)
    BY <1>3, EditFacts, SliceFacts DEF Queueable, RemovalMsgs
  <2>1. Put(x.remote, m.chunk, m.version) \in Tables(g, w)
    BY <1>0, <1>3, EditFacts, PutRecent
  <2>2. [remote |-> Put(x.remote, m.chunk, m.version), assembly |-> x.assembly, error |-> x.error] \in Copies(g, w)
    BY <1>0, <2>1, CopyIntro
  <2>3. /\ [remote |-> x.remote, assembly |-> x.assembly, error |-> "base_missing"] \in Copies(g, w)
        /\ [remote |-> x.remote, assembly |-> x.assembly, error |-> "base_gap"] \in Copies(g, w)
    BY <1>0, CopyIntro
  <2> QED BY <1>3, <2>0, <2>2, <2>3, PlanEdits
<1>4. CASE m \in RecordMsgs \cup DeltaMsgs(r)
  <2>1. m \notin Queueable(g, w)
    BY <1>4, TakeOthers, SliceFacts DEF Queueable, RemovalMsgs
  <2> QED BY <1>4, <2>1, TakeOthers
<1> QED BY <1>1, <1>2, <1>3, <1>4 DEF Sendable, Queueable, Reportable

LEMMA PlanOthers ==
  ASSUME NEW g, NEW w, NEW x, NEW m \in Queueable(g, w)
  PROVE  Plan(x, m) = x /\ IsChunkMessage(m)
BY SliceFacts DEF Queueable, RemovalMsgs, Plan, IsBatch, IsChunkMessage

LEMMA PlanStays ==
  ASSUME NEW g, NEW w, NEW r, NEW x \in Copies(g, w), NEW m \in Sendable(g, w, r)
  PROVE  /\ Plan(x, m) \in Copies(g, w)
         /\ x.error # "none" => Plan(x, m).error # "none"
<1>1. CASE m \in Queueable(g, w)
  BY <1>1, PlanOthers
<1>2. CASE m \in EditMsgs(g, w)
  BY <1>2, PlanEdits, TakeStays
<1>3. CASE m \in RecordMsgs \cup DeltaMsgs(r)
  BY <1>3, TakeOthers
<1> QED BY <1>1, <1>2, <1>3 DEF Sendable, Reportable

--------------------------------------------------------------------------------
(* Copies that the next messages cannot tell apart: equal but for assemblies that what *)
(* the copy has already covers, which StillNeeded drops.                              *)

Needed(x, c) == /\ c \in DOMAIN x.assembly
                /\ c \in DOMAIN x.remote => ~Covers(x.remote[c], x.assembly[c].version)

RemoteAt(x, y, c) == /\ c \in DOMAIN x.remote <=> c \in DOMAIN y.remote
                     /\ c \in DOMAIN x.remote => x.remote[c] = y.remote[c]
SameAt(x, y, c) == /\ RemoteAt(x, y, c)
                   /\ c \in DOMAIN x.assembly <=> c \in DOMAIN y.assembly
                   /\ c \in DOMAIN x.assembly => x.assembly[c] = y.assembly[c]
AlikeAt(x, y, c) == /\ RemoteAt(x, y, c)
                    /\ Needed(x, c) <=> Needed(y, c)
                    /\ Needed(x, c) => x.assembly[c] = y.assembly[c]
Alike(x, y) == x.error = y.error /\ \A c \in Chunks : AlikeAt(x, y, c)

LEMMA AlikeAtOrder ==
  /\ \A x, c : AlikeAt(x, x, c) /\ SameAt(x, x, c)
  /\ \A x, y, c : SameAt(x, y, c) => AlikeAt(x, y, c)
  /\ \A x, y, c : SameAt(x, y, c) => SameAt(y, x, c)
  /\ \A x, y, c : AlikeAt(x, y, c) => AlikeAt(y, x, c)
  /\ \A x, y, z, c : AlikeAt(x, y, c) /\ AlikeAt(y, z, c) => AlikeAt(x, z, c)
  /\ \A x, y, z, c : SameAt(x, y, c) /\ SameAt(y, z, c) => SameAt(x, z, c)
<1>1. \A x, c : AlikeAt(x, x, c) /\ SameAt(x, x, c)
  BY DEF AlikeAt, SameAt, RemoteAt, Needed
<1>2. \A x, y, c : SameAt(x, y, c) => AlikeAt(x, y, c)
  BY DEF AlikeAt, SameAt, RemoteAt, Needed
<1>3. \A x, y, c : SameAt(x, y, c) => SameAt(y, x, c)
  BY DEF SameAt, RemoteAt
<1>4. \A x, y, c : AlikeAt(x, y, c) => AlikeAt(y, x, c)
  BY DEF AlikeAt, RemoteAt, Needed
<1>5. \A x, y, z, c : AlikeAt(x, y, c) /\ AlikeAt(y, z, c) => AlikeAt(x, z, c)
  BY DEF AlikeAt, RemoteAt, Needed
<1>6. \A x, y, z, c : SameAt(x, y, c) /\ SameAt(y, z, c) => SameAt(x, z, c)
  BY DEF SameAt, RemoteAt
<1> QED BY <1>1, <1>2, <1>3, <1>4, <1>5, <1>6

LEMMA AlikeOrder ==
  /\ \A x : Alike(x, x)
  /\ \A x, y : Alike(x, y) => Alike(y, x)
  /\ \A x, y, z : Alike(x, y) /\ Alike(y, z) => Alike(x, z)
BY AlikeAtOrder DEF Alike

LEMMA AlikeRemote ==
  ASSUME NEW g, NEW w, NEW x \in Copies(g, w), NEW y \in Copies(g, w), Alike(x, y)
  PROVE  x.remote = y.remote
<1>1. x.remote \in TablesOf(Versions) /\ y.remote \in TablesOf(Versions)
  BY CopyFacts
<1>2. DOMAIN x.remote \subseteq Chunks /\ DOMAIN y.remote \subseteq Chunks
  BY <1>1, TableFacts
<1>3. \A c \in Chunks : RemoteAt(x, y, c)
  BY DEF Alike, AlikeAt
<1>4. DOMAIN x.remote = DOMAIN y.remote /\ \A c \in DOMAIN x.remote : x.remote[c] = y.remote[c]
  BY <1>2, <1>3 DEF RemoteAt
<1> QED BY <1>1, <1>4, SameTable

LEMMA InstalledAt ==
  ASSUME NEW x, NEW m
  PROVE  /\ m.chunk \in DOMAIN Installed(x, m).remote /\ Installed(x, m).remote[m.chunk] = m.version
         /\ m.chunk \notin DOMAIN Installed(x, m).assembly
         /\ \A d : d # m.chunk => SameAt(x, Installed(x, m), d)
BY DEF Installed, Put, Without, Restrict, SameAt, RemoteAt

LEMMA GatheringAt ==
  ASSUME NEW x, NEW m
  PROVE  /\ RemoteAt(x, Gathering(x, m), m.chunk)
         /\ m.chunk \in DOMAIN Gathering(x, m).assembly
         /\ Gathering(x, m).assembly[m.chunk] = [version |-> m.version, got |-> Got(x, m)]
         /\ \A d : d # m.chunk => SameAt(x, Gathering(x, m), d)
BY DEF Gathering, Put, SameAt, RemoteAt

LEMMA RemovedAt ==
  ASSUME NEW x, NEW m
  PROVE  /\ m.chunk \notin DOMAIN Removed(x, m).remote /\ m.chunk \notin DOMAIN Removed(x, m).assembly
         /\ \A d : d # m.chunk => SameAt(x, Removed(x, m), d)
BY DEF Removed, Without, Restrict, SameAt, RemoteAt

\* An edit of the next revision, as the publication table takes it.
Expects(x, m) == m.chunk \in DOMAIN x.remote /\ Advanced(x.remote[m.chunk]) = m.version
Amended(x, m) == [remote |-> Put(x.remote, m.chunk, m.version), assembly |-> x.assembly, error |-> x.error]
Amend(x, m) == IF IsEdit(m) /\ Expects(x, m) THEN Amended(x, m) ELSE x

LEMMA AmendedAt ==
  ASSUME NEW x, NEW m
  PROVE  /\ m.chunk \in DOMAIN Amended(x, m).remote /\ Amended(x, m).remote[m.chunk] = m.version
         /\ m.chunk \in DOMAIN Amended(x, m).assembly <=> m.chunk \in DOMAIN x.assembly
         /\ Amended(x, m).assembly = x.assembly
         /\ \A d : d # m.chunk => SameAt(x, Amended(x, m), d)
BY DEF Amended, Put, SameAt, RemoteAt

LEMMA Elsewhere ==
  ASSUME NEW g, NEW w, NEW x \in Copies(g, w)
  PROVE  /\ \A m \in Queueable(g, w) : \A d : d # m.chunk => SameAt(x, Take(x, m), d)
         /\ \A m \in EditMsgs(g, w) : \A d : d # m.chunk => SameAt(x, Amend(x, m), d)
<1>1. ASSUME NEW m \in SliceMsgs(g, w), NEW d, d # m.chunk PROVE SameAt(x, Take(x, m), d)
  <2>1. Take(x, m) \in {x, Installed(x, m), Gathering(x, m)}
    BY TakeSlice
  <2>2. SameAt(x, x, d)
    BY AlikeAtOrder
  <2>3. SameAt(x, Installed(x, m), d)
    BY <1>1, InstalledAt
  <2>4. SameAt(x, Gathering(x, m), d)
    BY <1>1, GatheringAt
  <2> QED BY <2>1, <2>2, <2>3, <2>4
<1>2. ASSUME NEW m \in RemovalMsgs, NEW d, d # m.chunk PROVE SameAt(x, Take(x, m), d)
  <2>1. SameAt(x, Removed(x, m), d)
    BY <1>2, RemovedAt
  <2> QED BY <2>1, TakeRemoval
<1>3. ASSUME NEW m \in EditMsgs(g, w), NEW d, d # m.chunk PROVE SameAt(x, Amend(x, m), d)
  <2>1. SameAt(x, Amended(x, m), d)
    BY <1>3, AmendedAt
  <2>2. SameAt(x, x, d)
    BY AlikeAtOrder
  <2> QED BY <2>1, <2>2 DEF Amend
<1> QED BY <1>1, <1>2, <1>3 DEF Queueable

LEMMA VersionFacts ==
  ASSUME NEW g, NEW w, NEW x \in Copies(g, w), NEW c
  PROVE  /\ c \in DOMAIN x.remote => x.remote[c] \in Versions /\ c \in Chunks /\ Recent(g, w, c, x.remote[c])
         /\ c \in DOMAIN x.assembly => /\ x.assembly[c] \in Partials /\ x.assembly[c].version \in Versions
                                       /\ x.assembly[c].got \subseteq 1..Slices
                                       /\ x.assembly[c].got # 1..Slices
                                       /\ Recent(g, w, c, x.assembly[c].version)
<1>1. x.remote \in TablesOf(Versions) /\ x.assembly \in TablesOf(Partials)
  BY CopyFacts
<1>2. c \in DOMAIN x.remote => x.remote[c] \in Versions /\ c \in Chunks
  BY <1>1, TableFacts
<1>3. c \in DOMAIN x.assembly => x.assembly[c] \in Partials
  BY <1>1, TableFacts
<1>4. /\ c \in DOMAIN x.remote => Recent(g, w, c, x.remote[c])
      /\ c \in DOMAIN x.assembly => Recent(g, w, c, x.assembly[c].version)
  BY CopyFacts DEF Tables, Parts
<1>5. \A p \in Partials : p.version \in Versions /\ p.got \subseteq 1..Slices /\ p.got # 1..Slices
  BY DEF Partials
<1> QED BY <1>2, <1>3, <1>4, <1>5

\* What is no longer needed is not extended and does not stand in the way of a slice
\* that is.
LEMMA Unneeded ==
  ASSUME NEW g, NEW w, NEW x \in Copies(g, w), NEW m \in SliceMsgs(g, w),
         ~Known(x, m), ~Needed(x, m.chunk)
  PROVE  ~Same(x, m) /\ ~Newer(x, m)
<1>1. CASE m.chunk \notin DOMAIN x.assembly
  BY <1>1 DEF Same, Newer
<1>2. CASE m.chunk \in DOMAIN x.assembly
  <2>1. m.chunk \in DOMAIN x.remote /\ Covers(x.remote[m.chunk], x.assembly[m.chunk].version)
    BY <1>2 DEF Needed
  <2>2. ~Covers(x.remote[m.chunk], m.version)
    BY <2>1 DEF Known
  <2>3. x.remote[m.chunk] \in Versions /\ x.assembly[m.chunk].version \in Versions /\ m.version \in Versions
    BY <1>2, <2>1, VersionFacts, SliceFacts
  <2>4. ~Covers(x.assembly[m.chunk].version, m.version)
    BY <2>1, <2>2, <2>3, CoversOrder
  <2> QED BY <2>1, <2>2, <2>4 DEF Same, Newer
<1> QED BY <1>1, <1>2

LEMMA SliceAlike ==
  ASSUME NEW g, NEW w, NEW x \in Copies(g, w), NEW y \in Copies(g, w), NEW m \in SliceMsgs(g, w),
         AlikeAt(x, y, m.chunk)
  PROVE  AlikeAt(Take(x, m), Take(y, m), m.chunk)
<1>1. Known(x, m) <=> Known(y, m)
  BY DEF AlikeAt, RemoteAt, Known
<1>2. CASE Known(x, m)
  BY <1>1, <1>2, TakeSlice
<1>3. CASE ~Known(x, m)
  <2>1. (Newer(x, m) <=> Newer(y, m)) /\ (Same(x, m) <=> Same(y, m)) /\ Got(x, m) = Got(y, m)
    <3>1. CASE Needed(x, m.chunk)
      <4>1. m.chunk \in DOMAIN x.assembly /\ m.chunk \in DOMAIN y.assembly
            /\ x.assembly[m.chunk] = y.assembly[m.chunk]
        BY <3>1 DEF AlikeAt, Needed
      <4> QED BY <4>1 DEF Newer, Same, Got
    <3>2. CASE ~Needed(x, m.chunk)
      <4>1. ~Needed(y, m.chunk)
        BY <3>2 DEF AlikeAt
      <4>2. ~Same(x, m) /\ ~Newer(x, m)
        BY <1>3, <3>2, Unneeded
      <4>3. ~Same(y, m) /\ ~Newer(y, m)
        BY <1>1, <1>3, <4>1, Unneeded
      <4> QED BY <4>2, <4>3 DEF Newer, Same, Got
    <3> QED BY <3>1, <3>2
  <2>2. CASE Newer(x, m)
    BY <2>1, <2>2, TakeSlice
  <2>3. CASE ~Newer(x, m) /\ Got(x, m) = 1..Slices
    <3>1. ~Known(y, m) /\ ~Newer(y, m) /\ Got(y, m) = 1..Slices
      BY <1>1, <1>3, <2>1, <2>3
    <3>2. Take(x, m) = Installed(x, m)
      BY <1>3, <2>3, TakeSlice
    <3>3. Take(y, m) = Installed(y, m)
      BY <3>1, TakeSlice
    <3>4. AlikeAt(Installed(x, m), Installed(y, m), m.chunk)
      BY InstalledAt DEF AlikeAt, RemoteAt, Needed
    <3> QED BY <3>2, <3>3, <3>4
  <2>4. CASE ~Newer(x, m) /\ Got(x, m) # 1..Slices
    <3>1. Take(x, m) = Gathering(x, m) /\ Take(y, m) = Gathering(y, m)
      BY <1>1, <1>3, <2>1, <2>4, TakeSlice
    <3>2. RemoteAt(Gathering(x, m), Gathering(y, m), m.chunk)
      BY DEF Gathering, AlikeAt, RemoteAt
    <3>3. Gathering(x, m).assembly[m.chunk] = Gathering(y, m).assembly[m.chunk]
          /\ m.chunk \in DOMAIN Gathering(x, m).assembly /\ m.chunk \in DOMAIN Gathering(y, m).assembly
      BY <2>1 DEF Gathering, Put
    <3>4. AlikeAt(Gathering(x, m), Gathering(y, m), m.chunk)
      BY <3>2, <3>3 DEF AlikeAt, RemoteAt, Needed
    <3> QED BY <3>1, <3>4
  <2> QED BY <2>2, <2>3, <2>4
<1> QED BY <1>2, <1>3

LEMMA QueueableAlike ==
  ASSUME NEW g, NEW w, NEW x \in Copies(g, w), NEW y \in Copies(g, w), NEW m \in Queueable(g, w),
         AlikeAt(x, y, m.chunk)
  PROVE  AlikeAt(Take(x, m), Take(y, m), m.chunk)
<1>1. CASE m \in SliceMsgs(g, w)
  BY <1>1, SliceAlike
<1>2. CASE m \in RemovalMsgs
  <2>1. Take(x, m) = Removed(x, m) /\ Take(y, m) = Removed(y, m)
    BY <1>2, TakeRemoval
  <2>2. AlikeAt(Removed(x, m), Removed(y, m), m.chunk)
    BY RemovedAt DEF AlikeAt, RemoteAt, Needed
  <2> QED BY <2>1, <2>2
<1> QED BY <1>1, <1>2 DEF Queueable

LEMMA EditAlike ==
  ASSUME NEW g, NEW w, NEW x \in Copies(g, w), NEW y \in Copies(g, w), NEW m \in EditMsgs(g, w),
         AlikeAt(x, y, m.chunk)
  PROVE  AlikeAt(Amend(x, m), Amend(y, m), m.chunk)
<1>1. Expects(x, m) <=> Expects(y, m)
  BY DEF Expects, AlikeAt, RemoteAt
<1>2. CASE ~(IsEdit(m) /\ Expects(x, m))
  BY <1>1, <1>2 DEF Amend
<1>3. CASE IsEdit(m) /\ Expects(x, m)
  <2> DEFINE c == m.chunk
             v == m.version
  <2>1. Amend(x, m) = Amended(x, m) /\ Amend(y, m) = Amended(y, m)
    BY <1>1, <1>3 DEF Amend
  <2>2. RemoteAt(Amended(x, m), Amended(y, m), c)
    BY AmendedAt DEF RemoteAt
  <2>3. c \in DOMAIN x.remote /\ c \in DOMAIN y.remote /\ x.remote[c] = y.remote[c]
        /\ Advanced(x.remote[c]) = v /\ x.remote[c] \in Versions /\ v \in Versions
    BY <1>3, VersionFacts, EditFacts DEF Expects, AlikeAt, RemoteAt
  <2>4. Covers(v, x.remote[c])
    BY <2>3, AdvancedVersion
  <2>5. /\ Needed(Amended(x, m), c) <=> c \in DOMAIN x.assembly /\ ~Covers(v, x.assembly[c].version)
        /\ Needed(Amended(y, m), c) <=> c \in DOMAIN y.assembly /\ ~Covers(v, y.assembly[c].version)
    BY AmendedAt DEF Needed
  <2>6. Needed(Amended(x, m), c) => Needed(x, c)
    <3> SUFFICES ASSUME Needed(Amended(x, m), c) PROVE ~Covers(x.remote[c], x.assembly[c].version)
      BY <2>5 DEF Needed
    <3>1. c \in DOMAIN x.assembly /\ ~Covers(v, x.assembly[c].version)
      BY <2>5
    <3>2. x.assembly[c].version \in Versions
      BY <3>1, VersionFacts
    <3> HIDE DEF c, v
    <3> QED BY <2>3, <2>4, <3>1, <3>2, CoversOrder
  <2>7. Needed(Amended(y, m), c) => Needed(y, c)
    <3> SUFFICES ASSUME Needed(Amended(y, m), c) PROVE ~Covers(y.remote[c], y.assembly[c].version)
      BY <2>5 DEF Needed
    <3>1. c \in DOMAIN y.assembly /\ ~Covers(v, y.assembly[c].version)
      BY <2>5
    <3>2. y.assembly[c].version \in Versions
      BY <3>1, VersionFacts
    <3> HIDE DEF c, v
    <3> QED BY <2>3, <2>4, <3>1, <3>2, CoversOrder
  <2>8. Amended(x, m).assembly = x.assembly /\ Amended(y, m).assembly = y.assembly
    BY AmendedAt
  <2>9. /\ Needed(x, c) <=> Needed(y, c)
        /\ Needed(x, c) => c \in DOMAIN x.assembly /\ c \in DOMAIN y.assembly /\ x.assembly[c] = y.assembly[c]
    BY DEF AlikeAt, Needed
  <2> HIDE DEF c, v
  <2>10. AlikeAt(Amended(x, m), Amended(y, m), c)
    BY <2>2, <2>5, <2>6, <2>7, <2>8, <2>9 DEF AlikeAt
  <2> QED BY <2>1, <2>10 DEF c
<1> QED BY <1>2, <1>3

LEMMA AlikeStep ==
  ASSUME NEW x, NEW y, NEW u, NEW v, NEW c, SameAt(x, u, c), SameAt(y, v, c), AlikeAt(x, y, c)
  PROVE  AlikeAt(u, v, c)
BY AlikeAtOrder

LEMMA AmendStays ==
  ASSUME NEW g, NEW w, NEW r, NEW x \in Copies(g, w), NEW m \in Sendable(g, w, r)
  PROVE  /\ Amend(x, m) \in Copies(g, w) /\ Amend(x, m).error = x.error
         /\ m \notin EditMsgs(g, w) => Amend(x, m) = x
         /\ Plan(x, m).error = "none" => Plan(x, m) = Amend(x, m)
<1>1. ASSUME m \notin EditMsgs(g, w) PROVE Amend(x, m) = x
  <2>1. ~IsEdit(m)
    BY <1>1, SliceFacts DEF Sendable, Queueable, Reportable, RemovalMsgs, RecordMsgs, DeltaMsgs, IsEdit, IsBatch
  <2> QED BY <2>1 DEF Amend
<1>2. CASE m \in EditMsgs(g, w)
  <2>0. m.chunk \in Chunks /\ m.version \in Versions /\ Recent(g, w, m.chunk, m.version) /\ IsEdit(m)
    BY <1>2, EditFacts DEF IsEdit, IsBatch
  <2>1. Put(x.remote, m.chunk, m.version) \in Tables(g, w)
    BY <2>0, CopyFacts, PutRecent
  <2>2. Amended(x, m) \in Copies(g, w) /\ Amended(x, m).error = x.error
    BY <2>1, CopyFacts, CopyIntro DEF Amended
  <2>3. Amend(x, m) \in Copies(g, w) /\ Amend(x, m).error = x.error
    BY <2>2 DEF Amend
  <2>4. ASSUME Plan(x, m).error = "none" PROVE Plan(x, m) = Amend(x, m)
    <3>1. x.error = "none" /\ m.chunk \in DOMAIN x.remote
      BY <1>2, <2>4, PlanEdits
    <3>2. x.remote[m.chunk] \in Versions
      BY <3>1, VersionFacts
    <3>3. CASE Covers(x.remote[m.chunk], m.version)
      <4>1. Advanced(x.remote[m.chunk]) # m.version
        BY <2>0, <3>2, <3>3, NextVersion
      <4>2. Plan(x, m) = x
        BY <1>2, <3>1, <3>3, PlanEdits
      <4> QED BY <4>1, <4>2 DEF Amend, Expects
    <3>4. CASE ~Covers(x.remote[m.chunk], m.version)
      <4>1. Advanced(x.remote[m.chunk]) = m.version
        BY <1>2, <2>4, <3>1, <3>4, PlanEdits
      <4>2. Plan(x, m) = Amended(x, m)
        BY <1>2, <3>1, <3>4, <4>1, PlanEdits DEF Amended
      <4> QED BY <2>0, <3>1, <4>1, <4>2 DEF Amend, Expects
    <3> QED BY <3>3, <3>4
  <2> QED BY <1>2, <2>3, <2>4
<1>3. CASE m \notin EditMsgs(g, w)
  <2>1. Plan(x, m) = x
    BY <1>3, PlanOthers, TakeOthers DEF Sendable, Reportable
  <2> QED BY <1>1, <1>3, <2>1
<1> QED BY <1>2, <1>3

\* An edit and a chunk message may change places, if the message is not a slice of the
\* same chunk that lacks the edit.
Exchangeable(b, m) ==
  IsEdit(b) /\ m.kind = "slice" /\ m.chunk = b.chunk => Covers(m.version, b.version)

LEMMA CommuteSlice ==
  ASSUME NEW g, NEW w, NEW x \in Copies(g, w), NEW b \in EditMsgs(g, w), NEW m \in SliceMsgs(g, w),
         m.chunk = b.chunk, Covers(m.version, b.version), Expects(x, b),
         Amended(x, b) \in Copies(g, w), Take(x, m) \in Copies(g, w)
  PROVE  AlikeAt(Take(Amended(x, b), m), Amend(Take(x, m), b), m.chunk)
<1> DEFINE c == m.chunk
           y == Amended(x, b)
           z == Take(x, m)
<1>0. IsEdit(b) /\ b.version \in Versions /\ m.version \in Versions
  BY EditFacts, SliceFacts DEF IsEdit, IsBatch
<1>1. /\ c \in DOMAIN x.remote /\ x.remote[c] \in Versions /\ Advanced(x.remote[c]) = b.version
      /\ c \in DOMAIN y.remote /\ y.remote[c] = b.version /\ y.assembly = x.assembly
  BY VersionFacts, AmendedAt DEF Expects
<1>2. ~Known(x, m)
  <2> SUFFICES ASSUME Covers(x.remote[c], m.version) PROVE FALSE
    BY DEF Known
  <2>1. Covers(x.remote[c], b.version)
    BY <1>0, <1>1, CoversOrder
  <2> QED BY <1>1, <2>1, AdvancedVersion
<1>3. (Newer(y, m) <=> Newer(x, m)) /\ Got(y, m) = Got(x, m)
  BY <1>1 DEF Newer, Got, Same
<1>4. Advanced(m.version) # b.version
  BY <1>0, NextVersion
<1>5. CASE m.version # b.version
  <2>1. ~Known(y, m)
    BY <1>0, <1>1, <1>5, CoversOrder DEF Known
  <2>2. CASE Newer(x, m)
    <3>1. Take(y, m) = y
      BY <1>3, <2>2, TakeSlice
    <3>2. z = x
      BY <2>2, TakeSlice
    <3>3. Amend(z, b) = y
      BY <1>0, <3>2 DEF Amend
    <3> QED BY <3>1, <3>3, AlikeAtOrder
  <2>3. CASE ~Newer(x, m) /\ Got(x, m) = 1..Slices
    <3>1. Take(y, m) = Installed(y, m)
      BY <1>3, <2>1, <2>3, TakeSlice
    <3>2. z = Installed(x, m)
      BY <1>2, <2>3, TakeSlice
    <3>3. ~Expects(z, b)
      BY <1>4, <3>2, InstalledAt DEF Expects
    <3>4. Amend(z, b) = Installed(x, m)
      BY <3>2, <3>3 DEF Amend
    <3>5. AlikeAt(Installed(y, m), Installed(x, m), c)
      BY InstalledAt DEF AlikeAt, RemoteAt, Needed
    <3> QED BY <3>1, <3>4, <3>5
  <2>4. CASE ~Newer(x, m) /\ Got(x, m) # 1..Slices
    <3>1. Take(y, m) = Gathering(y, m)
      BY <1>3, <2>1, <2>4, TakeSlice
    <3>2. z = Gathering(x, m)
      BY <1>2, <2>4, TakeSlice
    <3>3. z.remote = x.remote
      BY <3>2 DEF Gathering
    <3>4. Amend(z, b) = Amended(z, b)
      BY <1>0, <3>3 DEF Amend, Expects
    <3>5. Amended(z, b) = Gathering(y, m)
      BY <1>3, <3>2 DEF Amended, Gathering
    <3> QED BY <3>1, <3>4, <3>5, AlikeAtOrder
  <2> QED BY <2>2, <2>3, <2>4
<1>6. CASE m.version = b.version
  <2>1. Known(y, m)
    BY <1>0, <1>1, <1>6, CoversOrder DEF Known
  <2>2. Take(y, m) = y
    BY <2>1, TakeSlice
  <2>3. CASE Newer(x, m)
    <3>1. z = x
      BY <2>3, TakeSlice
    <3>2. Amend(z, b) = y
      BY <1>0, <3>1 DEF Amend
    <3> QED BY <2>2, <3>2, AlikeAtOrder
  <2>4. CASE ~Newer(x, m)
    <3>1. ~Needed(y, c)
      <4> SUFFICES ASSUME c \in DOMAIN x.assembly PROVE Covers(b.version, x.assembly[c].version)
        BY <1>1 DEF Needed
      <4>1. x.assembly[c].version \in Versions
        BY VersionFacts
      <4>2. x.assembly[c].version = b.version \/ ~Covers(x.assembly[c].version, b.version)
        BY <1>6, <2>4 DEF Newer
      <4> QED BY <1>0, <4>1, <4>2, CoversOrder
    <3>2. CASE Got(x, m) = 1..Slices
      <4>1. z = Installed(x, m)
        BY <1>2, <2>4, <3>2, TakeSlice
      <4>2. ~Expects(z, b)
        BY <1>4, <4>1, InstalledAt DEF Expects
      <4>3. Amend(z, b) = Installed(x, m)
        BY <4>1, <4>2 DEF Amend
      <4>4. AlikeAt(y, Installed(x, m), c)
        BY <1>1, <1>6, <3>1, InstalledAt DEF AlikeAt, RemoteAt, Needed
      <4> QED BY <2>2, <4>3, <4>4
    <3>3. CASE Got(x, m) # 1..Slices
      <4>1. z = Gathering(x, m)
        BY <1>2, <2>4, <3>3, TakeSlice
      <4>2. z.remote = x.remote /\ c \in DOMAIN z.assembly /\ z.assembly[c].version = b.version
        BY <1>6, <4>1 DEF Gathering, Put
      <4>3. Amend(z, b) = Amended(z, b)
        BY <1>0, <4>2 DEF Amend, Expects
      <4>4. ~Needed(Amended(z, b), c)
        BY <1>0, <4>2, AmendedAt, CoversOrder DEF Needed
      <4>5. RemoteAt(y, Amended(z, b), c)
        BY AmendedAt DEF RemoteAt
      <4>6. AlikeAt(y, Amended(z, b), c)
        BY <3>1, <4>4, <4>5 DEF AlikeAt
      <4> QED BY <2>2, <4>3, <4>6
    <3> QED BY <3>2, <3>3
  <2> QED BY <2>3, <2>4
<1> QED BY <1>5, <1>6

LEMMA AmendAlike ==
  ASSUME NEW g, NEW w, NEW r, NEW x \in Copies(g, w), NEW y \in Copies(g, w),
         NEW m \in Sendable(g, w, r), Alike(x, y)
  PROVE  Alike(Amend(x, m), Amend(y, m))
<1>1. CASE m \notin EditMsgs(g, w)
  BY <1>1, AmendStays
<1>2. CASE m \in EditMsgs(g, w)
  <2>1. Amend(x, m).error = x.error /\ Amend(y, m).error = y.error
    BY AmendStays
  <2>2. ASSUME NEW c \in Chunks PROVE AlikeAt(Amend(x, m), Amend(y, m), c)
    <3>0. AlikeAt(x, y, c)
      BY DEF Alike
    <3>1. CASE c = m.chunk
      BY <1>2, <3>0, <3>1, EditAlike
    <3>2. CASE c # m.chunk
      <4>1. SameAt(x, Amend(x, m), c) /\ SameAt(y, Amend(y, m), c)
        BY <1>2, <3>2, Elsewhere
      <4> QED BY <3>0, <4>1, AlikeStep
    <3> QED BY <3>1, <3>2
  <2> QED BY <2>1, <2>2 DEF Alike
<1> QED BY <1>1, <1>2

Verdict(error, table, m) ==
  IF error # "none" THEN error
  ELSE IF m.chunk \notin DOMAIN table THEN "base_missing"
  ELSE IF Covers(table[m.chunk], m.version) \/ Advanced(table[m.chunk]) = m.version THEN "none"
  ELSE "base_gap"

LEMMA PlanVerdict ==
  ASSUME NEW g, NEW w, NEW x \in Copies(g, w), NEW m \in EditMsgs(g, w)
  PROVE  /\ Plan(x, m).error = Verdict(x.error, x.remote, m)
         /\ Plan(x, m).error # "none" => Plan(x, m).remote = x.remote /\ Plan(x, m).assembly = x.assembly
<1>1. CASE x.error # "none"
  BY <1>1, PlanEdits DEF Verdict
<1>2. CASE x.error = "none" /\ m.chunk \notin DOMAIN x.remote
  BY <1>2, PlanEdits DEF Verdict
<1>3. CASE x.error = "none" /\ m.chunk \in DOMAIN x.remote
  <2>1. CASE Covers(x.remote[m.chunk], m.version)
    BY <1>3, <2>1, PlanEdits DEF Verdict
  <2>2. CASE ~Covers(x.remote[m.chunk], m.version) /\ Advanced(x.remote[m.chunk]) = m.version
    <3>1. Plan(x, m).error = x.error
      BY <1>3, <2>2, PlanEdits
    <3> QED BY <1>3, <2>2, <3>1 DEF Verdict
  <2>3. CASE ~Covers(x.remote[m.chunk], m.version) /\ Advanced(x.remote[m.chunk]) # m.version
    <3>1. Plan(x, m) = [remote |-> x.remote, assembly |-> x.assembly, error |-> "base_gap"]
      BY <1>3, <2>3, PlanEdits
    <3> QED BY <1>3, <2>3, <3>1 DEF Verdict
  <2> QED BY <2>1, <2>2, <2>3
<1> QED BY <1>1, <1>2, <1>3

LEMMA PlanAlike ==
  ASSUME NEW g, NEW w, NEW x \in Copies(g, w), NEW y \in Copies(g, w),
         NEW m \in EditMsgs(g, w), Alike(x, y)
  PROVE  Alike(Plan(x, m), Plan(y, m))
<1>0. x.error = y.error /\ x.remote = y.remote
  BY AlikeRemote DEF Alike
<1>1. m \in Sendable(g, w, 0)
  BY DEF Sendable, Reportable
<1>2. Plan(x, m).error = Plan(y, m).error
  BY <1>0, PlanVerdict
<1>3. CASE Plan(x, m).error = "none"
  <2>1. Plan(x, m) = Amend(x, m)
    BY <1>1, <1>3, AmendStays
  <2>2. Plan(y, m).error = "none"
    BY <1>2, <1>3
  <2>3. Plan(y, m) = Amend(y, m)
    BY <1>1, <2>2, AmendStays
  <2>4. Alike(Amend(x, m), Amend(y, m))
    BY <1>1, AmendAlike
  <2> QED BY <2>1, <2>3, <2>4
<1>4. CASE Plan(x, m).error # "none"
  <2>1. /\ Plan(x, m).remote = x.remote /\ Plan(x, m).assembly = x.assembly
        /\ Plan(y, m).remote = y.remote /\ Plan(y, m).assembly = y.assembly
    BY <1>2, <1>4, PlanVerdict
  <2>2. \A c \in Chunks : SameAt(x, Plan(x, m), c) /\ SameAt(y, Plan(y, m), c)
    BY <2>1 DEF SameAt, RemoteAt
  <2>3. \A c \in Chunks : AlikeAt(Plan(x, m), Plan(y, m), c)
    BY <2>2, AlikeStep DEF Alike
  <2> QED BY <1>2, <2>3 DEF Alike
<1> QED BY <1>3, <1>4

LEMMA TakeAlike ==
  ASSUME NEW g, NEW w, NEW r, NEW x \in Copies(g, w), NEW y \in Copies(g, w),
         NEW m \in Sendable(g, w, r), Alike(x, y)
  PROVE  Alike(Take(x, m), Take(y, m))
<1>1. CASE m \in Queueable(g, w)
  <2>1. Take(x, m).error = x.error /\ Take(y, m).error = y.error
    BY <1>1, TakeStays
  <2>2. ASSUME NEW c \in Chunks PROVE AlikeAt(Take(x, m), Take(y, m), c)
    <3>0. AlikeAt(x, y, c)
      BY DEF Alike
    <3>1. CASE c = m.chunk
      BY <1>1, <3>0, <3>1, QueueableAlike
    <3>2. CASE c # m.chunk
      <4>1. SameAt(x, Take(x, m), c) /\ SameAt(y, Take(y, m), c)
        BY <1>1, <3>2, Elsewhere
      <4> QED BY <3>0, <4>1, AlikeStep
    <3> QED BY <3>1, <3>2
  <2> QED BY <2>1, <2>2 DEF Alike
<1>2. CASE m \in EditMsgs(g, w)
  <2>1. Take(x, m) = Plan(x, m) /\ Take(y, m) = Plan(y, m)
    BY <1>2, PlanEdits
  <2> QED BY <1>2, <2>1, PlanAlike
<1>3. CASE m \in RecordMsgs \cup DeltaMsgs(r)
  BY <1>3, TakeOthers
<1> QED BY <1>1, <1>2, <1>3 DEF Sendable, Reportable

LEMMA Commute ==
  ASSUME NEW g, NEW w, NEW r, NEW x \in Copies(g, w), NEW b \in Sendable(g, w, r),
         NEW m \in Queueable(g, w), Exchangeable(b, m)
  PROVE  Alike(Take(Amend(x, b), m), Amend(Take(x, m), b))
<1>0. m \in Sendable(g, w, r)
  BY DEF Sendable
<1>1. CASE b \notin EditMsgs(g, w)
  <2>1. Amend(x, b) = x /\ Amend(Take(x, m), b) = Take(x, m)
    BY <1>0, <1>1, AmendStays, TakeStays
  <2> QED BY <2>1, AlikeOrder
<1>2. CASE b \in EditMsgs(g, w)
  <2> DEFINE y == Amend(x, b)
             z == Take(x, m)
  <2>1. y \in Copies(g, w) /\ z \in Copies(g, w) /\ y.error = x.error /\ z.error = x.error
    BY <1>0, AmendStays, TakeStays
  <2>2. Take(y, m).error = Amend(z, b).error
    <3> HIDE DEF y, z
    <3>1. Take(y, m).error = y.error
      BY <1>0, <2>1, TakeStays
    <3>2. Amend(z, b).error = z.error
      BY <2>1, AmendStays
    <3> QED BY <2>1, <3>1, <3>2
  <2>3. \A d : d # b.chunk => SameAt(x, y, d) /\ SameAt(z, Amend(z, b), d)
    <3>1. \A d : d # b.chunk => SameAt(x, y, d)
      BY <1>2, Elsewhere
    <3> HIDE DEF y, z
    <3> QED BY <1>2, <2>1, <3>1, Elsewhere
  <2>4. \A d : d # m.chunk => SameAt(x, z, d) /\ SameAt(y, Take(y, m), d)
    <3>1. \A d : d # m.chunk => SameAt(x, z, d)
      BY Elsewhere
    <3> HIDE DEF y, z
    <3> QED BY <2>1, <3>1, Elsewhere
  <2>5. ASSUME NEW d \in Chunks PROVE AlikeAt(Take(y, m), Amend(z, b), d)
    <3>1. CASE d # m.chunk /\ d # b.chunk
      BY <2>3, <2>4, <3>1, AlikeAtOrder
    <3>2. CASE d = m.chunk /\ d # b.chunk
      <4>1. AlikeAt(y, x, m.chunk)
        BY <2>3, <3>2, AlikeAtOrder
      <4>2. AlikeAt(Take(y, m), z, m.chunk)
        <5> HIDE DEF y
        <5> QED BY <2>1, <4>1, QueueableAlike
      <4>3. SameAt(z, Amend(z, b), m.chunk)
        BY <2>3, <3>2
      <4> QED BY <3>2, <4>2, <4>3, AlikeAtOrder
    <3>3. CASE d # m.chunk /\ d = b.chunk
      <4>1. AlikeAt(x, z, b.chunk)
        BY <2>4, <3>3, AlikeAtOrder
      <4>2. AlikeAt(y, Amend(z, b), b.chunk)
        <5> HIDE DEF z
        <5> QED BY <1>2, <2>1, <4>1, EditAlike
      <4>3. SameAt(y, Take(y, m), b.chunk)
        BY <2>4, <3>3
      <4> QED BY <3>3, <4>2, <4>3, AlikeAtOrder
    <3>4. CASE d = m.chunk /\ d = b.chunk
      <4>1. CASE ~Expects(x, b)
        <5>1. y = x
          BY <4>1 DEF Amend
        <5>2. Amend(z, b) = z
          <6>1. CASE m \in RemovalMsgs
            <7>1. z = Removed(x, m)
              BY <6>1, TakeRemoval
            <7> QED BY <3>4, <7>1, RemovedAt DEF Amend, Expects
          <6>2. CASE m \in SliceMsgs(g, w)
            <7>0. Covers(m.version, b.version) /\ m.version \in Versions /\ b.version \in Versions
              BY <1>2, <3>4, <6>2, SliceFacts, EditFacts DEF Exchangeable, IsEdit, IsBatch
            <7>1. Advanced(m.version) # b.version
              BY <7>0, NextVersion
            <7>2. z \in {x, Installed(x, m), Gathering(x, m)}
              BY <6>2, TakeSlice
            <7>3. CASE z = x
              BY <4>1, <7>3 DEF Amend
            <7>4. CASE z = Installed(x, m)
              BY <3>4, <7>1, <7>4, InstalledAt DEF Amend, Expects
            <7>5. CASE z = Gathering(x, m)
              <8>1. z.remote = x.remote
                BY <7>5 DEF Gathering
              <8> QED BY <4>1, <8>1 DEF Amend, Expects
            <7> QED BY <7>2, <7>3, <7>4, <7>5
          <6> QED BY <6>1, <6>2 DEF Queueable
        <5> QED BY <5>1, <5>2, AlikeAtOrder
      <4>2. CASE Expects(x, b)
        <5>0. y = Amended(x, b)
          BY <1>2, <4>2, EditFacts DEF Amend, IsEdit, IsBatch
        <5>1. CASE m \in RemovalMsgs
          <6>1. z = Removed(x, m) /\ Take(y, m) = Removed(y, m)
            BY <2>1, <5>1, TakeRemoval
          <6>2. ~Expects(z, b)
            BY <3>4, <6>1, RemovedAt DEF Expects
          <6>3. Amend(z, b) = Removed(x, m)
            BY <6>1, <6>2 DEF Amend
          <6>4. AlikeAt(Removed(y, m), Removed(x, m), m.chunk)
            BY RemovedAt DEF AlikeAt, RemoteAt, Needed
          <6> QED BY <3>4, <6>1, <6>3, <6>4
        <5>2. CASE m \in SliceMsgs(g, w)
          <6>1. Covers(m.version, b.version)
            BY <1>2, <3>4, <5>2, SliceFacts, EditFacts DEF Exchangeable, IsEdit, IsBatch
          <6>2. Amended(x, b) \in Copies(g, w) /\ Take(x, m) \in Copies(g, w)
            BY <2>1, <5>0
          <6>3. AlikeAt(Take(Amended(x, b), m), Amend(Take(x, m), b), m.chunk)
            BY <1>2, <3>4, <4>2, <5>2, <6>1, <6>2, CommuteSlice
          <6> QED BY <3>4, <5>0, <6>3
        <5> QED BY <5>1, <5>2 DEF Queueable
      <4> QED BY <4>1, <4>2
    <3> QED BY <3>1, <3>2, <3>3, <3>4
  <2> QED BY <2>2, <2>5 DEF Alike
<1> QED BY <1>1, <1>2

--------------------------------------------------------------------------------
(* What sequences of messages do to a copy *)

LEMMA TakenTrace ==
  ASSUME NEW g, NEW w, NEW r, NEW x \in Copies(g, w), NEW s \in Seq(Sendable(g, w, r))
  PROVE  \E h \in [0..Len(s) -> Copies(g, w)] : Taking(h, x, s) /\ Taken(x, s) = h[Len(s)]
<1>1. Len(s) \in Nat /\ \A i \in 1..Len(s) : s[i] \in Sendable(g, w, r)
  BY ElementOfSeq, LenProperties
<1>2. \A y \in Copies(g, w) : \A i \in 1..Len(s) : Take(y, s[i]) \in Copies(g, w)
  BY <1>1, TakeStays
<1> QED BY <1>1, <1>2, TakingSteps

LEMMA TakenStays ==
  ASSUME NEW g, NEW w, NEW r, NEW x \in Copies(g, w), NEW s \in Seq(Sendable(g, w, r))
  PROVE  Taken(x, s) \in Copies(g, w)
<1>1. PICK h \in [0..Len(s) -> Copies(g, w)] : Taking(h, x, s) /\ Taken(x, s) = h[Len(s)]
  BY TakenTrace
<1>2. Len(s) \in 0..Len(s)
  BY LenProperties
<1> QED BY <1>1, <1>2

LEMMA TakenEmpty ==
  ASSUME NEW g, NEW w, NEW r, NEW x \in Copies(g, w)
  PROVE  Taken(x, <<>>) = x
<1> DEFINE s == <<>>
<1>1. s \in Seq(Sendable(g, w, r)) /\ Len(s) = 0
  BY EmptySeq
<1> HIDE DEF s
<1>2. PICK h \in [0..Len(s) -> Copies(g, w)] : Taking(h, x, s) /\ Taken(x, s) = h[Len(s)]
  <2>1. s \in Seq(Sendable(g, w, r))
    BY <1>1
  <2> QED BY <2>1, TakenTrace
<1>3. Taken(x, s) = x
  BY <1>1, <1>2 DEF Taking
<1> QED BY <1>3 DEF s

LEMMA TakenConcat ==
  ASSUME NEW g, NEW w, NEW r, NEW x \in Copies(g, w),
         NEW s \in Seq(Sendable(g, w, r)), NEW t \in Seq(Sendable(g, w, r))
  PROVE  Taken(x, s \o t) = Taken(Taken(x, s), t)
<1> DEFINE M == Len(s)
           N == Len(t)
           st == s \o t
           y == Taken(x, s)
<1>1. M \in Nat /\ N \in Nat /\ Len(st) = M + N /\ st \in Seq(Sendable(g, w, r))
  BY ConcatProperties, LenProperties
<1>2. /\ \A i \in 1..M : st[i] = s[i]
      /\ \A i \in 1..N : st[M + i] = t[i]
  <2>1. \A i \in 1..(M + N) : st[i] = IF i <= M THEN s[i] ELSE t[i - M]
    BY ConcatProperties
  <2>2. ASSUME NEW i \in 1..N PROVE st[M + i] = t[i]
    <3>1. M + i \in 1..(M + N) /\ ~(M + i <= M) /\ (M + i) - M = i
      BY <1>1
    <3> HIDE DEF M, N, st
    <3> QED BY <2>1, <3>1
  <2>3. ASSUME NEW i \in 1..M PROVE st[i] = s[i]
    <3>1. i \in 1..(M + N) /\ i <= M
      BY <1>1
    <3> HIDE DEF M, N, st
    <3> QED BY <2>1, <3>1
  <2> QED BY <2>2, <2>3
<1>3. y \in Copies(g, w)
  BY TakenStays
<1>4. PICK a \in [0..M -> Copies(g, w)] : Taking(a, x, s) /\ y = a[M]
  BY TakenTrace
<1> HIDE DEF y
<1>5. PICK b \in [0..N -> Copies(g, w)] : Taking(b, y, t) /\ Taken(y, t) = b[N]
  BY <1>3, TakenTrace
<1> HIDE DEF st
<1>6. PICK h \in [0..Len(st) -> Copies(g, w)] : Taking(h, x, st) /\ Taken(x, st) = h[Len(st)]
  <2>1. st \in Seq(Sendable(g, w, r))
    BY <1>1
  <2> QED BY <2>1, TakenTrace
<1> HIDE DEF M, N
<1>7. \A i \in 1..(M + N) : h[i] = Take(h[i - 1], st[i])
  BY <1>1, <1>6 DEF Taking
<1>8. h[M] = a[M]
  <2>1. InStep(h, a, M)
    <3>1. h[0] = a[0]
      BY <1>4, <1>6 DEF Taking
    <3>2. ASSUME NEW i \in 1..M, h[i - 1] = a[i - 1] PROVE h[i] = a[i]
      <4>1. a[i] = Take(a[i - 1], s[i])
        BY <1>4 DEF Taking, M
      <4>2. i \in 1..(M + N)
        BY <1>1
      <4> QED BY <1>2, <1>7, <3>2, <4>1, <4>2
    <3> QED BY <3>1, <3>2 DEF InStep
  <2>2. \A n \in 0..M : h[n] = a[n]
    BY <1>1, <2>1, Agree
  <2> QED BY <1>1, <2>2
<1> DEFINE k == [i \in 0..N |-> h[M + i]]
<1>9. k[N] = b[N]
  <2>1. InStep(k, b, N)
    <3>1. k[0] = b[0]
      <4>1. b[0] = y /\ 0 \in 0..N /\ M + 0 = M
        BY <1>1, <1>5 DEF Taking
      <4> QED BY <1>4, <1>8, <4>1
    <3>2. ASSUME NEW i \in 1..N, k[i - 1] = b[i - 1] PROVE k[i] = b[i]
      <4>1. b[i] = Take(b[i - 1], t[i])
        BY <1>5 DEF Taking, N
      <4>2. M + i \in 1..(M + N) /\ (M + i) - 1 = M + (i - 1) /\ i \in 0..N /\ i - 1 \in 0..N
        BY <1>1
      <4>3. k[i] = h[M + i] /\ k[i - 1] = h[M + (i - 1)]
        BY <4>2
      <4>4. h[M + i] = Take(h[M + (i - 1)], st[M + i])
        BY <1>7, <4>2
      <4> HIDE DEF k
      <4> QED BY <1>2, <3>2, <4>1, <4>3, <4>4
    <3> HIDE DEF k
    <3> QED BY <3>1, <3>2 DEF InStep
  <2> HIDE DEF k
  <2>2. \A n \in 0..N : k[n] = b[n]
    BY <1>1, <2>1, Agree
  <2> QED BY <1>1, <2>2
<1>10. k[N] = h[M + N]
  BY <1>1
<1> QED BY <1>1, <1>5, <1>6, <1>9, <1>10 DEF st, y

LEMMA TakenOne ==
  ASSUME NEW g, NEW w, NEW r, NEW x \in Copies(g, w), NEW m \in Sendable(g, w, r)
  PROVE  Taken(x, <<m>>) = Take(x, m)
<1> DEFINE s == <<m>>
<1>1. s \in Seq(Sendable(g, w, r)) /\ Len(s) = 1 /\ s[1] = m
  OBVIOUS
<1> HIDE DEF s
<1>2. PICK h \in [0..Len(s) -> Copies(g, w)] : Taking(h, x, s) /\ Taken(x, s) = h[Len(s)]
  BY <1>1, TakenTrace
<1>3. h[1] = Take(h[0], m) /\ h[0] = x
  BY <1>1, <1>2 DEF Taking
<1>4. Taken(x, s) = Take(x, m)
  BY <1>1, <1>2, <1>3
<1> QED BY <1>4 DEF s

LEMMA TakenAppend ==
  ASSUME NEW g, NEW w, NEW r, NEW x \in Copies(g, w),
         NEW s \in Seq(Sendable(g, w, r)), NEW m \in Sendable(g, w, r)
  PROVE  Taken(x, Append(s, m)) = Take(Taken(x, s), m)
<1> DEFINE t == <<m>>
<1>1. t \in Seq(Sendable(g, w, r)) /\ Append(s, m) = s \o t
  OBVIOUS
<1>2. Taken(Taken(x, s), t) = Take(Taken(x, s), m)
  BY TakenOne, TakenStays
<1> HIDE DEF t
<1>3. Taken(x, s \o t) = Taken(Taken(x, s), t)
  BY <1>1, TakenConcat
<1> QED BY <1>1, <1>2, <1>3

LEMMA TakenAlike ==
  ASSUME NEW g, NEW w, NEW r, NEW x \in Copies(g, w), NEW y \in Copies(g, w),
         NEW s \in Seq(Sendable(g, w, r)), Alike(x, y)
  PROVE  Alike(Taken(x, s), Taken(y, s))
<1> DEFINE N == Len(s)
<1>1. N \in Nat /\ \A i \in 1..N : s[i] \in Sendable(g, w, r)
  BY ElementOfSeq, LenProperties
<1>2. PICK a \in [0..N -> Copies(g, w)] : Taking(a, x, s) /\ Taken(x, s) = a[N]
  BY TakenTrace
<1>3. PICK b \in [0..N -> Copies(g, w)] : Taking(b, y, s) /\ Taken(y, s) = b[N]
  BY TakenTrace
<1>4. a[0] = x /\ b[0] = y /\ \A i \in 1..N : a[i] = Take(a[i - 1], s[i]) /\ b[i] = Take(b[i - 1], s[i])
  BY <1>2, <1>3 DEF Taking
<1> HIDE DEF N
<1> DEFINE S == {n \in 0..N : Alike(a[n], b[n])}
<1>5. 0 \in S
  BY <1>1, <1>4
<1>6. ASSUME NEW n \in 0..(N - 1), n \in S PROVE n + 1 \in S
  <2>1. n + 1 \in 1..N /\ (n + 1) - 1 = n /\ n + 1 \in 0..N
    BY <1>1
  <2>2. a[n + 1] = Take(a[n], s[n + 1]) /\ b[n + 1] = Take(b[n], s[n + 1])
    BY <1>4, <2>1
  <2>3. a[n] \in Copies(g, w) /\ b[n] \in Copies(g, w) /\ Alike(a[n], b[n]) /\ s[n + 1] \in Sendable(g, w, r)
    BY <1>1, <1>6, <2>1
  <2>4. Alike(Take(a[n], s[n + 1]), Take(b[n], s[n + 1]))
    BY <2>3, TakeAlike
  <2> QED BY <2>1, <2>2, <2>4
<1>7. N \in S
  <2> HIDE DEF S
  <2>1. \A n \in 0..N : n \in S
    BY <1>1, <1>5, <1>6, UpTo
  <2> QED BY <1>1, <2>1
<1> QED BY <1>2, <1>3, <1>7

\* An error stays.
LEMMA TakenSticky ==
  ASSUME NEW g, NEW w, NEW r, NEW x \in Copies(g, w), NEW s \in Seq(Sendable(g, w, r)),
         x.error # "none"
  PROVE  Taken(x, s).error # "none"
<1> DEFINE N == Len(s)
<1>1. N \in Nat /\ \A i \in 1..N : s[i] \in Sendable(g, w, r)
  BY ElementOfSeq, LenProperties
<1>2. PICK a \in [0..N -> Copies(g, w)] : Taking(a, x, s) /\ Taken(x, s) = a[N]
  BY TakenTrace
<1>3. a[0] = x /\ \A i \in 1..N : a[i] = Take(a[i - 1], s[i])
  BY <1>2 DEF Taking
<1> HIDE DEF N
<1> DEFINE S == {n \in 0..N : a[n].error # "none"}
<1>4. 0 \in S
  BY <1>1, <1>3
<1>5. ASSUME NEW n \in 0..(N - 1), n \in S PROVE n + 1 \in S
  <2>1. n + 1 \in 1..N /\ (n + 1) - 1 = n /\ n + 1 \in 0..N
    BY <1>1
  <2>2. a[n + 1] = Take(a[n], s[n + 1])
    BY <1>3, <2>1
  <2>3. a[n] \in Copies(g, w) /\ a[n].error # "none" /\ s[n + 1] \in Sendable(g, w, r)
    BY <1>1, <1>5, <2>1
  <2>4. Take(a[n], s[n + 1]).error # "none"
    BY <2>3, TakeStays
  <2> QED BY <2>1, <2>2, <2>4
<1>6. N \in S
  <2> HIDE DEF S
  <2>1. \A n \in 0..N : n \in S
    BY <1>1, <1>4, <1>5, UpTo
  <2> QED BY <1>1, <2>1
<1> QED BY <1>2, <1>6

\* Record batches and deltas leave a copy alone.
LEMMA TakenNothing ==
  ASSUME NEW g, NEW w, NEW r, NEW x \in Copies(g, w), NEW s \in Seq(RecordMsgs \cup DeltaMsgs(r))
  PROVE  Taken(x, s) = x
<1> DEFINE N == Len(s)
<1>1. N \in Nat /\ \A i \in 1..N : s[i] \in RecordMsgs \cup DeltaMsgs(r)
  BY ElementOfSeq, LenProperties
<1>2. PICK a \in [0..N -> {x}] : Taking(a, x, s) /\ Taken(x, s) = a[N]
  <2>1. \A y \in {x} : \A i \in 1..Len(s) : Take(y, s[i]) \in {x}
    BY <1>1, TakeOthers
  <2> QED BY <1>1, <2>1, TakingSteps
<1> QED BY <1>1, <1>2

--------------------------------------------------------------------------------
(* A frame takes the chunk messages before the edits *)

LEMMA MessageKinds ==
  ASSUME NEW g, NEW w, NEW r, NEW m \in Sendable(g, w, r)
  PROVE  /\ IsChunkMessage(m) <=> m \in Queueable(g, w)
         /\ IsEdit(m) <=> m \in EditMsgs(g, w)
<1>1. CASE m \in Queueable(g, w)
  BY <1>1, SliceFacts, EditFacts DEF Queueable, RemovalMsgs, IsChunkMessage, IsEdit, IsBatch
<1>2. CASE m \in EditMsgs(g, w)
  BY <1>2, SliceFacts, EditFacts DEF Queueable, RemovalMsgs, IsChunkMessage, IsEdit, IsBatch
<1>3. CASE m \in RecordMsgs \cup DeltaMsgs(r)
  BY <1>3, SliceFacts, EditFacts DEF Queueable, RemovalMsgs, RecordMsgs, DeltaMsgs, IsChunkMessage, IsEdit, IsBatch
<1> QED BY <1>1, <1>2, <1>3 DEF Sendable, Reportable

LEMMA QueueTrace ==
  ASSUME NEW g, NEW w, NEW r, NEW s \in Seq(Sendable(g, w, r))
  PROVE  \E q \in [0..Len(s) -> Seq(Queueable(g, w))] :
           Queuing(q, <<>>, s) /\ ChunkMessages(s) = q[Len(s)]
<1> DEFINE none == <<>>
<1>1. Len(s) \in Nat /\ \A i \in 1..Len(s) : s[i] \in Sendable(g, w, r)
  BY ElementOfSeq, LenProperties
<1>2. \A q \in Seq(Queueable(g, w)) : \A i \in 1..Len(s) : Enqueue(q, s[i]) \in Seq(Queueable(g, w))
  <2> TAKE q \in Seq(Queueable(g, w))
  <2> TAKE i \in 1..Len(s)
  <2>1. IsChunkMessage(s[i]) => s[i] \in Queueable(g, w)
    BY <1>1, MessageKinds
  <2> QED BY <2>1, AppendProperties DEF Enqueue
<1>3. none \in Seq(Queueable(g, w)) /\ ChunkMessages(s) = Fold(Enqueue, none, s)
  BY EmptySeq DEF ChunkMessages
<1> HIDE DEF none
<1>4. \E q \in [0..Len(s) -> Seq(Queueable(g, w))] :
        Queuing(q, none, s) /\ Fold(Enqueue, none, s) = q[Len(s)]
  BY <1>1, <1>2, <1>3, QueuingSteps
<1> QED BY <1>3, <1>4 DEF none

\* An iteration that ends without an error never had one.
LEMMA NoErrors ==
  ASSUME NEW N \in Nat, NEW a, a[N].error = "none",
         \A i \in 1..N : a[i - 1].error # "none" => a[i].error # "none"
  PROVE  \A n \in 0..N : a[n].error = "none"
<1> DEFINE S == {n \in 0..N : a[N - n].error = "none"}
<1>1. 0 \in S
  OBVIOUS
<1>2. ASSUME NEW n \in 0..(N - 1), n \in S PROVE n + 1 \in S
  <2>1. N - n \in 1..N /\ (N - n) - 1 = N - (n + 1) /\ n + 1 \in 0..N
    OBVIOUS
  <2>2. a[N - n].error = "none"
    BY <1>2
  <2>3. a[N - (n + 1)].error = "none"
    BY <2>1, <2>2
  <2> QED BY <2>1, <2>3
<1>3. \A n \in 0..N : n \in S
  <2> HIDE DEF S
  <2> QED BY <1>1, <1>2, UpTo
<1>4. ASSUME NEW n \in 0..N PROVE a[n].error = "none"
  <2>1. N - n \in 0..N /\ N - (N - n) = n
    OBVIOUS
  <2>2. N - n \in S
    BY <1>3, <2>1
  <2> QED BY <2>1, <2>2
<1> QED BY <1>4

\* The first k messages of s as the publication table takes them.
Amending(u, x, s, k) == u[0] = x /\ \A i \in 1..k : u[i] = Amend(u[i - 1], s[i])

LEMMA Amends ==
  ASSUME NEW g, NEW w, NEW r, NEW x \in Copies(g, w), NEW s \in Seq(Sendable(g, w, r)),
         NEW k \in 0..Len(s)
  PROVE  \E u \in [0..k -> Copies(g, w)] : Amending(u, x, s, k)
<1> DEFINE C == Copies(g, w)
           f == [p \in C \X (1..k) |-> Amend(p[1], s[p[2]])]
<1>1. k \in Nat /\ \A i \in 1..k : s[i] \in Sendable(g, w, r)
  <2>1. Len(s) \in Nat
    BY LenProperties
  <2>2. \A i \in 1..k : i \in 1..Len(s)
    BY <2>1
  <2> QED BY <2>1, <2>2, ElementOfSeq
<1>2. \A y \in C : \A i \in 1..k : Amend(y, s[i]) \in C
  BY <1>1, AmendStays
<1> HIDE DEF C
<1>3. f \in [C \X (1..k) -> C] /\ \A y \in C : \A i \in 1..k : f[<<y, i>>] = Amend(y, s[i])
  BY <1>2
<1>4. x \in C
  BY DEF C
<1> HIDE DEF f
<1>5. PICK u \in [0..k -> C] : Iteration(u, x, f, k)
  BY <1>1, <1>3, <1>4, Iterates
<1>6. ASSUME NEW i \in 1..k PROVE u[i] = Amend(u[i - 1], s[i])
  <2>1. i - 1 \in 0..k
    BY <1>1
  <2>2. u[i - 1] \in C
    BY <2>1
  <2> QED BY <1>3, <1>5, <2>2 DEF Iteration
<1>7. Amending(u, x, s, k)
  BY <1>5, <1>6 DEF Amending, Iteration
<1> QED BY <1>7 DEF C

LEMMA PushThrough ==
  ASSUME NEW g, NEW w, NEW r, NEW x \in Copies(g, w), NEW s \in Seq(Sendable(g, w, r)),
         NEW k \in 0..Len(s), NEW m \in Queueable(g, w),
         \A i \in 1..k : Exchangeable(s[i], m),
         NEW u \in [0..k -> Copies(g, w)], Amending(u, x, s, k),
         NEW v \in [0..k -> Copies(g, w)], Amending(v, Take(x, m), s, k)
  PROVE  Alike(Take(u[k], m), v[k])
<1> DEFINE S == {n \in 0..k : Alike(Take(u[n], m), v[n])}
<1>0. k \in Nat /\ \A i \in 1..k : s[i] \in Sendable(g, w, r)
  <2>1. Len(s) \in Nat
    BY LenProperties
  <2>2. \A i \in 1..k : i \in 1..Len(s)
    BY <2>1
  <2> QED BY <2>1, <2>2, ElementOfSeq
<1>1. 0 \in S
  <2>1. Take(u[0], m) = v[0]
    BY DEF Amending
  <2> QED BY <1>0, <2>1, AlikeOrder
<1>2. ASSUME NEW n \in 0..(k - 1), n \in S PROVE n + 1 \in S
  <2> DEFINE b == s[n + 1]
             t == Take(u[n], m)
  <2>1. n + 1 \in 1..k /\ (n + 1) - 1 = n /\ n + 1 \in 0..k /\ n \in 0..k
    BY <1>0
  <2>2. u[n + 1] = Amend(u[n], b) /\ v[n + 1] = Amend(v[n], b)
    BY <2>1 DEF Amending
  <2>3. b \in Sendable(g, w, r) /\ Exchangeable(b, m) /\ u[n] \in Copies(g, w) /\ v[n] \in Copies(g, w)
        /\ m \in Sendable(g, w, r)
    BY <1>0, <2>1 DEF Sendable
  <2>4. t \in Copies(g, w) /\ Alike(t, v[n])
    BY <1>2, <2>3, TakeStays
  <2>5. Alike(Take(Amend(u[n], b), m), Amend(t, b))
    <3> HIDE DEF b
    <3> QED BY <2>3, Commute
  <2>6. Alike(Amend(t, b), Amend(v[n], b))
    <3> HIDE DEF b, t
    <3> QED BY <2>3, <2>4, AmendAlike
  <2> HIDE DEF t, b
  <2> QED BY <2>1, <2>2, <2>5, <2>6, AlikeOrder
<1>3. k \in S
  <2> HIDE DEF S
  <2>1. \A n \in 0..k : n \in S
    BY <1>0, <1>1, <1>2, UpTo
  <2> QED BY <1>0, <2>1
<1> QED BY <1>3

\* Every edit among the messages may change places with the chunk messages after it.
Orderly(s) == \A i, j \in 1..Len(s) : i < j => Exchangeable(s[i], s[j])

LEMMA PlanningTrace ==
  ASSUME NEW g, NEW w, NEW r, NEW x \in Copies(g, w), NEW s \in Seq(Sendable(g, w, r))
  PROVE  \E h \in [0..Len(s) -> Copies(g, w)] : Planning(h, x, s) /\ Planned(x, s) = h[Len(s)]
<1>1. Len(s) \in Nat /\ \A i \in 1..Len(s) : s[i] \in Sendable(g, w, r)
  BY ElementOfSeq, LenProperties
<1>2. \A y \in Copies(g, w) : \A i \in 1..Len(s) : Plan(y, s[i]) \in Copies(g, w)
  BY <1>1, PlanStays
<1> QED BY <1>1, <1>2, PlanningSteps

LEMMA ChunkMessagesStay ==
  ASSUME NEW g, NEW w, NEW r, NEW s \in Seq(Sendable(g, w, r))
  PROVE  ChunkMessages(s) \in Seq(Queueable(g, w))
<1>1. PICK q \in [0..Len(s) -> Seq(Queueable(g, w))] : ChunkMessages(s) = q[Len(s)]
  BY QueueTrace
<1>2. Len(s) \in 0..Len(s)
  BY LenProperties
<1> QED BY <1>1, <1>2

\* A plan without an error amends the copy with every edit.
LEMMA PlannedAmends ==
  ASSUME NEW g, NEW w, NEW r, NEW x \in Copies(g, w), NEW s \in Seq(Sendable(g, w, r)),
         Planned(x, s).error = "none"
  PROVE  \E u \in [0..Len(s) -> Copies(g, w)] : Amending(u, x, s, Len(s)) /\ Planned(x, s) = u[Len(s)]
<1> DEFINE N == Len(s)
<1>1. N \in Nat /\ \A i \in 1..N : s[i] \in Sendable(g, w, r)
  BY ElementOfSeq, LenProperties
<1>2. PICK p \in [0..N -> Copies(g, w)] : Planning(p, x, s) /\ Planned(x, s) = p[N]
  BY PlanningTrace
<1>3. p[0] = x /\ \A i \in 1..N : p[i] = Plan(p[i - 1], s[i])
  BY <1>2 DEF Planning
<1> HIDE DEF N
<1>4. \A n \in 0..N : p[n].error = "none"
  <2>1. ASSUME NEW i \in 1..N, p[i - 1].error # "none" PROVE p[i].error # "none"
    <3>1. i - 1 \in 0..N
      BY <1>1
    <3>2. p[i - 1] \in Copies(g, w)
      BY <3>1
    <3> QED BY <1>1, <1>3, <2>1, <3>2, PlanStays
  <2>2. p[N].error = "none"
    BY <1>2
  <2> QED BY <1>1, <2>1, <2>2, NoErrors
<1>5. ASSUME NEW i \in 1..N PROVE p[i] = Amend(p[i - 1], s[i])
  <2>1. i - 1 \in 0..N /\ i \in 0..N
    BY <1>1
  <2>2. p[i - 1] \in Copies(g, w) /\ s[i] \in Sendable(g, w, r) /\ Plan(p[i - 1], s[i]).error = "none"
        /\ p[i] = Plan(p[i - 1], s[i])
    BY <1>1, <1>3, <1>4, <2>1
  <2> QED BY <2>2, AmendStays
<1>6. Amending(p, x, s, N)
  BY <1>3, <1>5 DEF Amending
<1> QED BY <1>2, <1>6 DEF N

\* Chunk messages first, and then the edits: the same as in the order sent.
LEMMA FrameOrder ==
  ASSUME NEW g, NEW w, NEW r, NEW x \in Copies(g, w), NEW s \in Seq(Sendable(g, w, r)),
         Orderly(s), Taken(x, s).error = "none",
         Planned(Taken(x, ChunkMessages(s)), s).error = "none"
  PROVE  Alike(Taken(x, s), Planned(Taken(x, ChunkMessages(s)), s))
<1> DEFINE N == Len(s)
<1>1. N \in Nat /\ \A i \in 1..N : s[i] \in Sendable(g, w, r)
  BY ElementOfSeq, LenProperties
<1>2. PICK a \in [0..N -> Copies(g, w)] : Taking(a, x, s) /\ Taken(x, s) = a[N]
  BY TakenTrace
<1>3. a[0] = x /\ \A i \in 1..N : a[i] = Take(a[i - 1], s[i])
  BY <1>2 DEF Taking
<1>4. PICK q \in [0..N -> Seq(Queueable(g, w))] : Queuing(q, <<>>, s) /\ ChunkMessages(s) = q[N]
  BY QueueTrace
<1>5. q[0] = <<>> /\ \A i \in 1..N : q[i] = Enqueue(q[i - 1], s[i])
  BY <1>4 DEF Queuing
<1> DEFINE C(n) == Taken(x, q[n])
<1>6. \A t \in Seq(Queueable(g, w)) : t \in Seq(Sendable(g, w, r))
  <2>1. Queueable(g, w) \subseteq Sendable(g, w, r)
    BY DEF Sendable
  <2> QED BY <2>1, SeqMonotonic
<1>7. PICK p \in [0..N -> Copies(g, w)] :
        Amending(p, C(N), s, N) /\ Planned(C(N), s) = p[N]
  <2>0. N \in 0..N
    BY <1>1
  <2>1. q[N] \in Seq(Sendable(g, w, r))
    BY <1>6, <2>0
  <2>2. C(N) \in Copies(g, w)
    BY <2>1, TakenStays
  <2>3. Planned(C(N), s).error = "none"
    BY <1>4
  <2> HIDE DEF C
  <2> QED BY <2>2, <2>3, PlannedAmends
<1> HIDE DEF N
<1>8. \A n \in 0..N : C(n) \in Copies(g, w)
  <2> TAKE n \in 0..N
  <2>1. q[n] \in Seq(Sendable(g, w, r))
    BY <1>6
  <2> QED BY <2>1, TakenStays
<1>9. C(0) = x
  BY <1>5, TakenEmpty
<1>10. ASSUME NEW i \in 1..N
       PROVE  /\ s[i] \in Queueable(g, w) => C(i) = Take(C(i - 1), s[i])
              /\ s[i] \notin Queueable(g, w) => C(i) = C(i - 1)
  <2>1. i - 1 \in 0..N
    BY <1>1
  <2>2. q[i - 1] \in Seq(Sendable(g, w, r)) /\ s[i] \in Sendable(g, w, r) /\ q[i] = Enqueue(q[i - 1], s[i])
    BY <1>1, <1>5, <1>6, <2>1
  <2>3. CASE s[i] \in Queueable(g, w)
    <3>1. q[i] = Append(q[i - 1], s[i])
      BY <2>2, <2>3, MessageKinds DEF Enqueue
    <3> QED BY <2>2, <2>3, <3>1, TakenAppend
  <2>4. CASE s[i] \notin Queueable(g, w)
    <3>1. q[i] = q[i - 1]
      BY <2>2, <2>4, MessageKinds DEF Enqueue
    <3> QED BY <2>4, <3>1
  <2> QED BY <2>3, <2>4
<1>11. \A n \in 0..N : a[n].error = "none"
  <2>1. ASSUME NEW i \in 1..N, a[i - 1].error # "none" PROVE a[i].error # "none"
    <3>1. i - 1 \in 0..N
      BY <1>1
    <3>2. a[i - 1] \in Copies(g, w)
      BY <3>1
    <3>3. s[i] \in Sendable(g, w, r)
      BY <1>1
    <3>4. Take(a[i - 1], s[i]).error # "none"
      BY <2>1, <3>2, <3>3, TakeStays
    <3> QED BY <1>3, <3>4
  <2>2. a[N].error = "none"
    BY <1>2
  <2> QED BY <1>1, <2>1, <2>2, NoErrors
<1> HIDE DEF C
<1> DEFINE S == {n \in 0..N : \A u \in [0..n -> Copies(g, w)] :
                                Amending(u, C(n), s, n) => Alike(a[n], u[n])}
<1>12. 0 \in S
  <2>1. ASSUME NEW u \in [0..0 -> Copies(g, w)], Amending(u, C(0), s, 0) PROVE Alike(a[0], u[0])
    <3>1. u[0] = x
      BY <1>9, <2>1 DEF Amending
    <3> QED BY <1>3, <3>1, AlikeOrder
  <2> QED BY <1>1, <2>1
<1>13. ASSUME NEW n \in 0..(N - 1), n \in S PROVE n + 1 \in S
  <2> DEFINE k == n + 1
             m == s[k]
  <2>1. k \in 1..N /\ k - 1 = n /\ k \in 0..N /\ n \in 0..N /\ n \in Nat
    BY <1>1
  <2>2. SUFFICES ASSUME NEW v \in [0..k -> Copies(g, w)], Amending(v, C(k), s, k)
                 PROVE  Alike(a[k], v[k])
    BY <2>1
  <2>3. v[0] = C(k) /\ (\A i \in 1..n : v[i] = Amend(v[i - 1], s[i])) /\ v[k] = Amend(v[n], m)
    <3>1. \A i \in 1..k : v[i] = Amend(v[i - 1], s[i])
      BY <2>2 DEF Amending
    <3>2. k \in 1..k /\ \A i \in 1..n : i \in 1..k
      BY <2>1
    <3>3. v[k] = Amend(v[k - 1], s[k])
      BY <3>1, <3>2
    <3> QED BY <2>1, <2>2, <3>1, <3>2, <3>3 DEF Amending
  <2>4. a[n] \in Copies(g, w) /\ m \in Sendable(g, w, r) /\ C(n) \in Copies(g, w) /\ a[k] = Take(a[n], m)
        /\ a[k].error = "none"
    BY <1>1, <1>3, <1>8, <1>11, <2>1
  <2> DEFINE y == [i \in 0..n |-> v[i]]
  <2>5. y \in [0..n -> Copies(g, w)] /\ y[n] = v[n] /\ y[0] = v[0] /\ \A i \in 1..n : y[i] = v[i] /\ y[i - 1] = v[i - 1]
    BY <2>1
  <2> HIDE DEF k, m, y
  <2>6. CASE m \in Queueable(g, w)
    <3>1. C(k) = Take(C(n), m)
      BY <1>10, <2>1, <2>6 DEF m
    <3>2. v[k] = v[n]
      <4>1. v[n] \in Copies(g, w)
        BY <2>1, <2>5
      <4>2. m \notin EditMsgs(g, w)
        BY <2>6, SliceFacts, EditFacts DEF Queueable, RemovalMsgs
      <4> QED BY <2>3, <2>4, <4>1, <4>2, AmendStays
    <3>3. Amending(y, Take(C(n), m), s, n)
      BY <2>3, <2>5, <3>1 DEF Amending
    <3>4. n \in 0..Len(s)
      BY <2>1 DEF N
    <3>5. PICK u \in [0..n -> Copies(g, w)] : Amending(u, C(n), s, n)
      BY <2>4, <3>4, Amends
    <3>6. ASSUME NEW i \in 1..n PROVE Exchangeable(s[i], m)
      <4>1. i \in 1..Len(s) /\ k \in 1..Len(s) /\ i < k
        BY <1>1, <2>1 DEF N, k
      <4> QED BY <4>1 DEF Orderly, m
    <3>7. Alike(Take(u[n], m), y[n])
      BY <2>4, <2>5, <2>6, <3>3, <3>4, <3>5, <3>6, PushThrough
    <3>8. Alike(a[n], u[n]) /\ u[n] \in Copies(g, w)
      BY <1>13, <2>1, <3>5
    <3>9. Alike(Take(a[n], m), Take(u[n], m))
      BY <2>4, <3>8, TakeAlike
    <3> QED BY <2>4, <2>5, <3>2, <3>7, <3>9, AlikeOrder
  <2>7. CASE m \notin Queueable(g, w)
    <3>1. C(k) = C(n)
      BY <1>10, <2>1, <2>7 DEF m
    <3>2. Amending(y, C(n), s, n)
      BY <2>3, <2>5, <3>1 DEF Amending
    <3>3. Alike(a[n], y[n]) /\ y[n] \in Copies(g, w)
      BY <1>13, <2>1, <2>5, <3>2
    <3>4. a[k] = Plan(a[n], m)
      <4>1. CASE m \in EditMsgs(g, w)
        BY <2>4, <4>1, PlanEdits
      <4>2. CASE m \in RecordMsgs \cup DeltaMsgs(r)
        <5>1. Take(a[n], m) = a[n] /\ Plan(a[n], m) = a[n]
          BY <4>2, TakeOthers
        <5> QED BY <2>4, <5>1
      <4> QED BY <2>4, <2>7, <4>1, <4>2 DEF Sendable, Reportable
    <3>5. a[k] = Amend(a[n], m)
      BY <2>4, <3>4, AmendStays
    <3>6. Alike(Amend(a[n], m), Amend(y[n], m))
      BY <2>4, <3>3, AmendAlike
    <3> QED BY <2>3, <2>5, <3>5, <3>6
  <2> QED BY <2>6, <2>7
<1>14. N \in S
  <2> HIDE DEF S
  <2>1. \A n \in 0..N : n \in S
    BY <1>1, <1>12, <1>13, UpTo
  <2> QED BY <1>1, <2>1
<1>15. Alike(a[N], p[N])
  BY <1>7, <1>14
<1> QED BY <1>2, <1>4, <1>7, <1>15 DEF C

\* Without edits the order does not matter.
LEMMA FrameWithoutEdits ==
  ASSUME NEW g, NEW w, NEW r, NEW x \in Copies(g, w), NEW y \in Copies(g, w),
         NEW s \in Seq(Sendable(g, w, r)), \A i \in 1..Len(s) : ~IsEdit(s[i])
  PROVE  Taken(x, s) = Taken(x, ChunkMessages(s)) /\ Planned(y, s) = y
<1> DEFINE N == Len(s)
<1>1. N \in Nat /\ \A i \in 1..N : s[i] \in Sendable(g, w, r) /\ s[i] \notin EditMsgs(g, w)
  BY ElementOfSeq, LenProperties, MessageKinds
<1>2. ASSUME NEW i \in 1..N PROVE s[i] \in Queueable(g, w) \/ s[i] \in RecordMsgs \cup DeltaMsgs(r)
  BY <1>1 DEF Sendable, Reportable
<1>3. Planned(y, s) = y
  <2>1. ASSUME NEW i \in 1..N PROVE Plan(y, s[i]) = y
    <3>1. CASE s[i] \in Queueable(g, w)
      BY <3>1, PlanOthers
    <3>2. CASE s[i] \in RecordMsgs \cup DeltaMsgs(r)
      BY <3>2, TakeOthers
    <3> QED BY <1>2, <3>1, <3>2
  <2>2. \A z \in {y} : \A i \in 1..Len(s) : Plan(z, s[i]) \in {y}
    BY <2>1
  <2>3. y \in {y} /\ Len(s) \in Nat
    BY <1>1
  <2>4. PICK p \in [0..N -> {y}] : Planned(y, s) = p[N]
    BY <2>2, <2>3, PlanningSteps
  <2> QED BY <1>1, <2>4
<1>4. PICK a \in [0..N -> Copies(g, w)] : Taking(a, x, s) /\ Taken(x, s) = a[N]
  BY TakenTrace
<1>5. a[0] = x /\ \A i \in 1..N : a[i] = Take(a[i - 1], s[i])
  BY <1>4 DEF Taking
<1>6. PICK q \in [0..N -> Seq(Queueable(g, w))] : Queuing(q, <<>>, s) /\ ChunkMessages(s) = q[N]
  BY QueueTrace
<1>7. q[0] = <<>> /\ \A i \in 1..N : q[i] = Enqueue(q[i - 1], s[i])
  BY <1>6 DEF Queuing
<1>8. \A t \in Seq(Queueable(g, w)) : t \in Seq(Sendable(g, w, r))
  <2>1. Queueable(g, w) \subseteq Sendable(g, w, r)
    BY DEF Sendable
  <2> QED BY <2>1, SeqMonotonic
<1> HIDE DEF N
<1> DEFINE S == {n \in 0..N : a[n] = Taken(x, q[n])}
<1>9. 0 \in S
  BY <1>1, <1>5, <1>7, TakenEmpty
<1>10. ASSUME NEW n \in 0..(N - 1), n \in S PROVE n + 1 \in S
  <2>1. n + 1 \in 1..N /\ (n + 1) - 1 = n /\ n + 1 \in 0..N /\ n \in 0..N
    BY <1>1
  <2>2. a[n + 1] = Take(a[n], s[n + 1]) /\ q[n + 1] = Enqueue(q[n], s[n + 1]) /\ a[n] = Taken(x, q[n])
    BY <1>5, <1>7, <1>10, <2>1
  <2>3. q[n] \in Seq(Sendable(g, w, r)) /\ s[n + 1] \in Sendable(g, w, r)
    BY <1>1, <1>8, <2>1
  <2>4. CASE s[n + 1] \in Queueable(g, w)
    <3>1. q[n + 1] = Append(q[n], s[n + 1])
      BY <2>2, <2>3, <2>4, MessageKinds DEF Enqueue
    <3>2. Taken(x, Append(q[n], s[n + 1])) = Take(Taken(x, q[n]), s[n + 1])
      BY <2>3, TakenAppend
    <3> QED BY <2>1, <2>2, <3>1, <3>2
  <2>5. CASE s[n + 1] \notin Queueable(g, w)
    <3>1. q[n + 1] = q[n]
      BY <2>2, <2>3, <2>5, MessageKinds DEF Enqueue
    <3>2. s[n + 1] \in RecordMsgs \cup DeltaMsgs(r)
      BY <1>2, <2>1, <2>5
    <3>3. Take(a[n], s[n + 1]) = a[n]
      BY <3>2, TakeOthers
    <3> QED BY <2>1, <2>2, <3>1, <3>3
  <2> QED BY <2>4, <2>5
<1>11. N \in S
  <2> HIDE DEF S
  <2>1. \A n \in 0..N : n \in S
    BY <1>1, <1>9, <1>10, UpTo
  <2> QED BY <1>1, <2>1
<1> QED BY <1>3, <1>4, <1>6, <1>11

LEMMA QueueableSeq ==
  ASSUME NEW g, NEW w, NEW r, NEW s \in Seq(Queueable(g, w))
  PROVE  s \in Seq(Sendable(g, w, r))
<1>1. Queueable(g, w) \subseteq Sendable(g, w, r)
  BY DEF Sendable
<1> QED BY <1>1, SeqMonotonic

\* A frame over the copy x takes the first part of what is queued and plans what
\* arrived; all that is then on its way gives the same as before.
LEMMA FrameExpected ==
  ASSUME NEW g, NEW w, NEW r, NEW x \in Copies(g, w), NEW q \in Seq(Queueable(g, w)),
         NEW s \in Seq(Sendable(g, w, r)), NEW rest \in Seq(Sendable(g, w, r)),
         NEW pre \in Seq(Queueable(g, w)), NEW post \in Seq(Queueable(g, w)),
         pre \o post = q \o ChunkMessages(s), Orderly(s),
         post # <<>> => \A i \in 1..Len(s) : ~IsEdit(s[i]),
         NEW y \in Copies(g, w), Alike(y, Planned(Taken(x, pre), s)),
         Planned(Taken(x, pre), s).error = "none",
         Taken(x, (q \o s) \o rest).error = "none"
  PROVE  Alike(Taken(y, post \o rest), Taken(x, (q \o s) \o rest))
<1> DEFINE M == Sendable(g, w, r)
           D == Taken(x, q)
           A == Taken(D, s)
           copy == Taken(x, pre)
<1>1. q \in Seq(M) /\ pre \in Seq(M) /\ post \in Seq(M) /\ ChunkMessages(s) \in Seq(M)
  BY ChunkMessagesStay, QueueableSeq
<1>2. D \in Copies(g, w) /\ copy \in Copies(g, w)
  BY <1>1, TakenStays
<1>3. A \in Copies(g, w)
  <2> HIDE DEF D
  <2> QED BY <1>2, TakenStays
<1>4. Taken(x, (q \o s) \o rest) = Taken(A, rest)
  <2>1. q \o s \in Seq(M)
    BY <1>1, ConcatProperties
  <2>2. Taken(x, (q \o s) \o rest) = Taken(Taken(x, q \o s), rest)
    <3> DEFINE qs == q \o s
    <3>1. qs \in Seq(Sendable(g, w, r))
      BY <2>1
    <3> HIDE DEF qs
    <3>2. Taken(x, qs \o rest) = Taken(Taken(x, qs), rest)
      BY <3>1, TakenConcat
    <3> QED BY <3>2 DEF qs
  <2>3. Taken(x, q \o s) = A
    BY <1>1, TakenConcat
  <2> QED BY <2>2, <2>3
<1>5. Taken(y, post \o rest) = Taken(Taken(y, post), rest)
  BY <1>1, TakenConcat
<1>6. Taken(copy, post) = Taken(D, ChunkMessages(s))
  <2>1. Taken(x, pre \o post) = Taken(Taken(x, pre), post)
    <3>1. pre \in Seq(Sendable(g, w, r)) /\ post \in Seq(Sendable(g, w, r))
      BY <1>1
    <3> QED BY ONLY <3>1, x \in Copies(g, w), TakenConcat
  <2>2. Taken(x, q \o ChunkMessages(s)) = Taken(D, ChunkMessages(s))
    BY <1>1, TakenConcat
  <2> QED BY <2>1, <2>2
<1>7. A.error = "none"
  <2> HIDE DEF A
  <2> QED BY <1>3, <1>4, TakenSticky
<1>8. Alike(Taken(y, post), A)
  <2>1. CASE post = <<>>
    <3>1. copy = Taken(D, ChunkMessages(s))
      BY <1>2, <1>6, <2>1, TakenEmpty
    <3>2. Taken(y, post) = y
      BY <2>1, TakenEmpty
    <3>3. Planned(Taken(D, ChunkMessages(s)), s).error = "none"
      BY <3>1
    <3>4. Alike(A, Planned(Taken(D, ChunkMessages(s)), s))
      <4> HIDE DEF D
      <4> QED BY <1>2, <1>7, <3>3, FrameOrder
    <3>5. Alike(y, Planned(Taken(D, ChunkMessages(s)), s))
      BY <3>1
    <3> HIDE DEF A, D, copy
    <3> QED BY <3>2, <3>4, <3>5, AlikeOrder
  <2>2. CASE post # <<>>
    <3>1. Planned(copy, s) = copy /\ A = Taken(D, ChunkMessages(s))
      <4> HIDE DEF D, copy
      <4> QED BY <1>2, <2>2, FrameWithoutEdits
    <3>2. Alike(y, copy)
      BY <3>1
    <3>3. Alike(Taken(y, post), Taken(copy, post))
      <4> HIDE DEF copy
      <4> QED BY <1>1, <1>2, <3>2, TakenAlike
    <3> QED BY <1>6, <3>1, <3>3
  <2> QED BY <2>1, <2>2
<1>9. Taken(y, post) \in Copies(g, w)
  BY <1>1, TakenStays
<1>10. Alike(Taken(Taken(y, post), rest), Taken(A, rest))
  <2> HIDE DEF A
  <2> QED BY <1>3, <1>8, <1>9, TakenAlike
<1> QED BY <1>4, <1>5, <1>10

LEMMA StillNeededFacts ==
  ASSUME NEW g, NEW w, NEW x \in Copies(g, w), NEW e \in {"none", "base_missing", "base_gap"}
  PROVE  /\ StillNeeded(x.assembly, x.remote) \in Parts(g, w)
         /\ x.error = e => Alike([remote |-> x.remote, assembly |-> StillNeeded(x.assembly, x.remote),
                                  error |-> e], x)
<1> DEFINE D == {c \in DOMAIN x.assembly : c \in DOMAIN x.remote =>
                                              ~Covers(x.remote[c], x.assembly[c].version)}
           a == StillNeeded(x.assembly, x.remote)
           y == [remote |-> x.remote, assembly |-> a, error |-> e]
<1>1. a = Restrict(x.assembly, D)
  BY DEF StillNeeded
<1>2. a \in Parts(g, w)
  BY <1>1, CopyFacts, RestrictPart
<1>3. \A c : c \in D <=> Needed(x, c)
  BY DEF Needed
<1> HIDE DEF D
<1>4. DOMAIN a = D /\ \A c \in D : a[c] = x.assembly[c]
  BY <1>1 DEF Restrict
<1> HIDE DEF a
<1>5. y.remote = x.remote /\ y.assembly = a /\ y.error = e
  OBVIOUS
<1> HIDE DEF y
<1>6. ASSUME NEW c PROVE AlikeAt(y, x, c)
  <2>1. RemoteAt(y, x, c)
    BY <1>5 DEF RemoteAt
  <2>2. Needed(y, c) <=> Needed(x, c)
    BY <1>3, <1>4, <1>5 DEF Needed
  <2>3. Needed(x, c) => y.assembly[c] = x.assembly[c]
    BY <1>3, <1>4, <1>5
  <2> QED BY <2>1, <2>2, <2>3 DEF AlikeAt
<1> QED BY <1>2, <1>5, <1>6 DEF Alike, y, a

--------------------------------------------------------------------------------
(* What the server queues *)

LEMMA SetToSeqFacts ==
  ASSUME NEW S, IsFiniteSet(S)
  PROVE  /\ Cardinality(S) \in Nat /\ SetToSeq(S) \in [1..Cardinality(S) -> S]
         /\ \A e \in S : \E i \in 1..Cardinality(S) : SetToSeq(S)[i] = e
<1> DEFINE D == 1..Cardinality(S)
           f == SetToSeq(S)
<1>1. Cardinality(S) \in Nat /\ ExistsBijection(D, S)
  BY FS_CardinalityType
<1>2. \E h \in [D -> S] : IsInjective(h)
  BY <1>1 DEF ExistsBijection, Bijection, Injection
<1>3. f \in [D -> S] /\ IsInjective(f)
  BY <1>2 DEF SetToSeq
<1>4. f \in Injection(D, S)
  BY <1>3 DEF Injection
<1>5. Cardinality(D) = Cardinality(S)
  BY <1>1, FS_Interval
<1>6. f \in Surjection(D, S)
  <2> HIDE DEF f
  <2>1. Cardinality(D) = Cardinality(S) <=> f \in Surjection(D, S)
    BY <1>4, FS_Injection
  <2> QED BY <1>5, <2>1
<1>7. \A e \in S : \E i \in D : f[i] = e
  BY <1>6 DEF Surjection
<1> QED BY <1>1, <1>3, <1>7

LEMMA MessagesFacts ==
  ASSUME NEW S, S \subseteq Chunks
  PROVE  /\ Messages(S) \in Seq(RemovalMsgs) /\ Len(Messages(S)) = Cardinality(S)
         /\ \A i \in 1..Cardinality(S) : Messages(S)[i] = Removal(SetToSeq(S)[i])
         /\ Cardinality(S) \in Nat
<1> DEFINE n == Cardinality(S)
           s == SetToSeq(S)
           q == [i \in 1..n |-> Removal(s[i])]
<1>1. IsFiniteSet(S)
  BY ChunksAssumption, FS_Subset
<1>2. n \in Nat /\ s \in [1..n -> S]
  BY <1>1, SetToSeqFacts
<1>3. Messages(S) = q
  BY <1>2 DEF Messages
<1> HIDE DEF n, s
<1>4. \A i \in 1..n : q[i] = Removal(s[i]) /\ q[i] \in RemovalMsgs
  BY <1>2 DEF Removal, RemovalMsgs
<1>5. q \in [1..n -> RemovalMsgs]
  BY <1>4
<1> HIDE DEF q
<1>6. q \in Seq(RemovalMsgs) /\ Len(q) = n
  BY <1>2, <1>5
<1> QED BY <1>2, <1>3, <1>4, <1>6 DEF n, s

\* The removals of S take S out of the copy.
LEMMA TakenRemovals ==
  ASSUME NEW g, NEW w, NEW x \in Copies(g, w), NEW S, S \subseteq Chunks
  PROVE  /\ Taken(x, Messages(S)).error = x.error
         /\ Taken(x, Messages(S)).remote = Restrict(x.remote, DOMAIN x.remote \ S)
<1> DEFINE N == Cardinality(S)
           s == Messages(S)
           t == SetToSeq(S)
           Gone(n) == {t[i] : i \in 1..n}
<1>1. N \in Nat /\ s \in Seq(RemovalMsgs) /\ Len(s) = N /\ \A i \in 1..N : s[i] = Removal(t[i])
  BY MessagesFacts
<1>2. t \in [1..N -> S] /\ \A e \in S : \E i \in 1..N : t[i] = e
  <2>1. IsFiniteSet(S)
    BY ChunksAssumption, FS_Subset
  <2> QED BY <2>1, SetToSeqFacts
<1>3. \A i \in 1..N : s[i] \in RemovalMsgs /\ s[i] \in Queueable(g, w) /\ s[i] \in Sendable(g, w, 0)
                      /\ s[i].chunk = t[i]
  <2>1. \A i \in 1..N : s[i] \in RemovalMsgs
    BY <1>1, ElementOfSeq
  <2> QED BY <1>1, <2>1 DEF Queueable, Sendable, Removal
<1>4. \E h \in [0..Len(s) -> Copies(g, w)] : Taking(h, x, s) /\ Taken(x, s) = h[Len(s)]
  <2> HIDE DEF s, N
  <2>1. \A y \in Copies(g, w) : \A i \in 1..Len(s) : Take(y, s[i]) \in Copies(g, w)
    BY <1>1, <1>3, TakeStays
  <2>2. Len(s) \in Nat
    BY <1>1
  <2> QED BY <2>1, <2>2, TakingSteps
<1> HIDE DEF s, N, t
<1>5. PICK a \in [0..N -> Copies(g, w)] : Taking(a, x, s) /\ Taken(x, s) = a[N]
  BY <1>1, <1>4
<1>6. a[0] = x /\ \A i \in 1..N : a[i] = Take(a[i - 1], s[i])
  BY <1>1, <1>5 DEF Taking
<1> DEFINE P == {n \in 0..N : /\ a[n].error = x.error
                              /\ DOMAIN a[n].remote = DOMAIN x.remote \ Gone(n)
                              /\ \A c \in DOMAIN a[n].remote : a[n].remote[c] = x.remote[c]}
<1>7. 0 \in P
  BY <1>1, <1>6
<1>8. ASSUME NEW n \in 0..(N - 1), n \in P PROVE n + 1 \in P
  <2>1. n + 1 \in 1..N /\ (n + 1) - 1 = n /\ n + 1 \in 0..N /\ n \in 0..N
    BY <1>1
  <2>2. a[n + 1] = Take(a[n], s[n + 1]) /\ a[n] \in Copies(g, w)
    BY <1>6, <2>1
  <2>3. a[n + 1] = Removed(a[n], s[n + 1]) /\ s[n + 1].chunk = t[n + 1]
    BY <1>3, <2>1, <2>2, TakeRemoval
  <2>4. Gone(n + 1) = Gone(n) \cup {t[n + 1]}
    <3>1. 1..(n + 1) = (1..n) \cup {n + 1}
      BY <1>1
    <3> QED BY <3>1
  <2>5. /\ a[n].error = x.error
        /\ DOMAIN a[n].remote = DOMAIN x.remote \ Gone(n)
        /\ \A c \in DOMAIN a[n].remote : a[n].remote[c] = x.remote[c]
    BY <1>8
  <2> HIDE DEF Gone
  <2>6. /\ a[n + 1].error = x.error
        /\ a[n + 1].remote = Without(a[n].remote, t[n + 1])
    BY <2>3, <2>5 DEF Removed
  <2>7. DOMAIN a[n + 1].remote = DOMAIN x.remote \ Gone(n + 1)
    BY <2>4, <2>5, <2>6 DEF Without, Restrict
  <2>8. \A c \in DOMAIN a[n + 1].remote : a[n + 1].remote[c] = x.remote[c]
    BY <2>5, <2>6 DEF Without, Restrict
  <2> QED BY <2>1, <2>6, <2>7, <2>8
<1>9. N \in P
  <2> HIDE DEF P
  <2>1. \A n \in 0..N : n \in P
    BY <1>1, <1>7, <1>8, UpTo
  <2> QED BY <1>1, <2>1
<1>10. Gone(N) = S
  BY <1>2
<1>11. a[N] \in Copies(g, w) /\ a[N].error = x.error /\ DOMAIN a[N].remote = DOMAIN x.remote \ S
       /\ \A c \in DOMAIN a[N].remote : a[N].remote[c] = x.remote[c]
  BY <1>1, <1>9, <1>10
<1>12. a[N].remote = Restrict(x.remote, DOMAIN x.remote \ S)
  <2>1. a[N].remote \in TablesOf(Versions)
    BY <1>11, CopyFacts
  <2>2. a[N].remote \in [DOMAIN a[N].remote -> Versions]
    BY <2>1, TableFacts
  <2> QED BY <1>11, <2>2 DEF Restrict
<1> QED BY <1>5, <1>11, <1>12 DEF s

\* What is not ahead of the chunk and covers it is its version.
LEMMA Newest ==
  ASSUME NEW g, NEW w, NEW c \in DOMAIN w, w[c] \in Versions, w[c].gen = g[c],
         NEW v \in Versions, Recent(g, w, c, v), Covers(v, w[c])
  PROVE  v = w[c]
<1>1. v.gen = w[c].gen /\ v.rev = w[c].rev
  BY DEF Recent, Covers, Versions
<1>2. v = [gen |-> v.gen, rev |-> v.rev] /\ w[c] = [gen |-> w[c].gen, rev |-> w[c].rev]
  BY DEF Versions
<1> QED BY <1>1, <1>2

--------------------------------------------------------------------------------
(* Snapshots *)

\* The chunks of the world have the versions of their last load.
Grounded(g, w) == w \in TablesOf(Versions) /\ \A c \in DOMAIN w : w[c].gen = g[c]

LEMMA GroundedFacts ==
  ASSUME NEW g, NEW w, Grounded(g, w), NEW c \in DOMAIN w
  PROVE  c \in Chunks /\ w[c] \in Versions /\ w[c].gen = g[c] /\ Recent(g, w, c, w[c])
<1>1. c \in Chunks /\ w[c] \in Versions /\ w[c].gen = g[c]
  BY TableFacts DEF Grounded
<1> QED BY <1>1 DEF Recent, Versions

LEMMA SnapshotFacts ==
  ASSUME Grounded(generation, world), NEW c \in DOMAIN world
  PROVE  /\ Slices \in Nat \ {0}
         /\ Snapshot(c) \in Seq(SliceMsgs(generation, world)) /\ Len(Snapshot(c)) = Slices
         /\ \A y \in 1..Slices : Snapshot(c)[y] = Slice(c, world[c], y)
<1> DEFINE v == world[c]
           q == [y \in 1..Slices |-> Slice(c, v, y)]
<1>1. Slices \in Nat \ {0}
  BY PolicyValid
<1>2. Snapshot(c) = q
  BY DEF Snapshot
<1>3. c \in Chunks /\ v \in Versions /\ Recent(generation, world, c, v)
  BY GroundedFacts
<1> HIDE DEF v
<1>4. \A y \in 1..Slices : q[y] = Slice(c, v, y) /\ q[y] \in SliceMsgs(generation, world)
  BY <1>3 DEF Slice, SliceMsgs
<1>5. q \in [1..Slices -> SliceMsgs(generation, world)]
  BY <1>4
<1> HIDE DEF q
<1>6. q \in Seq(SliceMsgs(generation, world)) /\ Len(q) = Slices
  BY <1>1, <1>5
<1> QED BY <1>1, <1>2, <1>4, <1>6 DEF v

\* One more slice of the version the chunk has: installed by now, or one more of the
\* slices received.
LEMMA SliceGathers ==
  ASSUME NEW g, NEW w, Grounded(g, w), NEW c \in DOMAIN w, NEW y \in 1..Slices,
         NEW a \in Copies(g, w), NEW b, b = Take(a, Slice(c, w[c], y))
  PROVE  /\ b.error = a.error /\ \A d : d # c => SameAt(a, b, d)
         /\ \/ c \in DOMAIN b.remote /\ b.remote[c] = w[c]
            \/ /\ RemoteAt(a, b, c) /\ c \in DOMAIN b.assembly
               /\ b.assembly[c].version = w[c] /\ y \in b.assembly[c].got
               /\ c \in DOMAIN a.assembly /\ a.assembly[c].version = w[c] =>
                    a.assembly[c].got \subseteq b.assembly[c].got
<1> DEFINE m == Slice(c, w[c], y)
<1>1. c \in Chunks /\ w[c] \in Versions /\ w[c].gen = g[c] /\ Recent(g, w, c, w[c])
  BY GroundedFacts
<1>2. m \in SliceMsgs(g, w) /\ m.chunk = c /\ m.version = w[c] /\ m.y = y
  BY <1>1 DEF SliceMsgs, Slice
<1>3. m \in Queueable(g, w) /\ m \in Sendable(g, w, 0) /\ b = Take(a, m)
  BY <1>2 DEF Queueable, Sendable
<1> HIDE DEF m
<1>4. b.error = a.error /\ \A d : d # c => SameAt(a, b, d)
  BY <1>2, <1>3, TakeStays, Elsewhere
<1>5. CASE Known(a, m)
  <2>1. b = a /\ c \in DOMAIN a.remote /\ Covers(a.remote[c], w[c])
    BY <1>2, <1>3, <1>5, TakeSlice DEF Known
  <2>2. a.remote[c] \in Versions /\ Recent(g, w, c, a.remote[c])
    BY <2>1, VersionFacts
  <2>3. a.remote[c] = w[c]
    BY <1>1, <2>1, <2>2, Newest
  <2> QED BY <1>4, <2>1, <2>3
<1>6. ~Newer(a, m)
  <2> SUFFICES ASSUME Newer(a, m) PROVE FALSE
    OBVIOUS
  <2>1. c \in DOMAIN a.assembly /\ a.assembly[c].version # w[c] /\ Covers(a.assembly[c].version, w[c])
    BY <1>2 DEF Newer
  <2>2. a.assembly[c].version \in Versions /\ Recent(g, w, c, a.assembly[c].version)
    BY <2>1, VersionFacts
  <2> QED BY <1>1, <2>1, <2>2, Newest
<1>7. CASE ~Known(a, m) /\ Got(a, m) = 1..Slices
  <2>1. b = Installed(a, m)
    BY <1>2, <1>3, <1>6, <1>7, TakeSlice
  <2> QED BY <1>2, <1>4, <2>1, InstalledAt
<1>8. CASE ~Known(a, m) /\ Got(a, m) # 1..Slices
  <2>1. b = Gathering(a, m)
    BY <1>2, <1>3, <1>6, <1>8, TakeSlice
  <2>2. /\ RemoteAt(a, b, c) /\ c \in DOMAIN b.assembly
        /\ b.assembly[c] = [version |-> w[c], got |-> Got(a, m)]
    BY <1>2, <2>1, GatheringAt
  <2>3. y \in Got(a, m)
    BY <1>2 DEF Got
  <2>4. c \in DOMAIN a.assembly /\ a.assembly[c].version = w[c] => a.assembly[c].got \subseteq Got(a, m)
    BY <1>2 DEF Got, Same
  <2> QED BY <1>4, <2>2, <2>3, <2>4
<1> QED BY <1>5, <1>7, <1>8
\* All slices of a snapshot leave the chunk installed and every other as it was.
LEMMA SnapshotInstalls ==
  ASSUME Grounded(generation, world), NEW c \in DOMAIN world,
         NEW x \in Copies(generation, world)
  PROVE  /\ Taken(x, Snapshot(c)).error = x.error
         /\ Taken(x, Snapshot(c)).remote = Put(x.remote, c, world[c])
<1> DEFINE g == generation
           w == world
           s == Snapshot(c)
           N == Slices
<1>1. N \in Nat \ {0} /\ s \in Seq(SliceMsgs(g, w)) /\ Len(s) = N
      /\ \A y \in 1..N : s[y] = Slice(c, w[c], y)
  BY SnapshotFacts
<1>2. Grounded(g, w) /\ c \in DOMAIN w /\ x \in Copies(g, w)
  OBVIOUS
<1> HIDE DEF g, w, s
<1>3. \A i \in 1..N : s[i] \in SliceMsgs(g, w) /\ s[i] \in Sendable(g, w, 0)
  <2>1. \A i \in 1..N : s[i] \in SliceMsgs(g, w)
    BY <1>1, ElementOfSeq
  <2> QED BY <2>1 DEF Queueable, Sendable
<1>4. \E h \in [0..Len(s) -> Copies(g, w)] : Taking(h, x, s) /\ Taken(x, s) = h[Len(s)]
  <2>1. \A y \in Copies(g, w) : \A i \in 1..Len(s) : Take(y, s[i]) \in Copies(g, w)
    BY <1>1, <1>3, TakeStays
  <2>2. Len(s) \in Nat
    BY <1>1
  <2> QED BY <1>2, <2>1, <2>2, TakingSteps
<1>5. PICK a \in [0..N -> Copies(g, w)] : Taking(a, x, s) /\ Taken(x, s) = a[N]
  BY <1>1, <1>4
<1>6. a[0] = x /\ \A i \in 1..N : a[i] = Take(a[i - 1], Slice(c, w[c], i))
  BY <1>1, <1>5 DEF Taking
<1> DEFINE Done(n) == c \in DOMAIN a[n].remote /\ a[n].remote[c] = w[c]
           Partly(n) == /\ RemoteAt(x, a[n], c)
                        /\ n > 0 => /\ c \in DOMAIN a[n].assembly
                                    /\ a[n].assembly[c].version = w[c]
                                    /\ 1..n \subseteq a[n].assembly[c].got
           P == {n \in 0..N : /\ a[n].error = x.error
                              /\ \A d : d # c => SameAt(x, a[n], d)
                              /\ Done(n) \/ Partly(n)}
<1>7. 0 \in P
  <2>1. RemoteAt(x, a[0], c) /\ \A d : SameAt(x, a[0], d)
    BY <1>6, AlikeAtOrder DEF SameAt
  <2> QED BY <1>1, <1>6, <2>1
<1>8. ASSUME NEW n \in 0..(N - 1), n \in P PROVE n + 1 \in P
  <2>1. n + 1 \in 1..N /\ (n + 1) - 1 = n /\ n + 1 \in 0..N /\ n \in 0..N /\ n + 1 > 0 /\ n \in Nat
    BY <1>1
  <2>2. a[n + 1] = Take(a[n], Slice(c, w[c], n + 1)) /\ a[n] \in Copies(g, w)
    BY <1>6, <2>1
  <2>3. a[n].error = x.error /\ \A d : d # c => SameAt(x, a[n], d)
    BY <1>8
  <2>4. Done(n) \/ Partly(n)
    BY <1>8
  <2> DEFINE b == a[n + 1]
             m == n + 1
  <2>5. m \in 1..Slices /\ b = Take(a[n], Slice(c, w[c], m))
    BY <2>1, <2>2
  <2> HIDE DEF b, m
  <2>6. /\ b.error = a[n].error /\ \A d : d # c => SameAt(a[n], b, d)
        /\ \/ c \in DOMAIN b.remote /\ b.remote[c] = w[c]
           \/ /\ RemoteAt(a[n], b, c) /\ c \in DOMAIN b.assembly
              /\ b.assembly[c].version = w[c] /\ m \in b.assembly[c].got
              /\ c \in DOMAIN a[n].assembly /\ a[n].assembly[c].version = w[c] =>
                   a[n].assembly[c].got \subseteq b.assembly[c].got
    BY <1>2, <2>2, <2>5, SliceGathers
  <2>7. b.error = x.error /\ \A d : d # c => SameAt(x, b, d)
    BY <2>3, <2>6, AlikeAtOrder
  <2>8. (c \in DOMAIN b.remote /\ b.remote[c] = w[c])
        \/ (/\ RemoteAt(x, b, c) /\ c \in DOMAIN b.assembly
            /\ b.assembly[c].version = w[c] /\ 1..m \subseteq b.assembly[c].got)
    <3>1. CASE c \in DOMAIN b.remote /\ b.remote[c] = w[c]
      BY <3>1
    <3>2. CASE /\ RemoteAt(a[n], b, c) /\ c \in DOMAIN b.assembly
               /\ b.assembly[c].version = w[c] /\ m \in b.assembly[c].got
               /\ c \in DOMAIN a[n].assembly /\ a[n].assembly[c].version = w[c] =>
                    a[n].assembly[c].got \subseteq b.assembly[c].got
      <4>1. CASE Done(n)
        BY <3>2, <4>1 DEF RemoteAt
      <4>2. CASE Partly(n)
        <5>1. RemoteAt(x, b, c)
          BY <3>2, <4>2 DEF RemoteAt
        <5>2. 1..m \subseteq b.assembly[c].got
          <6>1. CASE n = 0
            BY <3>2, <6>1 DEF m
          <6>2. CASE n # 0
            <7>1. n > 0
              BY <2>1, <6>2
            <7>2. 1..n \subseteq b.assembly[c].got
              BY <3>2, <4>2, <7>1
            <7>3. 1..m = (1..n) \cup {m}
              BY <2>1 DEF m
            <7> QED BY <3>2, <7>2, <7>3
          <6> QED BY <6>1, <6>2
        <5> QED BY <3>2, <5>1, <5>2
      <4> QED BY <2>4, <4>1, <4>2
    <3> QED BY <2>6, <3>1, <3>2
  <2> QED BY <2>1, <2>7, <2>8 DEF b, m
<1>9. N \in P
  <2> HIDE DEF P
  <2>1. \A n \in 0..N : n \in P
    BY <1>1, <1>7, <1>8, UpTo
  <2> QED BY <1>1, <2>1
<1>10. a[N] \in Copies(g, w) /\ a[N].error = x.error /\ \A d : d # c => SameAt(x, a[N], d)
  BY <1>1, <1>9
<1>11. Done(N)
  <2> SUFFICES ASSUME ~Done(N) PROVE FALSE
    OBVIOUS
  <2>1. c \in DOMAIN a[N].assembly /\ 1..N \subseteq a[N].assembly[c].got
    BY <1>1, <1>9
  <2>2. a[N].assembly[c].got \subseteq 1..Slices /\ a[N].assembly[c].got # 1..Slices
    BY <1>10, <2>1, VersionFacts
  <2> QED BY <2>1, <2>2
<1>12. a[N].remote = Put(x.remote, c, w[c])
  <2>1. a[N].remote \in TablesOf(Versions) /\ x.remote \in TablesOf(Versions)
    BY <1>2, <1>10, CopyFacts
  <2>2. a[N].remote \in [DOMAIN a[N].remote -> Versions]
    BY <2>1, TableFacts
  <2>3. DOMAIN a[N].remote = DOMAIN x.remote \cup {c}
    BY <1>10, <1>11 DEF SameAt, RemoteAt
  <2>4. \A d \in DOMAIN a[N].remote : a[N].remote[d] = IF d = c THEN w[c] ELSE x.remote[d]
    BY <1>10, <1>11 DEF SameAt, RemoteAt
  <2> QED BY <2>2, <2>3, <2>4 DEF Put
<1> QED BY <1>5, <1>10, <1>12 DEF s, w
\* Slices of the chunks as they are.
CurrentSlices == {m \in SliceMsgs(generation, world) :
                    m.chunk \in DOMAIN world /\ m.version = world[m.chunk]}

LEMMA SnapshotIsCurrent ==
  ASSUME Grounded(generation, world), NEW c \in DOMAIN world
  PROVE  Snapshot(c) \in Seq(CurrentSlices)
<1> DEFINE q == Snapshot(c)
<1>1. q \in Seq(SliceMsgs(generation, world)) /\ Len(q) = Slices /\ Slices \in Nat
      /\ \A y \in 1..Slices : q[y] = Slice(c, world[c], y)
  BY SnapshotFacts
<1> HIDE DEF q
<1>2. \A y \in 1..Slices : q[y] \in CurrentSlices
  <2>1. \A y \in 1..Slices : q[y] \in SliceMsgs(generation, world)
    BY <1>1, ElementOfSeq
  <2>2. \A y \in 1..Slices : q[y].chunk = c /\ q[y].version = world[c]
    BY <1>1 DEF Slice
  <2> QED BY <2>1, <2>2 DEF CurrentSlices
<1>3. \A y \in 1..Len(q) : q[y] \in CurrentSlices
  BY <1>1, <1>2
<1> QED BY <1>1, <1>3 DEF q

\* The snapshots of chunks bring a copy up to date with them.
LEMMA SlicesOfFacts ==
  ASSUME Grounded(generation, world), NEW s \in Seq(DOMAIN world),
         NEW x \in Copies(generation, world)
  PROVE  /\ SlicesOf(s) \in Seq(CurrentSlices) /\ Len(SlicesOf(s)) = Len(s) * Slices
         /\ Taken(x, SlicesOf(s)).error = x.error
         /\ Taken(x, SlicesOf(s)).remote = Republished(x.remote, Range(s))
<1> DEFINE g == generation
           w == world
           N == Len(s)
           Q == Seq(CurrentSlices)
           Fresh(n) == {s[i] : i \in 1..n}
<1>1. N \in Nat /\ \A i \in 1..N : s[i] \in DOMAIN w
  BY ElementOfSeq
<1>2. Slices \in Nat
  BY PolicyValid
<1>3. CurrentSlices \subseteq SliceMsgs(g, w) /\ CurrentSlices \subseteq Sendable(g, w, 0)
  BY DEF CurrentSlices, Sendable, Queueable
<1>4. \A i \in 1..N : Snapshot(s[i]) \in Q /\ Len(Snapshot(s[i])) = Slices
  BY <1>1, SnapshotFacts, SnapshotIsCurrent
<1>5. \A q \in Q : q \in Seq(Sendable(g, w, 0))
  <2> HIDE DEF g, w
  <2> QED BY <1>3
<1>6. \E h \in [0..Len(s) -> Q] : Snapping(h, <<>>, s) /\ Fold(AddSnapshot, <<>>, s) = h[Len(s)]
  <2> DEFINE none == <<>>
  <2>1. none \in Q
    OBVIOUS
  <2>2. \A q \in Q : \A i \in 1..Len(s) : AddSnapshot(q, s[i]) \in Q
    <3> SUFFICES ASSUME NEW q \in Q, NEW i \in 1..N PROVE AddSnapshot(q, s[i]) \in Q
      OBVIOUS
    <3> DEFINE z == Snapshot(s[i])
    <3>1. z \in Q
      BY <1>4
    <3> HIDE DEF z
    <3>2. q \o z \in Q
      BY <3>1
    <3> QED BY <3>2 DEF AddSnapshot, z
  <2> HIDE DEF none, Q
  <2>3. Len(s) \in Nat
    BY <1>1
  <2>4. \E h \in [0..Len(s) -> Q] : Snapping(h, none, s) /\ Fold(AddSnapshot, none, s) = h[Len(s)]
    BY <2>1, <2>2, <2>3, SnappingSteps
  <2> QED BY <2>4 DEF none
<1>7. PICK h \in [0..N -> Q] : Snapping(h, <<>>, s) /\ SlicesOf(s) = h[N]
  BY <1>6 DEF SlicesOf
<1>8. h[0] = <<>> /\ \A i \in 1..N : h[i] = h[i - 1] \o Snapshot(s[i])
  BY <1>7 DEF Snapping, AddSnapshot
<1> DEFINE P == {n \in 0..N : /\ Len(h[n]) = n * Slices
                              /\ Taken(x, h[n]).error = x.error
                              /\ Taken(x, h[n]).remote = Republished(x.remote, Fresh(n))}
<1>9. 0 \in P
  <2>1. Taken(x, h[0]) = x
    BY <1>8, TakenEmpty
  <2>2. x.remote \in TablesOf(Versions)
    BY CopyFacts
  <2>3. x.remote \in [DOMAIN x.remote -> Versions]
    BY <2>2, TableFacts
  <2>4. Fresh(0) = {}
    OBVIOUS
  <2>5. Republished(x.remote, Fresh(0)) = x.remote
    <3> HIDE DEF Fresh
    <3> QED BY <2>3, <2>4 DEF Republished
  <2>6. Len(h[0]) = 0 * Slices
    BY <1>2, <1>8
  <2> QED BY <1>1, <2>1, <2>5, <2>6
<1>10. ASSUME NEW n \in 0..(N - 1), n \in P PROVE n + 1 \in P
  <2>1. n + 1 \in 1..N /\ (n + 1) - 1 = n /\ n + 1 \in 0..N /\ n \in 0..N /\ n \in Nat
    BY <1>1
  <2> DEFINE c == s[n + 1]
             q == h[n]
             z == Snapshot(c)
             b == Taken(x, q)
  <2>2. h[n + 1] = q \o z /\ q \in Q /\ z \in Q /\ Len(z) = Slices /\ c \in DOMAIN world
    BY <1>1, <1>4, <1>8, <2>1
  <2>3. q \in Seq(Sendable(g, w, 0)) /\ z \in Seq(Sendable(g, w, 0))
    BY <1>5, <2>2
  <2>4. Len(q) = n * Slices /\ b.error = x.error /\ b.remote = Republished(x.remote, Fresh(n))
    BY <1>10
  <2>5. Fresh(n + 1) = Fresh(n) \cup {c}
    <3>1. 1..(n + 1) = (1..n) \cup {n + 1}
      BY <2>1
    <3> QED BY <3>1
  <2> HIDE DEF c, q, Fresh, P
  <2>6. b \in Copies(g, w)
    BY <2>3, TakenStays
  <2>7. Taken(b, z).error = b.error /\ Taken(b, z).remote = Put(b.remote, c, world[c])
    <3> HIDE DEF b
    <3> QED BY <2>2, <2>6, SnapshotInstalls
  <2>8. Taken(x, q \o z) = Taken(b, z)
    <3> HIDE DEF z
    <3> QED BY <2>3, TakenConcat
  <2>9. Put(b.remote, c, world[c]) = Republished(x.remote, Fresh(n + 1))
    BY <2>4, <2>5 DEF Put, Republished
  <2>10. Len(q \o z) = (n + 1) * Slices
    <3>1. Len(q \o z) = Len(q) + Len(z)
      <4>1. q \in Seq(CurrentSlices) /\ z \in Seq(CurrentSlices)
        BY <2>2
      <4> HIDE DEF z
      <4> QED BY <4>1, ConcatProperties
    <3>2. (n + 1) * Slices = n * Slices + Slices
      BY <1>2, <2>1
    <3> QED BY <2>2, <2>4, <3>1, <3>2
  <2> QED BY <2>1, <2>2, <2>4, <2>7, <2>8, <2>9, <2>10 DEF P
<1>11. N \in P
  <2> HIDE DEF P
  <2>1. \A n \in 0..N : n \in P
    BY <1>1, <1>9, <1>10, UpTo
  <2> QED BY <1>1, <2>1
<1>12. Fresh(N) = Range(s)
  BY <1>1 DEF Range
<1>13. h[N] \in Q
  BY <1>1, <1>7
<1> QED BY <1>7, <1>11, <1>12, <1>13
--------------------------------------------------------------------------------
(* What is on its way stays in order *)

LEMMA Split ==
  ASSUME NEW S, NEW s \in Seq(S), NEW n \in 0..Len(s)
  PROVE  /\ SubSeq(s, 1, n) \in Seq(S) /\ Len(SubSeq(s, 1, n)) = n
         /\ \A i \in 1..n : SubSeq(s, 1, n)[i] = s[i]
         /\ SubSeq(s, n + 1, Len(s)) \in Seq(S) /\ Len(SubSeq(s, n + 1, Len(s))) = Len(s) - n
         /\ SubSeq(s, 1, n) \o SubSeq(s, n + 1, Len(s)) = s
<1>1. Len(s) \in Nat /\ n \in Nat /\ \A i \in 1..Len(s) : s[i] \in S
  BY ElementOfSeq
<1>2. SubSeq(s, 1, n) \in Seq(S) /\ Len(SubSeq(s, 1, n)) = n /\ \A i \in 1..n : SubSeq(s, 1, n)[i] = s[i]
  <2>1. 1 \in Int /\ n \in Int /\ \A i \in 1..n : s[i] \in S
    BY <1>1
  <2>2. /\ SubSeq(s, 1, n) \in Seq(S)
        /\ Len(SubSeq(s, 1, n)) = IF 1 <= n THEN n - 1 + 1 ELSE 0
        /\ \A i \in 1..(n - 1 + 1) : SubSeq(s, 1, n)[i] = s[1 + i - 1]
    BY <2>1, SubSeqProperties
  <2>3. n - 1 + 1 = n /\ (1 <= n \/ n = 0) /\ \A i \in 1..n : 1 + i - 1 = i
    BY <1>1
  <2> QED BY <2>2, <2>3
<1>3. SubSeq(s, n + 1, Len(s)) \in Seq(S) /\ Len(SubSeq(s, n + 1, Len(s))) = Len(s) - n
  <2>1. n + 1 \in Int /\ Len(s) \in Int /\ \A i \in (n + 1)..Len(s) : s[i] \in S
    BY <1>1
  <2>2. /\ SubSeq(s, n + 1, Len(s)) \in Seq(S)
        /\ Len(SubSeq(s, n + 1, Len(s))) = IF n + 1 <= Len(s) THEN Len(s) - (n + 1) + 1 ELSE 0
    BY <2>1, SubSeqProperties
  <2>3. (n + 1 <= Len(s) /\ Len(s) - (n + 1) + 1 = Len(s) - n) \/ (~(n + 1 <= Len(s)) /\ Len(s) - n = 0)
    BY <1>1
  <2> QED BY <2>2, <2>3
<1>4. SubSeq(s, 1, n) \o SubSeq(s, n + 1, Len(s)) = s
  <2>1. 1 \in 1..(Len(s) + 1) /\ n \in (1 - 1)..Len(s) /\ Len(s) \in n..Len(s)
    BY <1>1
  <2>2. SubSeq(s, 1, n) \o SubSeq(s, n + 1, Len(s)) = SubSeq(s, 1, Len(s))
    BY <2>1, ConcatAdjacentSubSeq
  <2> QED BY <2>2, SubSeqFull
<1> QED BY <1>2, <1>3, <1>4

LEMMA OrderlyConcat ==
  ASSUME NEW S, NEW s \in Seq(S), NEW t \in Seq(S)
  PROVE  Orderly(s \o t) <=> /\ Orderly(s) /\ Orderly(t)
                             /\ \A i \in 1..Len(s), j \in 1..Len(t) : Exchangeable(s[i], t[j])
<1> DEFINE q == s \o t
           m == Len(s)
           n == Len(t)
<1>1. m \in Nat /\ n \in Nat /\ Len(q) = m + n
      /\ \A i \in 1..(m + n) : q[i] = IF i <= m THEN s[i] ELSE t[i - m]
  BY ConcatProperties
<1> HIDE DEF q
<1>2. ASSUME Orderly(q) PROVE Orderly(s)
  <2> SUFFICES ASSUME NEW i \in 1..m, NEW j \in 1..m, i < j PROVE Exchangeable(s[i], s[j])
    BY DEF Orderly
  <2>1. i \in 1..Len(q) /\ j \in 1..Len(q) /\ q[i] = s[i] /\ q[j] = s[j]
    BY <1>1
  <2>2. Exchangeable(q[i], q[j])
    BY <1>2, <2>1 DEF Orderly
  <2> QED BY <2>1, <2>2
<1>3. ASSUME Orderly(q) PROVE Orderly(t)
  <2> SUFFICES ASSUME NEW i \in 1..n, NEW j \in 1..n, i < j PROVE Exchangeable(t[i], t[j])
    BY DEF Orderly
  <2>1. /\ m + i \in 1..Len(q) /\ m + j \in 1..Len(q) /\ m + i < m + j
        /\ ~(m + i <= m) /\ ~(m + j <= m) /\ (m + i) - m = i /\ (m + j) - m = j
    BY <1>1
  <2>2. q[m + i] = t[i] /\ q[m + j] = t[j]
    BY <1>1, <2>1
  <2>3. Exchangeable(q[m + i], q[m + j])
    BY <1>3, <2>1 DEF Orderly
  <2> QED BY <2>2, <2>3
<1>4. ASSUME Orderly(q), NEW i \in 1..m, NEW j \in 1..n PROVE Exchangeable(s[i], t[j])
  <2>1. /\ i \in 1..Len(q) /\ i <= m /\ m + j \in 1..Len(q) /\ i < m + j
        /\ ~(m + j <= m) /\ (m + j) - m = j
    BY <1>1
  <2>2. q[i] = s[i] /\ q[m + j] = t[j]
    BY <1>1, <2>1
  <2>3. Exchangeable(q[i], q[m + j])
    BY <1>4, <2>1 DEF Orderly
  <2> QED BY <2>2, <2>3
<1>5. ASSUME Orderly(s), Orderly(t), \A i \in 1..m, j \in 1..n : Exchangeable(s[i], t[j])
      PROVE Orderly(q)
  <2> SUFFICES ASSUME NEW i \in 1..Len(q), NEW j \in 1..Len(q), i < j PROVE Exchangeable(q[i], q[j])
    BY DEF Orderly
  <2>1. CASE j <= m
    <3>1. i \in 1..m /\ j \in 1..m /\ q[i] = s[i] /\ q[j] = s[j]
      BY <1>1, <2>1
    <3> QED BY <1>5, <3>1 DEF Orderly
  <2>2. CASE i <= m /\ ~(j <= m)
    <3>1. i \in 1..m /\ j - m \in 1..n /\ q[i] = s[i] /\ q[j] = t[j - m]
      BY <1>1, <2>2
    <3> QED BY <1>5, <3>1
  <2>3. CASE ~(i <= m)
    <3>1. i - m \in 1..n /\ j - m \in 1..n /\ i - m < j - m /\ ~(j <= m)
      BY <1>1, <2>3
    <3>2. q[i] = t[i - m] /\ q[j] = t[j - m]
      BY <1>1, <2>3, <3>1
    <3> QED BY <1>5, <3>1, <3>2 DEF Orderly
  <2>4. i \in Nat /\ j \in Nat
    BY <1>1
  <2> QED BY <1>1, <2>1, <2>2, <2>3, <2>4
<1> QED BY <1>2, <1>3, <1>4, <1>5 DEF q

\* What may follow any edit: everything but a slice of an old version.
LateMsgs(g, w, r) == {m \in Sendable(g, w, r) : m.kind = "slice" =>
                        m.chunk \in DOMAIN w /\ m.version = w[m.chunk]}

LEMMA LateExchange ==
  ASSUME NEW g, NEW w, Grounded(g, w), NEW r, NEW b \in Sendable(g, w, r), NEW m \in LateMsgs(g, w, r)
  PROVE  Exchangeable(b, m)
<1> SUFFICES ASSUME IsEdit(b), m.kind = "slice", m.chunk = b.chunk PROVE Covers(m.version, b.version)
  BY DEF Exchangeable
<1>1. b \in EditMsgs(g, w)
  BY MessageKinds
<1>2. b.chunk \in Chunks /\ b.version \in Versions /\ Recent(g, w, b.chunk, b.version)
  BY <1>1, EditFacts
<1>3. m.chunk \in DOMAIN w /\ m.version = w[m.chunk]
  BY DEF LateMsgs
<1>4. w[m.chunk] \in Versions /\ w[m.chunk].gen = g[m.chunk]
  BY <1>3, GroundedFacts
<1> QED BY <1>2, <1>3, <1>4 DEF Covers, Recent, Versions

LEMMA OrderlyLate ==
  ASSUME NEW g, NEW w, Grounded(g, w), NEW r, NEW s \in Seq(Sendable(g, w, r)),
         NEW t \in Seq(LateMsgs(g, w, r)), Orderly(s)
  PROVE  s \o t \in Seq(Sendable(g, w, r)) /\ Orderly(s \o t)
<1>1. \A j \in 1..Len(t) : t[j] \in LateMsgs(g, w, r)
  BY ElementOfSeq
<1>2. \A j \in 1..Len(s) : s[j] \in Sendable(g, w, r)
  BY ElementOfSeq
<1>3. LateMsgs(g, w, r) \subseteq Sendable(g, w, r)
  BY DEF LateMsgs
<1>4. t \in Seq(Sendable(g, w, r)) /\ \A j \in 1..Len(t) : t[j] \in Sendable(g, w, r)
  BY <1>1, <1>3, SeqMonotonic
<1>5. Orderly(t)
  BY <1>1, <1>4, LateExchange DEF Orderly
<1>6. \A i \in 1..Len(s), j \in 1..Len(t) : Exchangeable(s[i], t[j])
  BY <1>1, <1>2, LateExchange
<1> QED BY <1>4, <1>5, <1>6, OrderlyConcat, ConcatProperties
--------------------------------------------------------------------------------
(* What is not ahead of the world stays so when the world advances. *)

Grows(g, w, h, z) == \A c \in Chunks : \A v \in Versions : Recent(g, w, c, v) => Recent(h, z, c, v)

LEMMA GrowsSame ==
  ASSUME NEW g, NEW w
  PROVE  Grows(g, w, g, w)
BY DEF Grows

LEMMA GrowsOrder ==
  ASSUME NEW g, NEW w, NEW g1, NEW w1, NEW g2, NEW w2,
         Grows(g, w, g1, w1), Grows(g1, w1, g2, w2)
  PROVE  Grows(g, w, g2, w2)
BY DEF Grows

LEMMA GrowsAll ==
  ASSUME NEW g, NEW w, NEW h, NEW z, Grows(g, w, h, z), NEW r \in Nat, NEW q \in Nat, r <= q
  PROVE  /\ Tables(g, w) \subseteq Tables(h, z) /\ Parts(g, w) \subseteq Parts(h, z)
         /\ Queueable(g, w) \subseteq Queueable(h, z) /\ Reportable(g, w) \subseteq Reportable(h, z)
         /\ Sendable(g, w, r) \subseteq Sendable(h, z, q)
<1>1. Tables(g, w) \subseteq Tables(h, z)
  <2> SUFFICES ASSUME NEW t \in Tables(g, w) PROVE t \in Tables(h, z)
    OBVIOUS
  <2>1. t \in TablesOf(Versions) /\ \A c \in DOMAIN t : Recent(g, w, c, t[c])
    BY DEF Tables
  <2>2. \A c \in DOMAIN t : c \in Chunks /\ t[c] \in Versions
    BY <2>1, TableFacts
  <2> QED BY <2>1, <2>2 DEF Grows, Tables
<1>2. Parts(g, w) \subseteq Parts(h, z)
  <2> SUFFICES ASSUME NEW t \in Parts(g, w) PROVE t \in Parts(h, z)
    OBVIOUS
  <2>1. t \in TablesOf(Partials) /\ \A c \in DOMAIN t : Recent(g, w, c, t[c].version)
    BY DEF Parts
  <2>2. \A c \in DOMAIN t : c \in Chunks /\ t[c] \in Partials
    BY <2>1, TableFacts
  <2>3. \A c \in DOMAIN t : c \in Chunks /\ t[c].version \in Versions
    BY <2>2 DEF Partials
  <2> QED BY <2>1, <2>3 DEF Grows, Parts
<1>3. SliceMsgs(g, w) \subseteq SliceMsgs(h, z)
  BY DEF Grows, SliceMsgs
<1>4. EditMsgs(g, w) \subseteq EditMsgs(h, z)
  BY DEF Grows, EditMsgs
<1>5. DeltaMsgs(r) \subseteq DeltaMsgs(q)
  BY DEF DeltaMsgs
<1> QED BY <1>1, <1>2, <1>3, <1>4, <1>5 DEF Queueable, Reportable, Sendable

LEMMA AdvanceGrows ==
  ASSUME NEW g, NEW w, Grounded(g, w), NEW c \in DOMAIN w
  PROVE  /\ Grounded(g, [w EXCEPT ![c] = Advanced(@)])
         /\ Grows(g, w, g, [w EXCEPT ![c] = Advanced(@)])
         /\ DOMAIN [w EXCEPT ![c] = Advanced(@)] = DOMAIN w
         /\ [w EXCEPT ![c] = Advanced(@)][c] = Advanced(w[c])
         /\ \A d \in DOMAIN w : d # c => [w EXCEPT ![c] = Advanced(@)][d] = w[d]
         /\ Recent(g, [w EXCEPT ![c] = Advanced(@)], c, Advanced(w[c]))
         /\ Advanced(w[c]) \in Versions /\ c \in Chunks
<1> DEFINE v == w[c]
           a == Advanced(v)
           z == [w EXCEPT ![c] = a]
<1>1. c \in Chunks /\ v \in Versions /\ v.gen = g[c]
  BY GroundedFacts
<1>2. a \in Versions /\ a.gen = v.gen /\ a.rev = v.rev + 1
  <2> HIDE DEF v
  <2> QED BY <1>1, AdvancedVersion
<1>3. w \in TablesOf(Versions) /\ w \in [DOMAIN w -> Versions] /\ DOMAIN w \subseteq Chunks
      /\ \A d \in DOMAIN w : w[d].gen = g[d] /\ w[d] \in Versions
  <2>1. w \in TablesOf(Versions)
    BY DEF Grounded
  <2> QED BY <2>1, TableFacts DEF Grounded
<1> HIDE DEF a
<1>4. /\ DOMAIN z = DOMAIN w /\ z \in [DOMAIN w -> Versions] /\ z[c] = a
      /\ \A d \in DOMAIN w : d # c => z[d] = w[d]
  BY <1>2, <1>3
<1>5. z = [w EXCEPT ![c] = Advanced(@)]
  BY DEF a
<1> HIDE DEF z
<1>6. Grounded(g, z)
  <2>1. z \in TablesOf(Versions)
    BY <1>3, <1>4, TableIntro
  <2>2. \A d \in DOMAIN z : z[d].gen = g[d]
    BY <1>1, <1>2, <1>3, <1>4
  <2> QED BY <2>1, <2>2 DEF Grounded
<1>7. Grows(g, w, g, z)
  <2> SUFFICES ASSUME NEW d \in Chunks, NEW u \in Versions, Recent(g, w, d, u) PROVE Recent(g, z, d, u)
    BY DEF Grows
  <2>1. CASE d = c
    BY <1>1, <1>2, <1>4, <2>1 DEF Recent, Versions
  <2>2. CASE d # c
    BY <1>4, <2>2 DEF Recent
  <2> QED BY <2>1, <2>2
<1>8. Recent(g, z, c, a)
  BY <1>1, <1>2, <1>4 DEF Recent, Versions
<1> QED BY <1>1, <1>2, <1>4, <1>5, <1>6, <1>7, <1>8 DEF a

LEMMA LoadGrows ==
  ASSUME NEW g \in [Chunks -> Nat], NEW w, Grounded(g, w), NEW c \in Chunks, c \notin DOMAIN w
  PROVE  /\ [g EXCEPT ![c] = @ + 1] \in [Chunks -> Nat]
         /\ Grounded([g EXCEPT ![c] = @ + 1], Put(w, c, Version(g[c] + 1, 1)))
         /\ Grows(g, w, [g EXCEPT ![c] = @ + 1], Put(w, c, Version(g[c] + 1, 1)))
<1> DEFINE v == Version(g[c] + 1, 1)
           h == [g EXCEPT ![c] = @ + 1]
           z == Put(w, c, v)
<1>1. h \in [Chunks -> Nat] /\ h[c] = g[c] + 1 /\ \A d \in Chunks : d # c => h[d] = g[d]
  OBVIOUS
<1>2. v \in Versions /\ v.gen = g[c] + 1
  BY DEF Version, Versions
<1>3. w \in TablesOf(Versions) /\ \A d \in DOMAIN w : w[d].gen = g[d] /\ w[d] \in Versions /\ d \in Chunks
  <2>1. w \in TablesOf(Versions)
    BY DEF Grounded
  <2> QED BY <2>1, TableFacts DEF Grounded
<1> HIDE DEF v, h
<1>4. z \in TablesOf(Versions)
  BY <1>2, <1>3, PutFacts
<1>5. DOMAIN z = DOMAIN w \cup {c} /\ z[c] = v /\ \A d \in DOMAIN w : d # c => z[d] = w[d]
  BY DEF Put
<1> HIDE DEF z
<1>6. Grounded(h, z)
  BY <1>1, <1>2, <1>3, <1>4, <1>5 DEF Grounded
<1>7. Grows(g, w, h, z)
  <2> SUFFICES ASSUME NEW d \in Chunks, NEW u \in Versions, Recent(g, w, d, u) PROVE Recent(h, z, d, u)
    BY DEF Grows
  <2>1. CASE d = c
    <3>1. u.gen \in Nat /\ g[c] \in Nat /\ u.gen <= g[c]
      BY <2>1 DEF Recent, Versions
    <3> QED BY <1>1, <2>1, <3>1 DEF Recent
  <2>2. CASE d # c
    BY <1>1, <1>5, <2>2 DEF Recent
  <2> QED BY <2>1, <2>2
<1> QED BY <1>1, <1>6, <1>7 DEF v, h, z

LEMMA UnloadGrows ==
  ASSUME NEW g, NEW w, Grounded(g, w), NEW c
  PROVE  /\ Grounded(g, Restrict(w, DOMAIN w \ {c})) /\ Grows(g, w, g, Restrict(w, DOMAIN w \ {c}))
<1> DEFINE D == DOMAIN w \ {c}
           z == Restrict(w, D)
<1>1. w \in TablesOf(Versions) /\ \A d \in DOMAIN w : w[d].gen = g[d]
  BY DEF Grounded
<1>2. z \in TablesOf(Versions) /\ DOMAIN z = D /\ \A d \in D : z[d] = w[d]
  <2>1. D \subseteq DOMAIN w
    OBVIOUS
  <2> HIDE DEF D
  <2> QED BY <1>1, <2>1, RestrictFacts
<1> HIDE DEF z
<1> QED BY <1>1, <1>2 DEF Grounded, Grows, Recent, z
--------------------------------------------------------------------------------
(* The publication table of the reports of a tick *)

PublishedAfter(table, s) == Fold(AdvancePublication, table, s)

LEMMA AdvanceFacts ==
  ASSUME NEW g, NEW w, NEW t \in Tables(g, w), NEW m \in Reportable(g, w)
  PROVE  /\ AdvancePublication(t, m) \in Tables(g, w) /\ DOMAIN AdvancePublication(t, m) = DOMAIN t
         /\ m \in RecordMsgs => AdvancePublication(t, m) = t
         /\ m \in EditMsgs(g, w) /\ m.chunk \in DOMAIN t /\ Advanced(t[m.chunk]) = m.version =>
              AdvancePublication(t, m) = Put(t, m.chunk, m.version)
<1>1. t \in TablesOf(Versions) /\ t \in [DOMAIN t -> Versions] /\ DOMAIN t \subseteq Chunks
  <2>1. t \in TablesOf(Versions)
    BY DEF Tables
  <2> QED BY <2>1, TableFacts
<1>2. CASE m \in RecordMsgs
  <2>1. m.about = "record"
    BY <1>2 DEF RecordMsgs
  <2>2. AdvancePublication(t, m) = t
    BY <2>1 DEF AdvancePublication
  <2>3. m \notin EditMsgs(g, w)
    BY <2>1 DEF EditMsgs
  <2> QED BY <2>2, <2>3
<1>3. CASE m \in EditMsgs(g, w)
  <2>1. m.about = "voxel" /\ m.chunk \in Chunks /\ m.version \in Versions /\ Recent(g, w, m.chunk, m.version)
    BY <1>3, EditFacts
  <2>2. m \notin RecordMsgs
    BY <2>1 DEF RecordMsgs
  <2>3. CASE m.chunk \in DOMAIN t /\ Advanced(t[m.chunk]) = m.version
    <3>1. AdvancePublication(t, m) = [t EXCEPT ![m.chunk] = m.version]
      BY <2>1, <2>3 DEF AdvancePublication
    <3>2. [t EXCEPT ![m.chunk] = m.version] = Put(t, m.chunk, m.version)
      BY <1>1, <2>3 DEF Put
    <3>3. Put(t, m.chunk, m.version) \in Tables(g, w)
      BY <2>1, PutRecent
    <3>4. DOMAIN Put(t, m.chunk, m.version) = DOMAIN t
      BY <2>3 DEF Put
    <3> QED BY <2>2, <3>1, <3>2, <3>3, <3>4
  <2>4. CASE ~(m.chunk \in DOMAIN t /\ Advanced(t[m.chunk]) = m.version)
    <3>1. AdvancePublication(t, m) = t
      BY <2>1, <2>4 DEF AdvancePublication
    <3> QED BY <2>2, <2>4, <3>1
  <2> QED BY <2>3, <2>4
<1> QED BY <1>2, <1>3 DEF Reportable

LEMMA PublishedTrace ==
  ASSUME NEW g, NEW w, NEW t \in Tables(g, w), NEW s \in Seq(Reportable(g, w))
  PROVE  \E h \in [0..Len(s) -> Tables(g, w)] : Advancing(h, t, s) /\ PublishedAfter(t, s) = h[Len(s)]
<1>1. \A i \in 1..Len(s) : s[i] \in Reportable(g, w)
  BY ElementOfSeq
<1>2. \A x \in Tables(g, w) : \A i \in 1..Len(s) : AdvancePublication(x, s[i]) \in Tables(g, w)
  BY <1>1, AdvanceFacts
<1>3. Len(s) \in Nat
  OBVIOUS
<1> QED BY <1>2, <1>3, AdvancingSteps DEF PublishedAfter

LEMMA PublishedFacts ==
  ASSUME NEW g, NEW w, NEW t \in Tables(g, w), NEW s \in Seq(Reportable(g, w))
  PROVE  /\ PublishedAfter(t, s) \in Tables(g, w) /\ DOMAIN PublishedAfter(t, s) = DOMAIN t
<1> DEFINE N == Len(s)
<1>1. N \in Nat /\ \A i \in 1..N : s[i] \in Reportable(g, w)
  BY ElementOfSeq
<1>2. PICK h \in [0..N -> Tables(g, w)] : Advancing(h, t, s) /\ PublishedAfter(t, s) = h[N]
  BY PublishedTrace
<1>3. h[0] = t /\ \A i \in 1..N : h[i] = AdvancePublication(h[i - 1], s[i])
  BY <1>2 DEF Advancing
<1> HIDE DEF N
<1> DEFINE P == {n \in 0..N : DOMAIN h[n] = DOMAIN t}
<1>5. 0 \in P
  BY <1>1, <1>3
<1>6. ASSUME NEW n \in 0..(N - 1), n \in P PROVE n + 1 \in P
  <2>1. n + 1 \in 1..N /\ (n + 1) - 1 = n /\ n + 1 \in 0..N /\ n \in 0..N
    BY <1>1
  <2>2. h[n + 1] = AdvancePublication(h[n], s[n + 1]) /\ h[n] \in Tables(g, w) /\ s[n + 1] \in Reportable(g, w)
    BY <1>1, <1>3, <2>1
  <2>3. DOMAIN h[n + 1] = DOMAIN h[n]
    BY <2>2, AdvanceFacts
  <2> QED BY <1>6, <2>1, <2>3
<1>7. N \in P
  <2> HIDE DEF P
  <2>1. \A n \in 0..N : n \in P
    BY <1>1, <1>5, <1>6, UpTo
  <2> QED BY <1>1, <2>1
<1>8. h[N] \in Tables(g, w)
  BY <1>1
<1> QED BY <1>2, <1>3, <1>7, <1>8

LEMMA PublishedNothing ==
  ASSUME NEW g, NEW w, NEW t \in Tables(g, w)
  PROVE  PublishedAfter(t, <<>>) = t
<1> DEFINE none == <<>>
<1>1. none \in Seq(Reportable(g, w)) /\ Len(none) = 0
  OBVIOUS
<1> HIDE DEF none
<1>2. none \in Seq(Reportable(g, w))
  BY <1>1
<1>3. PICK h \in [0..Len(none) -> Tables(g, w)] :
        Advancing(h, t, none) /\ PublishedAfter(t, none) = h[Len(none)]
  BY <1>2, PublishedTrace
<1> QED BY <1>1, <1>3 DEF none, Advancing

LEMMA PublishedAppend ==
  ASSUME NEW g, NEW w, NEW t \in Tables(g, w), NEW s \in Seq(Reportable(g, w)), NEW m \in Reportable(g, w)
  PROVE  PublishedAfter(t, Append(s, m)) = AdvancePublication(PublishedAfter(t, s), m)
<1> DEFINE N == Len(s)
           z == Append(s, m)
<1>1. N \in Nat /\ Len(z) = N + 1 /\ z \in Seq(Reportable(g, w)) /\ z[N + 1] = m
      /\ \A i \in 1..N : z[i] = s[i]
  OBVIOUS
<1>2. PICK h \in [0..N -> Tables(g, w)] : Advancing(h, t, s) /\ PublishedAfter(t, s) = h[N]
  BY PublishedTrace
<1>3. h[0] = t /\ \A i \in 1..N : h[i] = AdvancePublication(h[i - 1], s[i])
  BY <1>2 DEF Advancing
<1> HIDE DEF N, z
<1>4. PICK k \in [0..Len(z) -> Tables(g, w)] : Advancing(k, t, z) /\ PublishedAfter(t, z) = k[Len(z)]
  <2>1. z \in Seq(Reportable(g, w))
    BY <1>1
  <2> QED BY <2>1, PublishedTrace
<1>5. k[0] = t /\ \A i \in 1..(N + 1) : k[i] = AdvancePublication(k[i - 1], z[i])
  BY <1>1, <1>4 DEF Advancing
<1>6. InStep(h, k, N)
  <2>1. ASSUME NEW i \in 1..N, h[i - 1] = k[i - 1] PROVE h[i] = k[i]
    <3>1. h[i] = AdvancePublication(h[i - 1], s[i])
      BY <1>3
    <3>2. i \in 1..(N + 1) /\ z[i] = s[i]
      BY <1>1
    <3>3. k[i] = AdvancePublication(k[i - 1], z[i])
      BY <1>5, <3>2
    <3> QED BY <2>1, <3>1, <3>2, <3>3
  <2> QED BY <1>3, <1>5, <2>1 DEF InStep
<1>7. h[N] = k[N]
  <2>1. N \in 0..N
    BY <1>1
  <2> QED BY <1>1, <1>6, <2>1, Agree
<1>8. k[N + 1] = AdvancePublication(k[N], m)
  <2>1. N + 1 \in 1..(N + 1) /\ (N + 1) - 1 = N
    BY <1>1
  <2> QED BY <1>1, <1>5, <2>1
<1> QED BY <1>1, <1>2, <1>4, <1>7, <1>8 DEF z

\* A batch about a chunk that both the table and a copy have in the preceding revision
\* advances both alike.
LEMMA EditAdvances ==
  ASSUME NEW g, NEW w, NEW x \in Copies(g, w), x.error = "none", NEW m \in EditMsgs(g, w),
         m.chunk \in DOMAIN x.remote, Advanced(x.remote[m.chunk]) = m.version
  PROVE  /\ Take(x, m).error = "none"
         /\ Take(x, m).remote = AdvancePublication(x.remote, m)
         /\ AdvancePublication(x.remote, m) = Put(x.remote, m.chunk, m.version)
<1>1. x.remote \in Tables(g, w)
  BY CopyFacts
<1>2. AdvancePublication(x.remote, m) = Put(x.remote, m.chunk, m.version)
  BY <1>1, AdvanceFacts DEF Reportable
<1>3. x.remote[m.chunk] \in Versions
  BY VersionFacts
<1>4. ~Covers(x.remote[m.chunk], m.version)
  BY <1>3, AdvancedVersion
<1>5. Take(x, m) = Plan(x, m)
  BY PlanEdits
<1>6. Plan(x, m) = [remote |-> Put(x.remote, m.chunk, m.version), assembly |-> x.assembly, error |-> x.error]
  BY <1>4, PlanEdits
<1> QED BY <1>2, <1>5, <1>6
--------------------------------------------------------------------------------
(* The invariant.  Everything has its type and nothing is ahead of the world; slices    *)
(* follow the edits they contain; a tick leaves no reports; and the table is what the  *)
(* client will have once it has taken everything on its way.                           *)

Stream == wire \o backlog

Typed ==
  /\ host \in {"running", "faulted"} /\ phase \in {"idle", "simulation"}
  /\ client \in {"running", "base_missing", "base_gap"}
  /\ generation \in [Chunks -> Nat] /\ Grounded(generation, world)
  /\ record \in Nat /\ held \in 0..record /\ sequence \in Nat /\ place \in Places
  /\ subscribed \subseteq Chunks /\ Cardinality(subscribed) <= MaxSubscribed
  /\ publications \in Tables(generation, world) /\ DOMAIN publications \subseteq subscribed
  /\ reports \in Seq(Reportable(generation, world))
  /\ wire \in Seq(Sendable(generation, world, record))
  /\ backlog \in Seq(Sendable(generation, world, record)) /\ Len(backlog) <= MaxBacklog
  /\ inbox \in Seq(Queueable(generation, world))
  /\ remote \in Tables(generation, world) /\ assembly \in Parts(generation, world)

InOrder == Orderly(Stream)

IdleReports == phase = "idle" => reports = <<>>

Sound == Typed /\ InOrder /\ IdleReports

TableTrue == Live => Expected.error = "none" /\ Expected.remote = Published

LEMMA CopyStays ==
  ASSUME Typed
  PROVE  Copy \in Copies(generation, world) /\ Copy.remote = remote /\ Copy.assembly = assembly
         /\ Copy.error = "none"
<1>1. remote \in Tables(generation, world) /\ assembly \in Parts(generation, world)
  BY DEF Typed
<1>2. "none" \in {"none", "base_missing", "base_gap"}
  OBVIOUS
<1>3. Copy \in Copies(generation, world)
  BY <1>1, <1>2, CopyIntro DEF Copy
<1> QED BY <1>3 DEF Copy

LEMMA NothingSent ==
  ASSUME NEW S
  PROVE  <<>> \in Seq(S) /\ Len(<<>>) = 0 /\ <<>> \o <<>> = <<>> /\ Orderly(<<>>)
<1>1. <<>> \in Seq(S) /\ Len(<<>>) = 0 /\ <<>> \o <<>> = <<>>
  OBVIOUS
<1>2. Orderly(<<>>)
  BY DEF Orderly
<1> QED BY <1>1, <1>2

LEMMA NoTable ==
  ASSUME NEW g, NEW w
  PROVE  <<>> \in Tables(g, w) /\ <<>> \in Parts(g, w) /\ DOMAIN <<>> = {}
<1> DEFINE none == <<>>
<1>1. DOMAIN none = {} /\ none \in [{} -> Versions] /\ none \in [{} -> Partials]
  <2>1. none \in Seq(Versions) /\ none \in Seq(Partials) /\ Len(none) = 0
    OBVIOUS
  <2>2. DOMAIN none = {}
    BY <2>1
  <2>3. none = [i \in 1..0 |-> none[i]]
    BY <2>1
  <2> QED BY <2>2, <2>3
<1> HIDE DEF none
<1>2. none \in TablesOf(Versions) /\ none \in TablesOf(Partials)
  <2>1. {} \subseteq Chunks
    OBVIOUS
  <2> QED BY <1>1, <2>1, TableIntro
<1>3. none \in Tables(g, w) /\ none \in Parts(g, w)
  BY <1>1, <1>2 DEF Tables, Parts
<1> QED BY <1>1, <1>3 DEF none

\* At the start everything is typed, and the client has what is published.
LEMMA InitSound == Init => Sound /\ TableTrue
<1> SUFFICES ASSUME Init PROVE Sound /\ TableTrue
  OBVIOUS
<1> DEFINE g == [c \in Chunks |-> 1]
           w == [c \in Chunks |-> Version(1, 1)]
<1>1. /\ host = "running" /\ phase = "idle" /\ client = "running"
      /\ world = w /\ generation = g /\ record = 0 /\ held = 0 /\ place = Start
      /\ subscribed \in {{}, place.desired} /\ publications = Restrict(world, subscribed)
      /\ reports = <<>> /\ sequence = 0 /\ backlog = <<>> /\ wire = <<>>
      /\ inbox = <<>> /\ remote = publications /\ assembly = <<>>
  BY DEF Init
<1>2. generation \in [Chunks -> Nat] /\ Grounded(generation, world)
  <2>1. Version(1, 1) \in Versions /\ Version(1, 1).gen = 1
    BY DEF Version, Versions
  <2>2. w \in [Chunks -> Versions]
    BY <2>1
  <2>3. w \in TablesOf(Versions)
    <3> HIDE DEF w
    <3> QED BY <2>2, TableIntro
  <2> QED BY <1>1, <2>1, <2>3 DEF Grounded
<1>3. subscribed \subseteq Chunks /\ Cardinality(subscribed) <= MaxSubscribed
  <2>1. place \in Places
    BY <1>1, StartAssumption
  <2>2. place.desired \subseteq Chunks /\ Cardinality(place.desired) <= MaxSubscribed
    BY <2>1, PlacesAssumption
  <2>3. Cardinality({}) = 0 /\ MaxSubscribed \in Nat
    BY FS_EmptySet, PolicyValid
  <2>4. CASE subscribed = {}
    BY <2>3, <2>4
  <2>5. CASE subscribed = place.desired
    BY <2>2, <2>5
  <2>6. subscribed = {} \/ subscribed = place.desired
    BY <1>1
  <2> QED BY <2>4, <2>5, <2>6
<1>4. publications \in Tables(generation, world) /\ DOMAIN publications = subscribed
  <2>1. DOMAIN world = Chunks /\ world \in TablesOf(Versions)
    BY <1>1, <1>2 DEF Grounded
  <2>2. world \in Tables(generation, world)
    BY <1>2, <2>1, GroundedFacts DEF Tables
  <2>3. subscribed \subseteq DOMAIN world
    BY <1>3, <2>1
  <2>4. Restrict(world, subscribed) \in Tables(generation, world)
    BY <2>2, <2>3, RestrictRecent
  <2>5. DOMAIN Restrict(world, subscribed) = subscribed
    BY DEF Restrict
  <2> QED BY <1>1, <2>4, <2>5
<1>5. assembly \in Parts(generation, world)
  BY <1>1, NoTable
<1> HIDE DEF g, w
<1>6. Typed
  <2>1. 0 \in 0..0 /\ 0 \in Nat
    OBVIOUS
  <2>2. /\ reports \in Seq(Reportable(generation, world))
        /\ wire \in Seq(Sendable(generation, world, record))
        /\ backlog \in Seq(Sendable(generation, world, record))
        /\ inbox \in Seq(Queueable(generation, world))
    BY <1>1, NothingSent
  <2>3. Len(backlog) <= MaxBacklog
    BY <1>1, NothingSent, PolicyValid
  <2>4. place \in Places
    BY <1>1, StartAssumption
  <2> QED BY <1>1, <1>2, <1>3, <1>4, <1>5, <2>1, <2>2, <2>3, <2>4 DEF Typed
<1>7. InOrder
  BY <1>1, NothingSent DEF InOrder, Stream
<1>8. IdleReports
  BY <1>1 DEF IdleReports
<1>9. Expected = Copy
  <2>1. inbox \o wire \o backlog = <<>>
    BY <1>1, NothingSent
  <2>2. Copy \in Copies(generation, world)
    BY <1>6, CopyStays
  <2> QED BY <2>1, <2>2, TakenEmpty DEF Expected
<1>10. Published = publications
  <2>1. Published = PublishedAfter(publications, reports)
    BY DEF Published, PublishedAfter
  <2>2. PublishedAfter(publications, <<>>) = publications
    BY <1>4, PublishedNothing
  <2> QED BY <1>1, <2>1, <2>2
<1> QED BY <1>1, <1>6, <1>7, <1>8, <1>9, <1>10, CopyStays DEF Sound, TableTrue
--------------------------------------------------------------------------------
(* What the rest of the simulation does *)

LEMMA SimulationSound ==
  ASSUME Sound, generation' \in [Chunks -> Nat], Grounded(generation', world'),
         Grows(generation, world, generation', world'), place' \in Places,
         UNCHANGED <<host, phase, record, subscribed, publications, reports, sequence,
                     backlog, wire, online>>, UNCHANGED clientVars
  PROVE  Sound' /\ (TableTrue => TableTrue')
<1>1. Typed /\ InOrder /\ IdleReports
  BY DEF Sound
<1>2. UNCHANGED <<host, phase, record, subscribed, publications, reports, sequence, backlog,
                  wire, online, client, inbox, remote, assembly, held>>
  BY DEF clientVars
<1>3. Typed'
  <2>1. record \in Nat /\ record <= record
    BY <1>1 DEF Typed
  <2>2. /\ Tables(generation, world) \subseteq Tables(generation', world')
        /\ Parts(generation, world) \subseteq Parts(generation', world')
        /\ Queueable(generation, world) \subseteq Queueable(generation', world')
        /\ Reportable(generation, world) \subseteq Reportable(generation', world')
        /\ Sendable(generation, world, record) \subseteq Sendable(generation', world', record)
    BY <2>1, GrowsAll
  <2>3. /\ reports \in Seq(Reportable(generation', world'))
        /\ wire \in Seq(Sendable(generation', world', record))
        /\ backlog \in Seq(Sendable(generation', world', record))
        /\ inbox \in Seq(Queueable(generation', world'))
    BY <1>1, <2>2, SeqMonotonic DEF Typed
  <2>4. /\ publications \in Tables(generation', world') /\ remote \in Tables(generation', world')
        /\ assembly \in Parts(generation', world')
    BY <1>1, <2>2 DEF Typed
  <2> QED BY <1>1, <1>2, <2>3, <2>4 DEF Typed
<1>4. InOrder'
  BY <1>1, <1>2 DEF InOrder, Stream
<1>5. IdleReports'
  BY <1>1, <1>2 DEF IdleReports
<1>6. ASSUME TableTrue PROVE TableTrue'
  <2>1. Expected' = Expected
    BY <1>2 DEF Expected, Copy
  <2>2. Published' = Published
    BY <1>2 DEF Published
  <2>3. Live' <=> Live
    BY <1>2 DEF Live
  <2> QED BY <1>6, <2>1, <2>2, <2>3 DEF TableTrue
<1> QED BY <1>3, <1>4, <1>5, <1>6 DEF Sound

LEMMA SimulationStep ==
  ASSUME Sound, NEW newWorld, NEW newGeneration, NEW newPlace, Simulation(newWorld, newGeneration, newPlace),
         UNCHANGED clientVars, newGeneration \in [Chunks -> Nat], Grounded(newGeneration, newWorld),
         Grows(generation, world, newGeneration, newWorld), newPlace \in Places
  PROVE  Sound' /\ (TableTrue => TableTrue')
<1>1. /\ world' = newWorld /\ generation' = newGeneration /\ place' = newPlace
      /\ UNCHANGED <<host, phase, record, subscribed, publications, reports, sequence,
                     backlog, wire, online>>
  BY DEF Simulation
<1>2. generation' \in [Chunks -> Nat] /\ Grounded(generation', world') /\ place' \in Places
      /\ Grows(generation, world, generation', world')
  BY <1>1
<1> QED BY <1>1, <1>2, SimulationSound

LEMMA LoadSound ==
  ASSUME Sound, NEW c \in Chunks, Load(c), UNCHANGED clientVars
  PROVE  Sound' /\ (TableTrue => TableTrue')
<1> DEFINE w == Put(world, c, Version(generation[c] + 1, 1))
           g == [generation EXCEPT ![c] = @ + 1]
<1>1. c \notin DOMAIN world /\ Simulation(w, g, place)
  BY DEF Load
<1>2. generation \in [Chunks -> Nat] /\ Grounded(generation, world) /\ place \in Places
  BY DEF Sound, Typed
<1>3. g \in [Chunks -> Nat] /\ Grounded(g, w) /\ Grows(generation, world, g, w)
  BY <1>1, <1>2, LoadGrows
<1> HIDE DEF w, g
<1> QED BY <1>1, <1>2, <1>3, SimulationStep

LEMMA UnloadSound ==
  ASSUME Sound, NEW c \in Chunks, Unload(c), UNCHANGED clientVars
  PROVE  Sound' /\ (TableTrue => TableTrue')
<1> DEFINE w == Restrict(world, DOMAIN world \ {c})
<1>1. Simulation(w, generation, place)
  BY DEF Unload
<1>2. generation \in [Chunks -> Nat] /\ Grounded(generation, world) /\ place \in Places
  BY DEF Sound, Typed
<1>3. Grounded(generation, w) /\ Grows(generation, world, generation, w)
  BY <1>2, UnloadGrows
<1> HIDE DEF w
<1> QED BY <1>1, <1>2, <1>3, SimulationStep

LEMMA RelightSound ==
  ASSUME Sound, NEW c \in Chunks, Relight(c), UNCHANGED clientVars
  PROVE  Sound' /\ (TableTrue => TableTrue')
<1> DEFINE w == [world EXCEPT ![c] = Advanced(@)]
<1>1. c \in DOMAIN world /\ Simulation(w, generation, place)
  BY DEF Relight
<1>2. generation \in [Chunks -> Nat] /\ Grounded(generation, world) /\ place \in Places
  BY DEF Sound, Typed
<1>3. Grounded(generation, w) /\ Grows(generation, world, generation, w)
  BY <1>1, <1>2, AdvanceGrows
<1> HIDE DEF w
<1> QED BY <1>1, <1>2, <1>3, SimulationStep

LEMMA MoveSound ==
  ASSUME Sound, NEW p \in Places, Move(p), UNCHANGED clientVars
  PROVE  Sound' /\ (TableTrue => TableTrue')
<1>1. Simulation(world, generation, p)
  BY DEF Move
<1>2. generation \in [Chunks -> Nat] /\ Grounded(generation, world)
  BY DEF Sound, Typed
<1> QED BY <1>1, <1>2, GrowsSame, SimulationStep
--------------------------------------------------------------------------------
(* The commands of a tick *)

\* A connection that is up.
Up(on) == on
Down == FALSE

Node(w, r, q, reported, on, queued) ==
  [world |-> w, record |-> r, sequence |-> q, reports |-> reported, online |-> on, backlog |-> queued]

LEMMA DeliveredFits ==
  ASSUME NEW w, NEW r, NEW q, NEW a, NEW on, NEW b, NEW m, Len(b) < MaxBacklog
  PROVE  Deliver(Node(w, r, q, a, on, b), m) = Node(w, r, q, Append(a, m), on, Append(b, m))
<1> DEFINE s == Node(w, r, q, a, on, b)
           a1 == Append(a, m)
           b1 == Append(b, m)
<1>1. s = [world |-> w, record |-> r, sequence |-> q, reports |-> a, online |-> on, backlog |-> b]
      /\ s.backlog = b /\ s.reports = a
  BY DEF Node
<1>2. Deliver(s, m) = [s EXCEPT !.backlog = b1, !.reports = a1]
  BY <1>1 DEF Deliver
<1> HIDE DEF s, a1, b1
<1> DEFINE y == [s EXCEPT !.backlog = b1]
<1>3. y = Node(w, r, q, a, on, b1)
  BY <1>1 DEF Node
<1>4. [y EXCEPT !.reports = a1] = [s EXCEPT !.backlog = b1, !.reports = a1]
  OBVIOUS
<1> HIDE DEF y
<1>5. [y EXCEPT !.reports = a1] = Node(w, r, q, a1, on, b1)
  BY <1>3 DEF Node
<1> QED BY <1>2, <1>4, <1>5 DEF s, a1, b1

LEMMA DeliveredDrops ==
  ASSUME NEW w, NEW r, NEW q, NEW a, NEW on, NEW b, NEW m, ~(Len(b) < MaxBacklog)
  PROVE  Deliver(Node(w, r, q, a, on, b), m) = Node(w, r, q, <<>>, Down, <<>>)
<1> DEFINE s == Node(w, r, q, a, on, b)
           none == <<>>
           off == Down
<1>1. s = [world |-> w, record |-> r, sequence |-> q, reports |-> a, online |-> on, backlog |-> b]
      /\ s.backlog = b /\ s.reports = a
  BY DEF Node
<1>2. Deliver(s, m) = [s EXCEPT !.backlog = none, !.reports = none, !.online = off]
  BY <1>1 DEF Deliver, Down
<1> HIDE DEF s, none, off
<1> DEFINE y == [s EXCEPT !.backlog = none]
           z == [y EXCEPT !.reports = none]
<1>3. y = Node(w, r, q, a, on, none)
  BY <1>1 DEF Node
<1>4. [z EXCEPT !.online = off] = [s EXCEPT !.backlog = none, !.reports = none, !.online = off]
  OBVIOUS
<1> HIDE DEF y
<1>5. z = Node(w, r, q, none, on, none)
  BY <1>3 DEF Node
<1> HIDE DEF z
<1>6. [z EXCEPT !.online = off] = Node(w, r, q, none, off, none)
  BY <1>5 DEF Node
<1> QED BY <1>2, <1>4, <1>6 DEF s, none, off

LEMMA ExecutedRecord ==
  ASSUME NEW w, NEW r, NEW q, NEW a, NEW on, NEW b
  PROVE  /\ Up(on) => Execute(Node(w, r, q, a, on, b), "record")
                         = Deliver(Node(w, r + 1, q + 1, a, on, b), RecordBatch(q + 1))
         /\ ~Up(on) => Execute(Node(w, r, q, a, on, b), "record") = Node(w, r + 1, q + 1, a, on, b)
<1> DEFINE s == Node(w, r, q, a, on, b)
           next == [s EXCEPT !.sequence = q + 1]
           counted == [next EXCEPT !.record = @ + 1]
<1>1. s = [world |-> w, record |-> r, sequence |-> q, reports |-> a, online |-> on, backlog |-> b]
      /\ s.sequence = q
  BY DEF Node
<1>2. next = [world |-> w, record |-> r, sequence |-> q + 1, reports |-> a, online |-> on, backlog |-> b]
  BY <1>1
<1>3. counted = Node(w, r + 1, q + 1, a, on, b)
  <2> HIDE DEF next
  <2> QED BY <1>2 DEF Node
<1>4. Execute(s, "record") = IF s.online THEN Deliver(counted, RecordBatch(q + 1)) ELSE counted
  BY <1>1 DEF Execute
<1>5. s.online <=> Up(on)
  BY <1>1 DEF Up
<1> HIDE DEF next, counted, s
<1> QED BY <1>3, <1>4, <1>5 DEF s

LEMMA ExecutedEdit ==
  ASSUME NEW w, NEW r, NEW q, NEW a, NEW on, NEW b, NEW c \in DOMAIN w, c # "record",
         NEW z, z = [w EXCEPT ![c] = Advanced(@)]
  PROVE  /\ Up(on) /\ c \in Visible =>
              Execute(Node(w, r, q, a, on, b), c)
                = Deliver(Node(z, r, q + 1, a, on, b), VoxelBatch(q + 1, c, z[c]))
         /\ ~(Up(on) /\ c \in Visible) =>
              Execute(Node(w, r, q, a, on, b), c) = Node(z, r, q + 1, a, on, b)
<1> DEFINE s == Node(w, r, q, a, on, b)
           next == [s EXCEPT !.sequence = q + 1]
           edited == [next EXCEPT !.world[c] = Advanced(@)]
<1>1. s = [world |-> w, record |-> r, sequence |-> q, reports |-> a, online |-> on, backlog |-> b]
      /\ s.sequence = q /\ s.world = w
  BY DEF Node
<1>2. next = [world |-> w, record |-> r, sequence |-> q + 1, reports |-> a, online |-> on, backlog |-> b]
  BY <1>1
<1>3. edited = Node(z, r, q + 1, a, on, b) /\ edited.world = z
  <2> HIDE DEF next
  <2> QED BY <1>2 DEF Node
<1>4. Execute(s, c) = IF s.online /\ c \in Visible
                      THEN Deliver(edited, VoxelBatch(q + 1, c, edited.world[c])) ELSE edited
  BY <1>1 DEF Execute
<1>5. s.online <=> Up(on)
  BY <1>1 DEF Up
<1> HIDE DEF next, edited, s
<1> QED BY <1>3, <1>4, <1>5 DEF s

LEMMA ExecutedNothing ==
  ASSUME NEW w, NEW r, NEW q, NEW a, NEW on, NEW b, NEW c, c \notin DOMAIN w, c # "record"
  PROVE  Execute(Node(w, r, q, a, on, b), c) = Node(w, r, q, a, on, b)
<1> DEFINE s == Node(w, r, q, a, on, b)
<1>1. s.world = w
  BY DEF Node
<1> HIDE DEF s
<1>2. c \notin DOMAIN s.world
  BY <1>1
<1>3. Execute(s, c) = s
  BY <1>2 DEF Execute
<1> QED BY <1>3 DEF s
\* After some commands: the batches are what the table advances with, from the copy x
\* that the client has after everything sent before.
Advances(w, a, x) == /\ Taken(x, a).error = "none"
                     /\ Taken(x, a).remote = PublishedAfter(publications, a)
                     /\ \A c \in Visible : c \in DOMAIN w /\ PublishedAfter(publications, a)[c] = w[c]

Agreed(x) == x.error = "none" /\ x.remote = publications

Progress(w, r, a, on, b, rest, x) ==
  /\ Grounded(generation, w) /\ Grows(generation, world, generation, w)
  /\ record \in Nat /\ r \in Nat /\ record <= r
  /\ a \in Seq(Reportable(generation, w))
  /\ b \in Seq(Sendable(generation, w, r)) /\ Len(b) <= MaxBacklog
  /\ b = rest \o a \/ b = <<>>
  /\ Up(on) => Up(online) /\ b = rest \o a /\ (Agreed(x) => Advances(w, a, x))

LEMMA RunDropped ==
  ASSUME NEW w, Grounded(generation, w), Grows(generation, world, generation, w),
         record \in Nat, NEW r \in Nat, record <= r, NEW rest, NEW x
  PROVE  Progress(w, r, <<>>, Down, <<>>, rest, x)
<1> DEFINE none == <<>>
<1>1. none \in Seq(Reportable(generation, w)) /\ none \in Seq(Sendable(generation, w, r)) /\ Len(none) <= MaxBacklog
  BY PolicyValid
<1>2. none = <<>> /\ ~Up(Down)
  BY DEF Up, Down
<1> HIDE DEF none
<1>3. Progress(w, r, none, Down, none, rest, x)
  BY <1>1, <1>2 DEF Progress
<1> QED BY <1>2, <1>3

LEMMA RunQuiet ==
  ASSUME NEW w, NEW z, NEW r, NEW q \in Nat, NEW a, NEW on, NEW b, NEW rest, NEW x,
         Progress(w, r, a, on, b, rest, x),
         Grounded(generation, z), Grows(generation, w, generation, z), r <= q,
         Up(on) /\ Advances(w, a, x) => Advances(z, a, x)
  PROVE  Progress(z, q, a, on, b, rest, x)
<1>1. /\ Grounded(generation, w) /\ Grows(generation, world, generation, w)
      /\ record \in Nat /\ r \in Nat /\ record <= r
      /\ a \in Seq(Reportable(generation, w))
      /\ b \in Seq(Sendable(generation, w, r)) /\ Len(b) <= MaxBacklog
      /\ b = rest \o a \/ b = <<>>
  BY DEF Progress
<1>2. Up(on) => Up(online) /\ b = rest \o a /\ (Agreed(x) => Advances(w, a, x))
  BY DEF Progress
<1>3. Grows(generation, world, generation, z)
  BY <1>1, GrowsOrder
<1>4. Reportable(generation, w) \subseteq Reportable(generation, z)
      /\ Sendable(generation, w, r) \subseteq Sendable(generation, z, q)
  BY <1>1, GrowsAll
<1>5. a \in Seq(Reportable(generation, z)) /\ b \in Seq(Sendable(generation, z, q))
  BY <1>1, <1>4, SeqMonotonic
<1>6. Up(on) => Up(online) /\ b = rest \o a /\ (Agreed(x) => Advances(z, a, x))
  BY <1>2
<1>7. record <= q
  <2>1. record \in Nat /\ record <= r /\ r <= q /\ r \in Nat
    BY <1>1
  <2> QED BY <2>1
<1> QED BY <1>1, <1>3, <1>5, <1>6, <1>7 DEF Progress

LEMMA RunReported ==
  ASSUME NEW w, NEW z, NEW r, NEW q \in Nat, NEW a, NEW on, NEW b, NEW x,
         NEW rest \in Seq(Sendable(generation, world, record)), Up(on), Progress(w, r, a, on, b, rest, x), Len(b) < MaxBacklog,
         Grounded(generation, z), Grows(generation, w, generation, z), r <= q,
         NEW m \in Reportable(generation, z),
         Agreed(x) /\ Advances(w, a, x) => Advances(z, Append(a, m), x)
  PROVE  Progress(z, q, Append(a, m), on, Append(b, m), rest, x)
<1>1. /\ Grounded(generation, w) /\ Grows(generation, world, generation, w)
      /\ record \in Nat /\ r \in Nat /\ record <= r
      /\ a \in Seq(Reportable(generation, w))
      /\ b \in Seq(Sendable(generation, w, r)) /\ Len(b) <= MaxBacklog
      /\ Up(online) /\ b = rest \o a /\ (Agreed(x) => Advances(w, a, x))
  BY DEF Progress
<1>2. Grows(generation, world, generation, z)
  BY <1>1, GrowsOrder
<1>3. Reportable(generation, w) \subseteq Reportable(generation, z)
      /\ Sendable(generation, w, r) \subseteq Sendable(generation, z, q)
      /\ Reportable(generation, z) \subseteq Sendable(generation, z, q)
  BY <1>1, GrowsAll DEF Sendable
<1> DEFINE a1 == Append(a, m)
           b1 == Append(b, m)
<1>4. a1 \in Seq(Reportable(generation, z)) /\ b1 \in Seq(Sendable(generation, z, q))
  <2>1. a \in Seq(Reportable(generation, z)) /\ b \in Seq(Sendable(generation, z, q))
    BY <1>1, <1>3, SeqMonotonic
  <2> QED BY <1>3, <2>1
<1>5. Len(b1) <= MaxBacklog
  <2>1. Len(b) \in Nat /\ MaxBacklog \in Nat /\ Len(b1) = Len(b) + 1
    BY <1>1, PolicyValid
  <2> HIDE DEF b1
  <2> QED BY <2>1
<1>8. record <= q
  <2>1. record \in Nat /\ record <= r /\ r <= q /\ r \in Nat
    BY <1>1
  <2> QED BY <2>1
<1>6. b1 = rest \o a1
  <2> DEFINE S == Sendable(generation, z, q)
             one == <<m>>
  <2>1. record <= q
    BY <1>8
  <2>2. record \in Nat
    BY <1>1
  <2>3. Sendable(generation, world, record) \subseteq S
    BY <1>2, <2>1, <2>2, GrowsAll
  <2>4. rest \in Seq(S) /\ a \in Seq(S) /\ m \in S /\ one \in Seq(S)
    BY <1>1, <1>3, <2>3, SeqMonotonic
  <2>5. a1 = a \o one /\ b1 = b \o one
    BY <1>1, <2>4, AppendIsConcat
  <2> HIDE DEF S, one, a1, b1
  <2>6. (rest \o a) \o one = rest \o (a \o one)
    BY <2>4, ConcatAssociative
  <2> QED BY <1>1, <2>5, <2>6
<1> HIDE DEF a1, b1
<1>7. Agreed(x) => Advances(z, a1, x)
  BY <1>1 DEF a1
<1>9. Progress(z, q, a1, on, b1, rest, x)
  BY <1>1, <1>2, <1>4, <1>5, <1>6, <1>7, <1>8 DEF Progress
<1> QED BY <1>9 DEF a1, b1
\* The batch of a visible chunk is the next revision of the table, and of the copy.
LEMMA VoxelAdvances ==
  ASSUME publications \in Tables(generation, world), NEW x \in Copies(generation, world),
         NEW w, NEW z, Grounded(generation, w), Grows(generation, world, generation, w),
         Grounded(generation, z), Grows(generation, w, generation, z), DOMAIN z = DOMAIN w,
         NEW a \in Seq(Reportable(generation, w)), NEW c \in Visible, c \in DOMAIN w,
         NEW m \in EditMsgs(generation, z), m.chunk = c, m.version = Advanced(w[c]), z[c] = Advanced(w[c]),
         \A d \in DOMAIN w : d # c => z[d] = w[d], Advances(w, a, x)
  PROVE  Advances(z, Append(a, m), x)
<1> DEFINE g == generation
           F == PublishedAfter(publications, a)
           Y == Taken(x, a)
<1>1. Grows(g, world, g, z)
  BY GrowsOrder
<1>2. 0 \in Nat /\ 0 <= 0
  OBVIOUS
<1>3. publications \in Tables(g, z) /\ x \in Copies(g, z)
  <2>1. /\ Tables(g, world) \subseteq Tables(g, z) /\ Parts(g, world) \subseteq Parts(g, z)
    BY <1>1, <1>2, GrowsAll
  <2> QED BY <2>1 DEF Copies
<1>4. Reportable(g, w) \subseteq Reportable(g, z) /\ Reportable(g, z) \subseteq Sendable(g, z, 0)
  BY <1>2, GrowsAll DEF Sendable
<1>5. a \in Seq(Reportable(g, z)) /\ a \in Seq(Sendable(g, z, 0))
  <2>1. a \in Seq(Reportable(g, z))
    BY <1>4, SeqMonotonic
  <2> QED BY <1>4, <2>1, SeqMonotonic
<1>6. m \in Reportable(g, z) /\ m \in Sendable(g, z, 0)
  BY <1>4 DEF Reportable
<1>7. /\ Y.error = "none" /\ Y.remote = F
      /\ \A d \in Visible : d \in DOMAIN w /\ F[d] = w[d]
  BY DEF Advances
<1>8. F \in Tables(g, z) /\ DOMAIN F = DOMAIN publications
  BY <1>3, <1>5, PublishedFacts
<1>9. Y \in Copies(g, z)
  BY <1>3, <1>5, TakenStays
<1>10. Taken(x, Append(a, m)) = Take(Y, m)
  BY <1>3, <1>5, <1>6, TakenAppend
<1>11. PublishedAfter(publications, Append(a, m)) = AdvancePublication(F, m)
  BY <1>3, <1>5, <1>6, PublishedAppend
<1>12. c \in DOMAIN F /\ F[c] = w[c]
  BY <1>7, <1>8 DEF Visible
<1>13. m.chunk \in DOMAIN Y.remote /\ Advanced(Y.remote[m.chunk]) = m.version
  BY <1>7, <1>12
<1> HIDE DEF F, Y
<1>14. /\ Take(Y, m).error = "none" /\ Take(Y, m).remote = AdvancePublication(Y.remote, m)
       /\ AdvancePublication(Y.remote, m) = Put(Y.remote, m.chunk, m.version)
  BY <1>7, <1>9, <1>13, EditAdvances
<1>15. ASSUME NEW d \in Visible PROVE d \in DOMAIN z /\ Put(F, m.chunk, m.version)[d] = z[d]
  <2>1. d \in DOMAIN w /\ F[d] = w[d] /\ d \in DOMAIN F
    BY <1>7, <1>8 DEF Visible
  <2>2. Put(F, m.chunk, m.version)[d] = IF d = m.chunk THEN m.version ELSE F[d]
    BY <2>1 DEF Put
  <2> QED BY <2>1, <2>2
<1> QED BY <1>7, <1>10, <1>11, <1>14, <1>15 DEF Advances

LEMMA RecordAdvances ==
  ASSUME publications \in Tables(generation, world), NEW x \in Copies(generation, world),
         NEW w, Grounded(generation, w), Grows(generation, world, generation, w),
         NEW a \in Seq(Reportable(generation, w)), NEW m \in RecordMsgs, Advances(w, a, x)
  PROVE  Advances(w, Append(a, m), x)
<1> DEFINE g == generation
           F == PublishedAfter(publications, a)
           Y == Taken(x, a)
<1>1. 0 \in Nat /\ 0 <= 0
  OBVIOUS
<1>2. publications \in Tables(g, w) /\ x \in Copies(g, w)
  <2>1. /\ Tables(g, world) \subseteq Tables(g, w) /\ Parts(g, world) \subseteq Parts(g, w)
    BY <1>1, GrowsAll
  <2> QED BY <2>1 DEF Copies
<1>3. Reportable(g, w) \subseteq Sendable(g, w, 0) /\ m \in Reportable(g, w)
  BY DEF Sendable, Reportable
<1>4. a \in Seq(Sendable(g, w, 0)) /\ m \in Sendable(g, w, 0)
  BY <1>3, SeqMonotonic
<1>5. F \in Tables(g, w)
  BY <1>2, PublishedFacts
<1>6. Taken(x, Append(a, m)) = Take(Y, m)
  BY <1>2, <1>4, TakenAppend
<1>7. PublishedAfter(publications, Append(a, m)) = AdvancePublication(F, m)
  BY <1>2, <1>3, PublishedAppend
<1> HIDE DEF F, Y
<1>8. AdvancePublication(F, m) = F
  BY <1>3, <1>5, AdvanceFacts
<1>9. Take(Y, m) = Y
  BY TakeOthers
<1> QED BY <1>6, <1>7, <1>8, <1>9 DEF Advances, F, Y
Continues(s, on, rest, x) ==
  \E w, r, a, b : \E q \in Nat : \E up \in {on, Down} :
    s = Node(w, r, q, a, up, b) /\ Progress(w, r, a, up, b, rest, x)

LEMMA RunDelivered ==
  ASSUME NEW w, NEW z, NEW r, NEW q \in Nat, NEW n \in Nat, NEW a, NEW on, NEW b, NEW x,
         NEW rest \in Seq(Sendable(generation, world, record)), Up(on), Progress(w, r, a, on, b, rest, x),
         Grounded(generation, z), Grows(generation, w, generation, z), r <= q,
         NEW m \in Reportable(generation, z),
         Agreed(x) /\ Advances(w, a, x) => Advances(z, Append(a, m), x)
  PROVE  Continues(Deliver(Node(z, q, n, a, on, b), m), on, rest, x)
<1>1. CASE Len(b) < MaxBacklog
  <2>1. Deliver(Node(z, q, n, a, on, b), m) = Node(z, q, n, Append(a, m), on, Append(b, m))
    BY <1>1, DeliveredFits
  <2>2. Progress(z, q, Append(a, m), on, Append(b, m), rest, x)
    BY <1>1, RunReported
  <2> QED BY <2>1, <2>2 DEF Continues
<1>2. CASE ~(Len(b) < MaxBacklog)
  <2>1. Deliver(Node(z, q, n, a, on, b), m) = Node(z, q, n, <<>>, Down, <<>>)
    BY <1>2, DeliveredDrops
  <2>2. /\ Grows(generation, world, generation, w) /\ record \in Nat /\ r \in Nat /\ record <= r
    BY DEF Progress
  <2>3. Grows(generation, world, generation, z)
    BY <2>2, GrowsOrder
  <2>4. record <= q
    BY <2>2
  <2>5. Progress(z, q, <<>>, Down, <<>>, rest, x)
    BY <2>2, <2>3, <2>4, RunDropped
  <2> QED BY <2>1, <2>5 DEF Continues
<1> QED BY <1>1, <1>2

\* Every command keeps the batches in step with the world.
LEMMA ExecuteProgress ==
  ASSUME publications \in Tables(generation, world), NEW x \in Copies(generation, world),
         NEW rest \in Seq(Sendable(generation, world, record)),
         NEW w, NEW r, NEW q \in Nat, NEW a, NEW on, NEW b, Progress(w, r, a, on, b, rest, x), NEW command
  PROVE  Continues(Execute(Node(w, r, q, a, on, b), command), on, rest, x)
<1> DEFINE g == generation
           s == Node(w, r, q, a, on, b)
           w1 == [w EXCEPT ![command] = Advanced(@)]
<1>1. /\ Grounded(g, w) /\ Grows(g, world, g, w) /\ r \in Nat /\ a \in Seq(Reportable(g, w))
  BY DEF Progress
<1>2. r + 1 \in Nat /\ r <= r + 1 /\ r <= r /\ q + 1 \in Nat
  BY <1>1
<1>3. Grows(g, w, g, w)
  BY GrowsSame
<1>4. CASE command = "record" /\ Up(on)
  <2> DEFINE m == RecordBatch(q + 1)
  <2>1. m \in RecordMsgs
    BY <1>2 DEF RecordBatch, RecordMsgs
  <2> HIDE DEF m
  <2>2. m \in Reportable(g, w)
    BY <2>1 DEF Reportable
  <2>3. Advances(w, a, x) => Advances(w, Append(a, m), x)
    BY <1>1, <2>1, RecordAdvances
  <2>4. Continues(Deliver(Node(w, r + 1, q + 1, a, on, b), m), on, rest, x)
    BY <1>1, <1>2, <1>3, <1>4, <2>2, <2>3, RunDelivered
  <2>5. Execute(s, command) = Deliver(Node(w, r + 1, q + 1, a, on, b), m)
    BY <1>4, ExecutedRecord DEF m
  <2> QED BY <2>4, <2>5
<1>5. CASE command = "record" /\ ~Up(on)
  <2>1. Execute(s, command) = Node(w, r + 1, q + 1, a, on, b)
    BY <1>5, ExecutedRecord
  <2>2. Progress(w, r + 1, a, on, b, rest, x)
    BY <1>1, <1>2, <1>3, <1>5, RunQuiet
  <2> QED BY <1>2, <2>1, <2>2 DEF Continues
<1>6. CASE command # "record" /\ command \in DOMAIN w
  <2>1. /\ Grounded(g, w1) /\ Grows(g, w, g, w1) /\ DOMAIN w1 = DOMAIN w
        /\ w1[command] = Advanced(w[command])
        /\ \A d \in DOMAIN w : d # command => w1[d] = w[d]
        /\ Recent(g, w1, command, Advanced(w[command]))
        /\ Advanced(w[command]) \in Versions /\ command \in Chunks
    BY <1>1, <1>6, AdvanceGrows
  <2>2. CASE Up(on) /\ command \in Visible
    <3> DEFINE m == VoxelBatch(q + 1, command, w1[command])
    <3>1. Execute(s, command) = Deliver(Node(w1, r, q + 1, a, on, b), m)
      BY <1>6, <2>2, ExecutedEdit
    <3> HIDE DEF w1
    <3>2. m \in EditMsgs(g, w1) /\ m.chunk = command /\ m.version = Advanced(w[command])
      BY <1>2, <2>1 DEF VoxelBatch, EditMsgs
    <3> HIDE DEF m
    <3>3. m \in Reportable(g, w1)
      BY <3>2 DEF Reportable
    <3>4. Advances(w, a, x) => Advances(w1, Append(a, m), x)
      BY <1>1, <1>6, <2>1, <2>2, <3>2, VoxelAdvances
    <3>5. Continues(Deliver(Node(w1, r, q + 1, a, on, b), m), on, rest, x)
      BY <1>1, <1>2, <2>1, <2>2, <3>3, <3>4, RunDelivered
    <3> QED BY <3>1, <3>5
  <2>3. CASE ~(Up(on) /\ command \in Visible)
    <3>1. Execute(s, command) = Node(w1, r, q + 1, a, on, b)
      BY <1>6, <2>3, ExecutedEdit
    <3> HIDE DEF w1
    <3>2. ASSUME Up(on), Advances(w, a, x) PROVE Advances(w1, a, x)
      <4>1. \A c \in Visible : c # command
        BY <2>3, <3>2
      <4> QED BY <2>1, <3>2, <4>1 DEF Advances
    <3>3. Progress(w1, r, a, on, b, rest, x)
      BY <1>1, <1>2, <2>1, <3>2, RunQuiet
    <3> HIDE DEF s
    <3> QED BY <1>2, <3>1, <3>3 DEF Continues, s
  <2> QED BY <2>2, <2>3
<1>7. CASE command # "record" /\ command \notin DOMAIN w
  <2>1. Execute(s, command) = s
    BY <1>7, ExecutedNothing
  <2> QED BY <2>1 DEF Continues
<1> QED BY <1>4, <1>5, <1>6, <1>7

\* The states that the commands of a tick pass through.
Modes == {online, Down}
AnySent == UNION {Sendable(generation, w, r) : w \in TablesOf(Versions), r \in Nat}
Runs(rest, x) == {s \in [world : TablesOf(Versions), record : Nat, sequence : Nat, reports : Seq(AnySent),
                         online : Modes, backlog : Seq(AnySent)] :
                    Progress(s.world, s.record, s.reports, s.online, s.backlog, rest, x)}

LEMMA RunMember ==
  ASSUME NEW w, NEW r, NEW q \in Nat, NEW a, NEW on \in Modes, NEW b, NEW rest, NEW x,
         Progress(w, r, a, on, b, rest, x)
  PROVE  Node(w, r, q, a, on, b) \in Runs(rest, x)
<1>1. /\ w \in TablesOf(Versions) /\ r \in Nat
      /\ a \in Seq(Reportable(generation, w)) /\ b \in Seq(Sendable(generation, w, r))
  BY DEF Progress, Grounded
<1>2. Sendable(generation, w, r) \subseteq AnySent /\ Reportable(generation, w) \subseteq Sendable(generation, w, r)
  <2>1. Sendable(generation, w, r) \subseteq AnySent
    BY <1>1 DEF AnySent
  <2> QED BY <2>1 DEF Sendable
<1>3. a \in Seq(AnySent) /\ b \in Seq(AnySent)
  <2>1. Reportable(generation, w) \subseteq AnySent
    BY <1>2
  <2> QED BY <1>1, <1>2, <2>1, SeqMonotonic
<1> DEFINE s == Node(w, r, q, a, on, b)
<1>4. s.world = w /\ s.record = r /\ s.reports = a /\ s.backlog = b
  BY DEF Node
<1>5. s.online = on
  BY DEF Node
<1>6. s \in [world : TablesOf(Versions), record : Nat, sequence : Nat, reports : Seq(AnySent),
             online : Modes, backlog : Seq(AnySent)]
  BY <1>1, <1>3 DEF Node
<1> HIDE DEF s
<1>7. Progress(s.world, s.record, s.reports, s.online, s.backlog, rest, x)
  BY <1>4, <1>5
<1> QED BY <1>6, <1>7 DEF Runs, s

LEMMA RunNode ==
  ASSUME NEW rest, NEW x, NEW s \in Runs(rest, x)
  PROVE  /\ s = Node(s.world, s.record, s.sequence, s.reports, s.online, s.backlog)
         /\ s.sequence \in Nat /\ s.online \in Modes
         /\ Progress(s.world, s.record, s.reports, s.online, s.backlog, rest, x)
BY DEF Runs, Node
--------------------------------------------------------------------------------
(* The start of a tick *)

\* What is on its way to the client, of the type that the invariant gives it.
LEMMA WayFacts ==
  ASSUME Sound
  PROVE  /\ record \in Nat /\ Grounded(generation, world)
         /\ inbox \in Seq(Queueable(generation, world))
         /\ inbox \in Seq(Sendable(generation, world, record))
         /\ wire \in Seq(Sendable(generation, world, record))
         /\ backlog \in Seq(Sendable(generation, world, record))
         /\ inbox \o wire \in Seq(Sendable(generation, world, record))
         /\ (inbox \o wire) \o backlog \in Seq(Sendable(generation, world, record))
         /\ Expected = Taken(Copy, (inbox \o wire) \o backlog)
         /\ Copy \in Copies(generation, world) /\ Expected \in Copies(generation, world)
         /\ publications \in Tables(generation, world)
<1>1. Typed
  BY DEF Sound
<1>2. /\ record \in Nat /\ Grounded(generation, world)
      /\ inbox \in Seq(Queueable(generation, world))
      /\ wire \in Seq(Sendable(generation, world, record))
      /\ backlog \in Seq(Sendable(generation, world, record))
      /\ publications \in Tables(generation, world)
  BY <1>1 DEF Typed
<1>3. Queueable(generation, world) \subseteq Sendable(generation, world, record)
  BY DEF Sendable
<1>4. inbox \in Seq(Sendable(generation, world, record))
  BY <1>2, <1>3, SeqMonotonic
<1>5. inbox \o wire \in Seq(Sendable(generation, world, record))
  BY <1>2, <1>4, ConcatProperties
<1>6. (inbox \o wire) \o backlog \in Seq(Sendable(generation, world, record))
  BY <1>2, <1>5, ConcatProperties
<1>7. Copy \in Copies(generation, world)
  BY <1>1, CopyStays
<1>8. Expected = Taken(Copy, (inbox \o wire) \o backlog)
  BY DEF Expected
<1>9. Expected \in Copies(generation, world)
  BY <1>6, <1>7, <1>8, TakenStays
<1> QED BY <1>2, <1>4, <1>5, <1>6, <1>7, <1>8, <1>9

LEMMA CommandsFinite ==
  ASSUME NEW commands \in Commands
  PROVE  Len(commands) \in Nat
<1> DEFINE A == Chunks \cup {"record"}
<1>1. CASE commands = <<>>
  BY <1>1
<1>2. CASE \E a \in A : commands = <<a>>
  BY <1>2
<1>3. CASE commands \in A \X A
  <2>1. PICK a \in A, b \in A : commands = <<a, b>>
    BY <1>3
  <2> QED BY <2>1
<1> QED BY <1>1, <1>2, <1>3 DEF Commands

LEMMA CommandsRun ==
  ASSUME publications \in Tables(generation, world), NEW x \in Copies(generation, world),
         NEW rest \in Seq(Sendable(generation, world, record)),
         NEW base \in Runs(rest, x), NEW commands \in Commands
  PROVE  Fold(Execute, base, commands) \in Runs(rest, x)
<1> DEFINE S == Runs(rest, x)
<1>1. \A s \in S : \A i \in 1..Len(commands) : Execute(s, commands[i]) \in S
  <2> SUFFICES ASSUME NEW s \in S, NEW command PROVE Execute(s, command) \in S
    OBVIOUS
  <2>1. /\ s = Node(s.world, s.record, s.sequence, s.reports, s.online, s.backlog)
        /\ s.sequence \in Nat /\ s.online \in Modes
        /\ Progress(s.world, s.record, s.reports, s.online, s.backlog, rest, x)
    BY RunNode
  <2> DEFINE w == s.world
             r == s.record
             q == s.sequence
             a == s.reports
             on == s.online
             b == s.backlog
  <2> HIDE DEF w, r, q, a, on, b, S
  <2>2. s = Node(w, r, q, a, on, b) /\ q \in Nat /\ on \in Modes /\ Progress(w, r, a, on, b, rest, x)
    BY <2>1 DEF w, r, q, a, on, b
  <2>3. Continues(Execute(Node(w, r, q, a, on, b), command), on, rest, x)
    BY <2>2, ExecuteProgress
  <2>4. PICK w1, r1, a1, b1 : \E q1 \in Nat : \E up \in {on, Down} :
          /\ Execute(Node(w, r, q, a, on, b), command) = Node(w1, r1, q1, a1, up, b1)
          /\ Progress(w1, r1, a1, up, b1, rest, x)
    BY <2>3 DEF Continues
  <2>5. PICK q1 \in Nat : \E up \in {on, Down} :
          /\ Execute(Node(w, r, q, a, on, b), command) = Node(w1, r1, q1, a1, up, b1)
          /\ Progress(w1, r1, a1, up, b1, rest, x)
    BY <2>4
  <2>6. PICK up \in {on, Down} :
          /\ Execute(Node(w, r, q, a, on, b), command) = Node(w1, r1, q1, a1, up, b1)
          /\ Progress(w1, r1, a1, up, b1, rest, x)
    BY <2>5
  <2>7. up \in Modes
    BY <2>2 DEF Modes, Down
  <2>8. Node(w1, r1, q1, a1, up, b1) \in Runs(rest, x)
    BY <2>6, <2>7, RunMember
  <2> QED BY <2>2, <2>6, <2>8 DEF S
<1>2. Len(commands) \in Nat
  BY CommandsFinite
<1>3. PICK h \in [0..Len(commands) -> S] :
        Executing(h, base, commands) /\ Fold(Execute, base, commands) = h[Len(commands)]
  <2> HIDE DEF S
  <2>1. base \in S
    BY DEF S
  <2> QED BY <1>1, <1>2, <2>1, ExecutingSteps
<1> QED BY <1>2, <1>3

LEMMA RunStart ==
  ASSUME publications \in Tables(generation, world), NEW x \in Copies(generation, world),
         NEW rest \in Seq(Sendable(generation, world, record)), Len(rest) <= MaxBacklog,
         Grounded(generation, world), record \in Nat, sequence \in Nat
  PROVE  Node(world, record, sequence, <<>>, online, rest) \in Runs(rest, x)
<1> DEFINE none == <<>>
<1>1. none \in Seq(Reportable(generation, world)) /\ rest \o none = rest
  <2>1. none \in Seq(Reportable(generation, world))
    OBVIOUS
  <2> QED BY <2>1, ConcatEmptySeq
<1>2. Taken(x, none) = x /\ PublishedAfter(publications, none) = publications
  BY TakenEmpty, PublishedNothing
<1> HIDE DEF none
<1>3. Agreed(x) => Advances(world, none, x)
  BY <1>2 DEF Agreed, Advances, Visible
<1>4. record <= record
  OBVIOUS
<1>5. Progress(world, record, none, online, rest, rest, x)
  BY <1>1, <1>3, <1>4, GrowsSame DEF Progress
<1>6. online \in Modes
  BY DEF Modes
<1> QED BY <1>5, <1>6, RunMember DEF none
Joined(s, t, u) == (s \o t) \o u = s \o (t \o u)

LEMMA Association ==
  ASSUME NEW S, NEW s \in Seq(S), NEW t \in Seq(S), NEW u \in Seq(S)
  PROVE  Joined(s, t, u)
BY ConcatAssociative DEF Joined

Rejoined(w, u, p, t, i) ==
  /\ ((w \o u) \o p) \o t = w \o (u \o (p \o t))
  /\ (i \o ((w \o u) \o p)) \o t = (i \o w) \o (u \o (p \o t))

LEMMA Rejoin ==
  ASSUME NEW S, NEW w \in Seq(S), NEW u \in Seq(S), NEW p \in Seq(S), NEW t \in Seq(S), NEW i \in Seq(S)
  PROVE  Rejoined(w, u, p, t, i)
<1> DEFINE wu == w \o u
           wup == wu \o p
           v == p \o t
           uv == u \o v
<1>1. wu \in Seq(S) /\ v \in Seq(S)
  BY ConcatProperties
<1> HIDE DEF wu, v
<1>2. wup \in Seq(S) /\ uv \in Seq(S)
  BY <1>1, ConcatProperties
<1> HIDE DEF wup, uv
<1>3. Joined(wu, p, t) /\ Joined(w, u, v) /\ Joined(i, wup, t) /\ Joined(i, w, uv)
  BY <1>1, <1>2, Association
<1>4. wup \o t = wu \o v
  BY <1>3 DEF Joined, wup, v
<1>5. wu \o v = w \o uv
  BY <1>3 DEF Joined, wu, uv
<1>6. (i \o wup) \o t = i \o (wup \o t)
  BY <1>3 DEF Joined
<1>7. (i \o w) \o uv = i \o (w \o uv)
  BY <1>3 DEF Joined
<1> QED BY <1>4, <1>5, <1>6, <1>7 DEF Rejoined, wu, wup, v, uv

LEMMA ReportsLate ==
  ASSUME NEW g, NEW w, NEW r, NEW a \in Seq(Reportable(g, w))
  PROVE  a \in Seq(LateMsgs(g, w, r))
<1>1. Reportable(g, w) \subseteq LateMsgs(g, w, r)
  <2> SUFFICES ASSUME NEW m \in Reportable(g, w) PROVE m \in LateMsgs(g, w, r)
    OBVIOUS
  <2>1. m.kind = "batch"
    BY DEF Reportable, EditMsgs, RecordMsgs
  <2>2. m \in Sendable(g, w, r)
    BY DEF Sendable
  <2> QED BY <2>1, <2>2 DEF LateMsgs
<1> QED BY <1>1, SeqMonotonic

\* The start of a tick: every batch that is queued is the next that the table and the
\* client expect.
LEMMA GatewaySound ==
  ASSUME Sound, NEW n \in 0..Len(backlog), NEW commands \in Commands, Gateway(n, commands),
         UNCHANGED clientVars
  PROVE  Sound' /\ (TableTrue => TableTrue')
<1> DEFINE pre == SubSeq(backlog, 1, n)
           rest == SubSeq(backlog, n + 1, Len(backlog))
           x == Expected
           base == Node(world, record, sequence, <<>>, online, rest)
           z == Fold(Execute, base, commands)
           W == z.world
           R == z.record
           a == z.reports
           S == Sendable(generation, W, R)
<1>1. Typed /\ InOrder /\ IdleReports
  BY DEF Sound
<1>2. /\ record \in Nat /\ Grounded(generation, world) /\ sequence \in Nat /\ Len(backlog) <= MaxBacklog
      /\ Len(backlog) \in Nat
      /\ backlog \in Seq(Sendable(generation, world, record))
      /\ x \in Copies(generation, world) /\ publications \in Tables(generation, world)
  BY <1>1, WayFacts DEF Typed
<1>3. /\ pre \in Seq(Sendable(generation, world, record)) /\ rest \in Seq(Sendable(generation, world, record))
      /\ Len(rest) = Len(backlog) - n /\ pre \o rest = backlog
  BY <1>2, Split
<1>4. base \in Runs(rest, x)
  <2> HIDE DEF rest, x
  <2>1. Len(rest) <= MaxBacklog
    BY <1>2, <1>3, PolicyValid
  <2> QED BY <1>2, <1>3, <2>1, RunStart
<1>5. z \in Runs(rest, x)
  <2> HIDE DEF rest, x, base
  <2> QED BY <1>2, <1>3, <1>4, CommandsRun
<1>6. /\ host' = host /\ phase = "idle" /\ phase' = "simulation" /\ generation' = generation /\ place' = place
      /\ world' = W /\ record' = R /\ sequence' = z.sequence /\ online' = z.online /\ reports' = a
      /\ subscribed' = IF z.online THEN subscribed ELSE {}
      /\ publications' = IF z.online THEN publications ELSE <<>>
      /\ \E m \in 0..Len(z.backlog) :
            /\ wire' = (wire \o pre) \o SubSeq(z.backlog, 1, m)
            /\ backlog' = SubSeq(z.backlog, m + 1, Len(z.backlog))
  <2>1. base = [world |-> world, record |-> record, sequence |-> sequence, reports |-> <<>>,
                online |-> online, backlog |-> rest]
    BY DEF Node
  <2> QED BY <2>1 DEF Gateway
<1>7. UNCHANGED <<client, inbox, remote, assembly, held>>
  BY DEF clientVars
<1> HIDE DEF base
<1>8. z.sequence \in Nat /\ Progress(W, R, a, z.online, z.backlog, rest, x)
  BY <1>5, RunNode
<1> HIDE DEF z
<1> DEFINE b == z.backlog
           on == z.online
<1>9. Progress(W, R, a, on, b, rest, x)
  BY <1>8
<1>10. on' = on' /\ online' = on
  BY <1>6
<1> HIDE DEF b, on
<1>11. PICK m \in 0..Len(b) : wire' = (wire \o pre) \o SubSeq(b, 1, m) /\ backlog' = SubSeq(b, m + 1, Len(b))
  BY <1>6 DEF b
<1> DEFINE p == SubSeq(b, 1, m)
           t == SubSeq(b, m + 1, Len(b))
<1>12. wire' = (wire \o pre) \o p /\ backlog' = t
  BY <1>11
<1>13. /\ Grounded(generation, W) /\ Grows(generation, world, generation, W)
       /\ R \in Nat /\ record <= R
       /\ a \in Seq(Reportable(generation, W))
       /\ b \in Seq(S) /\ Len(b) <= MaxBacklog /\ Len(b) \in Nat
       /\ b = rest \o a \/ b = <<>>
       /\ Up(on) => Up(online) /\ b = rest \o a /\ (Agreed(x) => Advances(W, a, x))
  <2> HIDE DEF W, R, a, rest, x
  <2> QED BY <1>9 DEF Progress, S
<1>14. /\ p \in Seq(S) /\ t \in Seq(S) /\ Len(t) = Len(b) - m /\ p \o t = b
  <2> HIDE DEF S
  <2>1. b \in Seq(S) /\ m \in 0..Len(b)
    BY <1>11, <1>13
  <2> QED BY <2>1, Split
<1>15. Len(t) <= MaxBacklog
  BY <1>13, <1>14, PolicyValid
<1> HIDE DEF x, W, R, a, pre, rest
<1>16. /\ Tables(generation, world) \subseteq Tables(generation, W)
       /\ Parts(generation, world) \subseteq Parts(generation, W)
       /\ Queueable(generation, world) \subseteq Queueable(generation, W)
       /\ Sendable(generation, world, record) \subseteq S
  BY <1>2, <1>13, GrowsAll
<1>17. wire \in Seq(S) /\ pre \in Seq(S) /\ rest \in Seq(S) /\ backlog \in Seq(S) /\ inbox \in Seq(S)
  BY <1>3, <1>16, SeqMonotonic, WayFacts
<1>18. a \in Seq(S)
  <2>1. Reportable(generation, W) \subseteq S
    BY DEF Sendable
  <2> QED BY <1>13, <2>1, SeqMonotonic
<1>19. /\ wire' \o backlog' = wire \o (pre \o b)
       /\ (inbox \o wire') \o backlog' = (inbox \o wire) \o (pre \o b)
  <2> HIDE DEF S, p, t
  <2>1. Rejoined(wire, pre, p, t, inbox)
    BY <1>14, <1>17, Rejoin
  <2> QED BY <1>12, <1>14, <2>1 DEF Rejoined
<1>20. wire' \in Seq(S) /\ backlog' \in Seq(S)
  <2> HIDE DEF S, p, t
  <2>1. wire \o pre \in Seq(S)
    BY <1>17, ConcatProperties
  <2>2. (wire \o pre) \o p \in Seq(S)
    BY <1>14, <2>1, ConcatProperties
  <2> QED BY <1>12, <1>14, <2>2
<1> HIDE DEF S, p, t
<1>21. b = rest \o a => pre \o b = backlog \o a
  <2>1. Joined(pre, rest, a)
    BY <1>17, <1>18, Association
  <2> QED BY <1>3, <2>1 DEF Joined
<1>22. Orderly(wire \o backlog)
  BY <1>1 DEF InOrder, Stream
<1>23. InOrder'
  <2>1. CASE b = rest \o a
    <3> DEFINE q == wire \o backlog
    <3>1. wire \o (pre \o b) = q \o a
      <4>1. Joined(wire, backlog, a)
        BY <1>17, <1>18, Association
      <4> QED BY <1>21, <2>1, <4>1 DEF Joined
    <3>2. a \in Seq(LateMsgs(generation, W, R))
      BY <1>13, ReportsLate
    <3>3. q \in Seq(S)
      BY <1>17, ConcatProperties
    <3>4. Orderly(q)
      BY <1>22
    <3> HIDE DEF q
    <3>5. Orderly(q \o a)
      BY <1>13, <3>2, <3>3, <3>4, OrderlyLate DEF S
    <3> QED BY <1>19, <3>1, <3>5 DEF InOrder, Stream
  <2>2. CASE b = <<>>
    <3> DEFINE q == wire \o pre
    <3>1. pre \o b = pre
      BY <1>17, <2>2, ConcatEmptySeq
    <3>2. wire \o backlog = q \o rest
      <4>1. Joined(wire, pre, rest)
        BY <1>17, Association
      <4> QED BY <1>3, <4>1 DEF Joined
    <3>3. q \in Seq(S)
      BY <1>17, ConcatProperties
    <3>4. Orderly(q)
      <4> HIDE DEF q
      <4> QED BY <1>17, <1>22, <3>2, <3>3, OrderlyConcat
    <3> QED BY <1>19, <3>1, <3>4 DEF InOrder, Stream
  <2> QED BY <1>13, <2>1, <2>2
<1>24. Typed'
  <2>1. publications' \in Tables(generation, W) /\ DOMAIN publications' \subseteq subscribed'
        /\ subscribed' \subseteq Chunks /\ Cardinality(subscribed') <= MaxSubscribed
    <3>1. CASE z.online
      <4>1. publications' = publications /\ subscribed' = subscribed
        BY <1>6, <3>1
      <4> QED BY <1>1, <1>2, <1>16, <4>1 DEF Typed
    <3>2. CASE ~z.online
      <4>1. publications' = <<>> /\ subscribed' = {}
        BY <1>6, <3>2
      <4>2. <<>> \in Tables(generation, W) /\ DOMAIN <<>> = {}
        BY NoTable
      <4>3. Cardinality({}) = 0 /\ 0 <= MaxSubscribed
        BY FS_EmptySet, PolicyValid
      <4> QED BY <4>1, <4>2, <4>3
    <3> QED BY <3>1, <3>2
  <2>2. held \in 0..R
    <3>1. held \in 0..record
      BY <1>1 DEF Typed
    <3> QED BY <1>2, <1>13, <3>1
  <2>3. inbox \in Seq(Queueable(generation, W))
    BY <1>16, SeqMonotonic, WayFacts
  <2>4. remote \in Tables(generation, W) /\ assembly \in Parts(generation, W)
    BY <1>1, <1>16 DEF Typed
  <2>5. generation \in [Chunks -> Nat] /\ place \in Places /\ host \in {"running", "faulted"}
        /\ client \in {"running", "base_missing", "base_gap"}
    BY <1>1 DEF Typed
  <2>6. wire' \in Seq(Sendable(generation, W, R)) /\ backlog' \in Seq(Sendable(generation, W, R))
    BY <1>20 DEF S
  <2>7. Len(backlog') <= MaxBacklog /\ z.sequence \in Nat
    BY <1>8, <1>12, <1>15
  <2>8. a \in Seq(Reportable(generation, W)) /\ Grounded(generation, W) /\ R \in Nat
    BY <1>13
  <2> QED BY <1>6, <1>7, <2>1, <2>2, <2>3, <2>4, <2>5, <2>6, <2>7, <2>8 DEF Typed
<1>25. IdleReports'
  BY <1>6 DEF IdleReports
<1>26. ASSUME TableTrue, Live' PROVE Expected'.error = "none" /\ Expected'.remote = Published'
  <2>1. host = "running" /\ client = "running" /\ Up(on)
    BY <1>6, <1>7, <1>10, <1>26 DEF Live, Up
  <2>2. b = rest \o a /\ Up(online)
    BY <1>13, <2>1
  <2>3. x.error = "none" /\ x.remote = Published
    BY <1>26, <2>1, <2>2 DEF TableTrue, Live, Up, x
  <2>4. Published = publications
    <3>1. reports = <<>>
      BY <1>1, <1>6 DEF IdleReports
    <3>2. Published = PublishedAfter(publications, reports)
      BY DEF Published, PublishedAfter
    <3> QED BY <1>2, <3>1, <3>2, PublishedNothing
  <2>5. Advances(W, a, x)
    BY <1>13, <2>1, <2>3, <2>4 DEF Agreed
  <2>6. Taken(x, a).error = "none" /\ Taken(x, a).remote = PublishedAfter(publications, a)
    BY <2>5 DEF Advances
  <2>7. publications' = publications /\ reports' = a
    BY <1>6, <2>1 DEF Up, on
  <2>8. Published' = PublishedAfter(publications, a)
    BY <2>7 DEF Published, PublishedAfter
  <2>9. Expected' = Taken(x, a)
    <3> DEFINE q == (inbox \o wire) \o backlog
    <3>1. Copy' = Copy
      BY <1>7 DEF Copy
    <3>2. Expected' = Taken(Copy, (inbox \o wire') \o backlog')
      BY <1>7, <3>1 DEF Expected
    <3>3. (inbox \o wire) \o (pre \o b) = q \o a
      <4>1. inbox \o wire \in Seq(S)
        BY <1>17, ConcatProperties
      <4> DEFINE e == inbox \o wire
      <4> HIDE DEF e
      <4>2. Joined(e, backlog, a)
        BY <1>17, <1>18, <4>1, Association DEF e
      <4> QED BY <1>21, <2>2, <4>2 DEF Joined, e
    <3>4. Copy \in Copies(generation, W)
      <4>1. Copy \in Copies(generation, world)
        BY WayFacts
      <4> QED BY <1>16, <4>1 DEF Copies
    <3>5. q \in Seq(S)
      BY <1>17, ConcatProperties
    <3>6. x = Taken(Copy, q)
      BY WayFacts DEF x
    <3> HIDE DEF q
    <3>7. Taken(Copy, q \o a) = Taken(Taken(Copy, q), a)
      BY <1>18, <3>4, <3>5, TakenConcat DEF S
    <3> QED BY <1>19, <3>2, <3>3, <3>6, <3>7
  <2> QED BY <2>6, <2>8, <2>9
<1> QED BY <1>23, <1>24, <1>25, <1>26 DEF Sound, TableTrue
--------------------------------------------------------------------------------
(* A frame of the client *)

LEMMA MaxFacts ==
  ASSUME NEW r \in Nat, NEW S, S \subseteq 0..r, S # {}
  PROVE  Max(S) \in S
<1> DEFINE T == {r - k : k \in S}
<1>1. T \in SUBSET Nat /\ T # {}
  <2>1. ASSUME NEW k \in S PROVE r - k \in Nat
    <3>1. k \in 0..r
      OBVIOUS
    <3> QED BY <3>1
  <2>2. PICK k \in S : TRUE
    OBVIOUS
  <2>3. r - k \in T
    BY <2>2
  <2> QED BY <2>1, <2>3
<1>2. PICK n \in T : \A m \in T : n <= m
  <2> HIDE DEF T
  <2> QED BY <1>1, Smallest
<1>3. PICK k \in S : n = r - k
  BY <1>2
<1>4. \A m \in S : k >= m
  BY <1>2, <1>3
<1> QED BY <1>4 DEF Max

\* The record that a frame leaves is one that the server has had.
LEMMA HeldStays ==
  ASSUME Sound, NEW arrived \in Seq(Sendable(generation, world, record))
  PROVE  NewestHeld(arrived) \in 0..record
<1> DEFINE S == {held} \cup {d.held : d \in Matched(arrived)}
<1>1. record \in Nat /\ held \in 0..record
  BY DEF Sound, Typed
<1>2. ASSUME NEW d \in Matched(arrived) PROVE d.held \in 0..record
  <2>1. IsDelta(d) /\ d \in Range(arrived)
    BY DEF Matched
  <2>2. d \in Sendable(generation, world, record)
    <3>1. PICK i \in DOMAIN arrived : d = arrived[i]
      BY <2>1 DEF Range
    <3>2. i \in 1..Len(arrived)
      BY <3>1
    <3> QED BY <3>1, <3>2, ElementOfSeq
  <2>3. d \in DeltaMsgs(record)
    BY <2>1, <2>2 DEF IsDelta, Sendable, Queueable, Reportable, SliceMsgs, RemovalMsgs, EditMsgs, RecordMsgs
  <2> QED BY <2>3 DEF DeltaMsgs
<1>3. S \subseteq 0..record /\ S # {}
  BY <1>1, <1>2
<1>4. NewestHeld(arrived) = Max(S)
  BY DEF NewestHeld
<1> HIDE DEF S
<1> QED BY <1>1, <1>3, <1>4, MaxFacts

LEMMA SmallerFacts ==
  ASSUME NEW m \in Nat, NEW n \in Nat
  PROVE  Smaller(m, n) \in 0..n /\ Smaller(m, n) \in Nat /\ Smaller(m, n) <= m /\ Smaller(m, n) <= n
BY DEF Smaller

LEMMA PlannedStays ==
  ASSUME NEW g, NEW w, NEW r, NEW x \in Copies(g, w), NEW s \in Seq(Sendable(g, w, r))
  PROVE  Planned(x, s) \in Copies(g, w)
<1>1. Len(s) \in 0..Len(s)
  OBVIOUS
<1> QED BY <1>1, PlanningTrace

LEMMA ReceiveSound ==
  ASSUME Sound, NEW n \in 0..Len(wire), Receive(n)
  PROVE  Sound' /\ (TableTrue /\ EditsWait => TableTrue')
<1> DEFINE g == generation
           w == world
           r == record
           S == Sendable(g, w, r)
           s == SubSeq(wire, 1, n)
           rear == SubSeq(wire, n + 1, Len(wire))
           q == inbox \o ChunkMessages(s)
           taken == Smaller(FrameSlices, Len(q))
           pre == SubSeq(q, 1, taken)
           post == SubSeq(q, taken + 1, Len(q))
           copy == Taken(Copy, pre)
           plan == Planned(copy, s)
<1>1. Typed /\ InOrder /\ IdleReports
  BY DEF Sound
<1>2. /\ client = "running" /\ inbox' = post /\ wire' = rear
      /\ plan.error = "none" =>
           /\ remote' = plan.remote /\ assembly' = StillNeeded(plan.assembly, plan.remote)
           /\ held' = NewestHeld(s) /\ client' = client
      /\ plan.error # "none" =>
           /\ client' = plan.error
           /\ remote' = copy.remote /\ assembly' = copy.assembly /\ held' = held
      /\ UNCHANGED <<host, phase, world, generation, record, place, events, subscribed, publications, reports,
                     sequence, backlog, online>>
  BY DEF Receive, simulationVars
<1>3. /\ r \in Nat /\ Grounded(g, w) /\ inbox \in Seq(Queueable(g, w)) /\ wire \in Seq(S) /\ backlog \in Seq(S)
      /\ Copy \in Copies(g, w) /\ inbox \in Seq(S)
  BY WayFacts
<1>4. s \in Seq(S) /\ Len(s) = n /\ rear \in Seq(S) /\ Len(rear) = Len(wire) - n /\ s \o rear = wire
      /\ \A i \in 1..n : s[i] = wire[i]
  <2> HIDE DEF S
  <2> QED BY <1>3, Split
<1> HIDE DEF s, rear
<1>5. ChunkMessages(s) \in Seq(Queueable(g, w))
  BY <1>4, ChunkMessagesStay
<1>6. q \in Seq(Queueable(g, w)) /\ Len(q) \in Nat
  <2>1. q \in Seq(Queueable(g, w))
    BY <1>3, <1>5, ConcatProperties
  <2> HIDE DEF q
  <2> QED BY <2>1
<1> HIDE DEF q
<1>7. taken \in 0..Len(q)
  BY <1>6, SmallerFacts, FrameSlicesAssumption
<1> HIDE DEF taken
<1>8. pre \in Seq(Queueable(g, w)) /\ post \in Seq(Queueable(g, w)) /\ pre \o post = q
  BY <1>6, <1>7, Split
<1> HIDE DEF pre, post
<1>9. pre \in Seq(S) /\ post \in Seq(S)
  BY <1>8, QueueableSeq
<1>10. copy \in Copies(g, w)
  BY <1>3, <1>9, TakenStays
<1> HIDE DEF copy
<1>11. plan \in Copies(g, w)
  <2>1. Planned(copy, s) \in Copies(g, w)
    <3>1. copy \in Copies(g, w) /\ s \in Seq(Sendable(g, w, r))
      BY <1>4, <1>10
    <3> HIDE DEF g, w, r
    <3> QED BY <3>1, PlannedStays
  <2> QED BY <2>1
<1> HIDE DEF plan
<1>12. InOrder'
  <2> DEFINE tail == rear \o backlog
  <2>1. tail \in Seq(S)
    BY <1>3, <1>4, ConcatProperties
  <2>2. Joined(s, rear, backlog)
    BY <1>3, <1>4, Association
  <2>3. wire \o backlog = s \o tail
    BY <1>4, <2>2 DEF Joined
  <2>4. Orderly(s \o tail)
    BY <1>1, <2>3 DEF InOrder, Stream
  <2> HIDE DEF tail, S
  <2>5. Orderly(tail)
    BY <1>4, <2>1, <2>4, OrderlyConcat
  <2>6. Stream' = tail
    BY <1>2 DEF Stream, tail
  <2> QED BY <2>5, <2>6 DEF InOrder
<1>13. Typed'
  <2>1. /\ remote' \in Tables(g, w) /\ assembly' \in Parts(g, w) /\ held' \in 0..r
        /\ client' \in {"running", "base_missing", "base_gap"}
    <3>1. CASE plan.error = "none"
      <4>1. plan.remote \in Tables(g, w)
        BY <1>11, CopyFacts
      <4>2. StillNeeded(plan.assembly, plan.remote) \in Parts(g, w)
        BY <1>11, StillNeededFacts
      <4>3. NewestHeld(s) \in 0..r
        BY <1>4, HeldStays
      <4> QED BY <1>2, <3>1, <4>1, <4>2, <4>3
    <3>2. CASE plan.error # "none"
      <4>1. plan.error \in {"none", "base_missing", "base_gap"}
        BY <1>11, CopyFacts
      <4>2. copy.remote \in Tables(g, w) /\ copy.assembly \in Parts(g, w)
        BY <1>10, CopyFacts
      <4>3. held \in 0..r
        BY <1>1 DEF Typed
      <4> QED BY <1>2, <3>2, <4>1, <4>2, <4>3
    <3> QED BY <3>1, <3>2
  <2> QED BY <1>1, <1>2, <1>4, <1>8, <2>1 DEF Typed
<1>14. IdleReports'
  BY <1>1, <1>2 DEF IdleReports
<1>15. ASSUME TableTrue, EditsWait, Live' PROVE Expected'.error = "none" /\ Expected'.remote = Published'
  <2>1. Live /\ client' = "running"
    BY <1>2, <1>15 DEF Live
  <2>2. Expected.error = "none" /\ Expected.remote = Published
    BY <1>15, <2>1 DEF TableTrue
  <2>3. plan.error = "none"
    <3>1. plan.error \in {"none", "base_missing", "base_gap"}
      BY <1>11, CopyFacts
    <3> QED BY <1>2, <2>1, <3>1
  <2> DEFINE y == Copy'
             rest == rear \o backlog
             none == "none"
  <2>4. y = [remote |-> plan.remote, assembly |-> StillNeeded(plan.assembly, plan.remote), error |-> none]
    BY <1>2, <2>3 DEF Copy
  <2>5. y \in Copies(g, w) /\ Alike(y, plan)
    <3>1. none \in {"none", "base_missing", "base_gap"} /\ plan.error = none
      BY <2>3
    <3> HIDE DEF none, y
    <3>2. StillNeeded(plan.assembly, plan.remote) \in Parts(g, w) /\ plan.remote \in Tables(g, w)
      BY <1>11, StillNeededFacts, CopyFacts
    <3>3. y \in Copies(g, w)
      BY <2>4, <3>1, <3>2, CopyIntro
    <3>4. plan.error = none => Alike([remote |-> plan.remote,
                               assembly |-> StillNeeded(plan.assembly, plan.remote), error |-> none], plan)
      BY <1>11, <3>1, StillNeededFacts
    <3> QED BY <2>4, <3>1, <3>3, <3>4
  <2>6. rest \in Seq(S)
    BY <1>3, <1>4, ConcatProperties
  <2>7. /\ Expected = Taken(Copy, (inbox \o s) \o rest)
        /\ Expected' = Taken(y, post \o rest)
    <3>1. Joined(s, rear, backlog) /\ Joined(inbox, wire, backlog) /\ Joined(post, rear, backlog)
      BY <1>3, <1>4, <1>9, Association
    <3>2. Joined(inbox, s, rest)
      <4> HIDE DEF rest
      <4> QED BY <1>3, <1>4, <2>6, Association
    <3>3. Expected = Taken(Copy, (inbox \o wire) \o backlog)
      BY DEF Expected
    <3>4. (inbox \o wire) \o backlog = (inbox \o s) \o rest
      BY <1>4, <3>1, <3>2 DEF Joined
    <3>5. Expected' = Taken(Copy', (inbox' \o wire') \o backlog')
      BY DEF Expected
    <3>6. (inbox' \o wire') \o backlog' = post \o rest
      BY <1>2, <3>1 DEF Joined
    <3> HIDE DEF rest
    <3> QED BY <3>3, <3>4, <3>5, <3>6
  <2>8. Orderly(s)
    <3>1. Joined(s, rear, backlog)
      BY <1>3, <1>4, Association
    <3>2. wire \o backlog = s \o rest
      BY <1>4, <3>1 DEF Joined
    <3>3. Orderly(s \o rest)
      BY <1>1, <3>2 DEF InOrder, Stream
    <3> HIDE DEF rest, S
    <3> QED BY <1>4, <2>6, <3>3, OrderlyConcat
  <2>9. post # <<>> => \A i \in 1..Len(s) : ~IsEdit(s[i])
    <3> SUFFICES ASSUME post # <<>>, NEW i \in 1..Len(s) PROVE ~IsEdit(s[i])
      OBVIOUS
    <3>1. Len(wire) - Len(wire') = n
      <4>1. Len(wire) \in Nat /\ n \in Nat /\ Len(wire') = Len(wire) - n
        BY <1>2, <1>3, <1>4
      <4> QED BY <4>1
    <3>2. \A k \in 1..n : ~IsEdit(wire[k])
      BY <1>2, <1>15, <3>1 DEF EditsWait
    <3> QED BY <1>4, <3>2
  <2>10. pre \o post = inbox \o ChunkMessages(s)
    BY <1>8 DEF q
  <2>11. Alike(y, Planned(Taken(Copy, pre), s)) /\ Planned(Taken(Copy, pre), s).error = "none"
    BY <2>3, <2>5 DEF plan, copy
  <2>12. Taken(Copy, (inbox \o s) \o rest).error = "none"
    BY <2>2, <2>7
  <2> HIDE DEF y, rest
  <2>13. Alike(Taken(y, post \o rest), Taken(Copy, (inbox \o s) \o rest))
    BY <1>3, <1>4, <1>8, <2>5, <2>6, <2>8, <2>9, <2>10, <2>11, <2>12, FrameExpected
  <2>14. Alike(Expected', Expected)
    BY <2>7, <2>13
  <2>15. Expected' \in Copies(g, w)
    <3>1. post \o rest \in Seq(S)
      BY <1>9, <2>6, ConcatProperties
    <3> QED BY <2>5, <2>7, <3>1, TakenStays
  <2>16. Expected'.remote = Expected.remote /\ Expected'.error = Expected.error
    <3>1. Expected \in Copies(g, w)
      BY WayFacts
    <3> DEFINE e == Expected'
    <3> HIDE DEF e
    <3>2. e \in Copies(g, w) /\ Alike(e, Expected)
      BY <2>14, <2>15 DEF e
    <3>3. e.remote = Expected.remote
      BY <3>1, <3>2, AlikeRemote
    <3>4. e.error = Expected.error
      BY <3>2 DEF Alike
    <3> QED BY <3>3, <3>4 DEF e
  <2>17. Published' = Published
    BY <1>2 DEF Published
  <2> QED BY <2>2, <2>16, <2>17
<1> QED BY <1>12, <1>13, <1>14, <1>15 DEF Sound, TableTrue
--------------------------------------------------------------------------------
(* The replication phase: what fits is queued, and what is queued is published *)

LEMMA SmallSets ==
  ASSUME NEW S, S \subseteq Chunks
  PROVE  IsFiniteSet(S) /\ Cardinality(S) \in Nat
BY ChunksAssumption, FS_Subset, FS_CardinalityType

LEMMA AdmittedFacts ==
  ASSUME NEW S, S \subseteq Chunks, NEW room \in Nat, NEW some \in Admitted(S, room)
  PROVE  some \subseteq S /\ some \subseteq Chunks /\ Cardinality(some) \in Nat /\ Cardinality(some) <= room
<1>1. some \subseteq S /\ Cardinality(some) = Smaller(Cardinality(S), room)
  BY DEF Admitted, Subsets
<1>2. Cardinality(S) \in Nat
  BY SmallSets
<1>3. Smaller(Cardinality(S), room) \in Nat /\ Smaller(Cardinality(S), room) <= room
  BY <1>2, SmallerFacts
<1> QED BY <1>1, <1>3

\* Adopting what the capacity allows keeps the subscription within its limit.
LEMMA AdoptedFacts ==
  ASSUME NEW kept, kept \subseteq Chunks, Cardinality(kept) <= MaxSubscribed,
         NEW added, added \subseteq Chunks, NEW some \in Adopted(kept, added)
  PROVE  kept \cup some \subseteq Chunks /\ Cardinality(kept \cup some) <= MaxSubscribed
<1> DEFINE k == Cardinality(kept)
           m == Excess(MaxSubscribed, k)
           n == Cardinality(some)
<1>1. some \subseteq added /\ n = Smaller(Cardinality(added), m)
  BY DEF Adopted, Subsets
<1>2. some \subseteq Chunks
  BY <1>1
<1>3. k \in Nat /\ n \in Nat /\ Cardinality(added) \in Nat /\ MaxSubscribed \in Nat
      /\ IsFiniteSet(kept) /\ IsFiniteSet(some)
  BY <1>2, SmallSets, PolicyValid
<1>4. m \in Nat /\ k + m <= MaxSubscribed
  BY <1>3 DEF Excess
<1> HIDE DEF m
<1>5. n <= m
  BY <1>1, <1>3, <1>4, SmallerFacts
<1>6. Cardinality(kept \cup some) = k + n - Cardinality(kept \cap some)
  BY <1>3, FS_Union
<1>7. Cardinality(kept \cap some) \in Nat
  <2>1. kept \cap some \subseteq Chunks
    OBVIOUS
  <2> QED BY <2>1, SmallSets
<1>8. k + n - Cardinality(kept \cap some) <= MaxSubscribed
  BY <1>3, <1>4, <1>5, <1>7
<1> QED BY <1>2, <1>6, <1>8

LEMMA SnapshotsFacts ==
  ASSUME NEW S, S \subseteq Chunks, NEW room \in Nat, NEW s \in Snapshots(S, room)
  PROVE  s \in Seq(S) /\ Range(s) \subseteq S /\ Len(s) \in Nat /\ Len(s) * Slices <= room
<1>1. Slices \in Nat
  BY PolicyValid
<1>2. s \in Seq(S) /\ Len(s) \in Nat
  <2>1. PICK some \in SUBSET S : s \in SetToSeqs(some)
    BY DEF Snapshots
  <2>2. s \in [1..Cardinality(some) -> some]
    BY <2>1 DEF SetToSeqs
  <2>3. Cardinality(some) \in Nat
    BY SmallSets
  <2>4. s \in Seq(some) /\ Len(s) = Cardinality(some)
    BY <2>2, <2>3
  <2> QED BY <2>1, <2>3, <2>4, SeqMonotonic
<1>3. Range(s) \subseteq S
  <2>1. \A i \in 1..Len(s) : s[i] \in S
    BY <1>2, ElementOfSeq
  <2>2. DOMAIN s = 1..Len(s)
    BY <1>2
  <2> QED BY <2>1, <2>2 DEF Range
<1>4. Len(s) * Slices <= room
  <2>1. CASE s = <<>>
    <3>1. Len(s) = 0
      BY <2>1
    <3>2. 0 * Slices = 0
      BY <1>1
    <3> QED BY <3>1, <3>2
  <2>2. CASE s # <<>>
    BY <2>2 DEF Snapshots
  <2> QED BY <2>1, <2>2
<1> QED BY <1>2, <1>3, <1>4

LEMMA RepublishedFacts ==
  ASSUME Grounded(generation, world), NEW t \in Tables(generation, world), NEW S, S \subseteq DOMAIN world
  PROVE  /\ Republished(t, S) \in Tables(generation, world)
         /\ DOMAIN Republished(t, S) = S \cup DOMAIN t
<1> DEFINE D == S \cup DOMAIN t
           z == Republished(t, S)
<1>1. t \in TablesOf(Versions) /\ \A c \in DOMAIN t : Recent(generation, world, c, t[c])
  BY DEF Tables
<1>2. DOMAIN t \subseteq Chunks /\ \A c \in DOMAIN t : t[c] \in Versions
  BY <1>1, TableFacts
<1>3. \A c \in S : c \in Chunks /\ world[c] \in Versions /\ Recent(generation, world, c, world[c])
  BY GroundedFacts
<1>4. z = [c \in D |-> IF c \in S THEN world[c] ELSE t[c]]
  BY DEF Republished
<1>5. D \subseteq Chunks /\ z \in [D -> Versions] /\ \A c \in D : Recent(generation, world, c, z[c])
  <2> HIDE DEF z
  <2>1. \A c \in D : z[c] \in Versions /\ Recent(generation, world, c, z[c])
    <3> SUFFICES ASSUME NEW c \in D PROVE z[c] \in Versions /\ Recent(generation, world, c, z[c])
      OBVIOUS
    <3>1. CASE c \in S
      <4>1. z[c] = world[c]
        BY <1>4, <3>1
      <4> QED BY <1>3, <3>1, <4>1
    <3>2. CASE c \notin S
      <4>1. z[c] = t[c] /\ c \in DOMAIN t
        BY <1>4, <3>2
      <4> QED BY <1>1, <1>2, <4>1
    <3> QED BY <3>1, <3>2
  <2> QED BY <1>2, <1>3, <1>4, <2>1
<1> HIDE DEF z, D
<1>6. z \in TablesOf(Versions)
  BY <1>5, TableIntro
<1>7. DOMAIN z = D
  BY <1>5
<1>8. z \in Tables(generation, world)
  BY <1>5, <1>6, <1>7 DEF Tables
<1> QED BY <1>7, <1>8 DEF z, D

LEMMA DeltasFacts ==
  ASSUME Sound
  PROVE  Deltas \in Seq(DeltaMsgs(record)) /\ Len(Deltas) \in Nat
<1> DEFINE n == Len(reports)
           q == [i \in 1..n |-> Delta(reports[i].seq, record)]
<1>1. record \in Nat /\ reports \in Seq(Reportable(generation, world))
  BY DEF Sound, Typed
<1>2. n \in Nat /\ DOMAIN reports = 1..n /\ \A i \in 1..n : reports[i] \in Reportable(generation, world)
  BY <1>1, ElementOfSeq
<1>3. \A i \in 1..n : reports[i].seq \in Nat
  BY <1>2 DEF Reportable, EditMsgs, RecordMsgs
<1>4. \A i \in 1..n : Delta(reports[i].seq, record) \in DeltaMsgs(record)
  BY <1>1, <1>3 DEF Delta, DeltaMsgs
<1>5. Deltas = q
  BY <1>2 DEF Deltas
<1>6. q \in [1..n -> DeltaMsgs(record)]
  BY <1>4
<1> HIDE DEF n, q
<1>7. q \in Seq(DeltaMsgs(record)) /\ Len(q) = n
  BY <1>2, <1>6
<1> QED BY <1>2, <1>5, <1>7

\* The deltas, removals and snapshots of a tick.
LEMMA LateParts ==
  ASSUME NEW r
  PROVE  /\ \A s \in Seq(DeltaMsgs(r)) : s \in Seq(LateMsgs(generation, world, r))
         /\ \A s \in Seq(RemovalMsgs) : s \in Seq(LateMsgs(generation, world, r))
         /\ \A s \in Seq(CurrentSlices) : s \in Seq(LateMsgs(generation, world, r))
<1> DEFINE L == LateMsgs(generation, world, r)
<1>1. DeltaMsgs(r) \subseteq L
  <2>1. \A m \in DeltaMsgs(r) : m.kind = "delta" /\ m \in Sendable(generation, world, r)
    BY DEF DeltaMsgs, Sendable
  <2> QED BY <2>1 DEF LateMsgs
<1>2. RemovalMsgs \subseteq L
  <2>1. \A m \in RemovalMsgs : m.kind = "removal" /\ m \in Sendable(generation, world, r)
    BY DEF RemovalMsgs, Sendable, Queueable
  <2> QED BY <2>1 DEF LateMsgs
<1>3. CurrentSlices \subseteq L
  <2>1. \A m \in CurrentSlices : m \in Sendable(generation, world, r)
    BY DEF CurrentSlices, Sendable, Queueable
  <2> QED BY <2>1 DEF LateMsgs, CurrentSlices
<1> HIDE DEF L
<1> QED BY <1>1, <1>2, <1>3, SeqMonotonic DEF L
\* What a tick queues, t, of which it sends the first n messages, and what it then has
\* published.
Brings(t, table) ==
  \A x \in Copies(generation, world) :
    x.remote = Published => Taken(x, t).error = x.error /\ Taken(x, t).remote = table

Queued(b, t, n) ==
  /\ Len(b \o t) <= MaxBacklog
  /\ wire' = wire \o SubSeq(b \o t, 1, n)
  /\ backlog' = SubSeq(b \o t, n + 1, Len(b \o t))

TakesAway(x, S) ==
  /\ Taken(x, Messages(S)).error = x.error
  /\ Taken(x, Messages(S)).remote = Restrict(x.remote, DOMAIN x.remote \ S)

LEMMA RemovalsTaken ==
  ASSUME NEW g, NEW w, NEW x \in Copies(g, w), NEW S, S \subseteq Chunks
  PROVE  TakesAway(x, S)
BY TakenRemovals DEF TakesAway

Gathered(b, d, l, e, z) == (((b \o d) \o l) \o e) \o z = b \o (d \o (l \o (e \o z)))

LEMMA Gather ==
  ASSUME NEW S, NEW b \in Seq(S), NEW d \in Seq(S), NEW l \in Seq(S), NEW e \in Seq(S), NEW z \in Seq(S)
  PROVE  Gathered(b, d, l, e, z)
<1> DEFINE bd == b \o d
           bdl == bd \o l
           ez == e \o z
           lez == l \o ez
<1>1. bd \in Seq(S) /\ ez \in Seq(S)
  BY ConcatProperties
<1> HIDE DEF bd, ez
<1>2. bdl \in Seq(S) /\ lez \in Seq(S)
  BY <1>1, ConcatProperties
<1> HIDE DEF bdl, lez
<1>3. Joined(bdl, e, z) /\ Joined(bd, l, ez) /\ Joined(b, d, lez)
  BY <1>1, <1>2, Association
<1>4. (bdl \o e) \o z = bdl \o ez
  BY <1>3 DEF Joined, ez
<1>5. bdl \o ez = bd \o lez
  BY <1>3 DEF Joined, bdl, lez
<1>6. bd \o lez = b \o (d \o lez)
  BY <1>3 DEF Joined, bd
<1> QED BY <1>4, <1>5, <1>6 DEF Gathered, bd, bdl, ez, lez

\* The choices of a synchronization: what is left, adopted, gone and snapped.
Chosen(queued, table, kept, left, adopted, gone, s) ==
  LET remaining == Restrict(table, DOMAIN table \ left)
      known == Restrict(remaining, DOMAIN remaining \ gone)
      all == ((queued \o Messages(left)) \o Messages(gone)) \o SlicesOf(s)
  IN  /\ subscribed' = kept \cup adopted
      /\ publications' = Republished(known, Range(s))
      /\ \E n \in 0..Len(all) : /\ wire' = wire \o SubSeq(all, 1, n)
                                  /\ backlog' = SubSeq(all, n + 1, Len(all))

Goes(queued, table, kept, left, adopted, gone) ==
  LET remaining == Restrict(table, DOMAIN table \ left)
      known == Restrict(remaining, DOMAIN remaining \ gone)
      afterGone == (queued \o Messages(left)) \o Messages(gone)
  IN  \E s \in Snapshots(Stale(kept \cup adopted, known), MaxBacklog - Len(afterGone)) :
        Chosen(queued, table, kept, left, adopted, gone, s)

Leaves(queued, table, kept, added, left) ==
  LET remaining == Restrict(table, DOMAIN table \ left)
      afterRemovals == queued \o Messages(left)
  IN  \E adopted \in Adopted(kept, added) :
      \E gone \in Admitted(DOMAIN remaining \ DOMAIN world, MaxBacklog - Len(afterRemovals)) :
        Goes(queued, table, kept, left, adopted, gone)

Keeps(table, removed, left) == subscribed \ (removed \ ((removed \cap DOMAIN table) \ left))

\* A synchronization keeps the limits; what it queues may follow anything and brings a
\* copy that has what was published to what is published now.
LEMMA SynchronizeFacts ==
  ASSUME Sound, ~(Len(Deltas) > Room), Synchronize(backlog \o Deltas, Published)
  PROVE  /\ subscribed' \subseteq Chunks /\ Cardinality(subscribed') <= MaxSubscribed
         /\ publications' \in Tables(generation, world) /\ DOMAIN publications' \subseteq subscribed'
         /\ \E t \in Seq(LateMsgs(generation, world, record)) :
              /\ Brings(t, publications')
              /\ \E n \in 0..Len(backlog \o t) : Queued(backlog, t, n)
<1> DEFINE g == generation
           w == world
           r == record
           L == LateMsgs(g, w, r)
           S == Sendable(g, w, r)
           table == Published
           b == backlog
           d == Deltas
           queued == b \o d
<1>1. /\ r \in Nat /\ Grounded(g, w) /\ subscribed \subseteq Chunks /\ Cardinality(subscribed) <= MaxSubscribed
      /\ b \in Seq(S) /\ Len(b) \in Nat /\ Len(b) <= MaxBacklog /\ place \in Places
      /\ publications \in Tables(g, w) /\ DOMAIN publications \subseteq subscribed
      /\ reports \in Seq(Reportable(g, w)) /\ MaxBacklog \in Nat /\ MaxSubscribed \in Nat
  BY PolicyValid DEF Sound, Typed
<1>2. table \in Tables(g, w) /\ DOMAIN table \subseteq subscribed /\ DOMAIN table \subseteq Chunks
  <2>1. table = PublishedAfter(publications, reports)
    BY DEF Published, PublishedAfter
  <2> QED BY <1>1, <2>1, PublishedFacts
<1>3. d \in Seq(DeltaMsgs(r)) /\ Len(d) \in Nat /\ Len(d) <= MaxBacklog - Len(b)
  <2>1. Len(d) \in Nat /\ d \in Seq(DeltaMsgs(r))
    BY DeltasFacts
  <2>2. ~(Len(d) > MaxBacklog - Len(b))
    BY DEF Room
  <2> QED BY <1>1, <2>1, <2>2
<1>4. L \subseteq S
  BY DEF LateMsgs
<1>5. d \in Seq(L) /\ d \in Seq(S)
  <2>1. d \in Seq(L)
    BY <1>3, LateParts
  <2> HIDE DEF L, S
  <2> QED BY <1>4, <2>1, SeqMonotonic
<1>6. PICK removed \in Removals : \E added \in Additions(removed) :
         \E left \in Admitted(removed \cap DOMAIN table, MaxBacklog - Len(queued)) :
            Leaves(queued, table, Keeps(table, removed, left), added, left)
  BY DEF Synchronize, Leaves, Goes, Chosen, Keeps
<1>6a. PICK added \in Additions(removed),
            left \in Admitted(removed \cap DOMAIN table, MaxBacklog - Len(queued)) :
            Leaves(queued, table, Keeps(table, removed, left), added, left)
  BY <1>6
<1> DEFINE kept == Keeps(table, removed, left)
           remaining == Restrict(table, DOMAIN table \ left)
           l == Messages(left)
           afterRemovals == queued \o l
<1>7. PICK adopted \in Adopted(kept, added),
           gone \in Admitted(DOMAIN remaining \ DOMAIN world, MaxBacklog - Len(afterRemovals)) :
        Goes(queued, table, kept, left, adopted, gone)
  BY <1>6a DEF Leaves
<1> DEFINE known == Restrict(remaining, DOMAIN remaining \ gone)
           e == Messages(gone)
           afterGone == afterRemovals \o e
           wanted == kept \cup adopted
<1>8a. PICK s \in Snapshots(Stale(wanted, known), MaxBacklog - Len(afterGone)) :
         Chosen(queued, table, kept, left, adopted, gone, s)
  BY <1>7 DEF Goes
<1> DEFINE z == SlicesOf(s)
           all == afterGone \o z
           rest == e \o z
           more == l \o rest
           t == d \o more
<1>8. /\ subscribed' = wanted
      /\ publications' = Republished(known, Range(s))
      /\ \E n \in 0..Len(all) : wire' = wire \o SubSeq(all, 1, n) /\ backlog' = SubSeq(all, n + 1, Len(all))
  BY <1>8a DEF Chosen
<1>9. PICK n \in 0..Len(all) : wire' = wire \o SubSeq(all, 1, n) /\ backlog' = SubSeq(all, n + 1, Len(all))
  BY <1>8
<1> HIDE DEF L, S, d, b, table, g, w, r
<1>10. queued \in Seq(S) /\ Len(queued) = Len(b) + Len(d)
       /\ MaxBacklog - Len(queued) \in Nat
  <2>1. queued \in Seq(S) /\ Len(queued) = Len(b) + Len(d)
    BY <1>1, <1>5, ConcatProperties
  <2> QED BY <1>1, <1>3, <2>1
<1> HIDE DEF queued
<1>11. /\ left \subseteq DOMAIN table /\ left \subseteq Chunks
       /\ Cardinality(left) \in Nat /\ Cardinality(left) <= MaxBacklog - Len(queued)
  <2>1. removed \cap DOMAIN table \subseteq Chunks /\ left \in Admitted(removed \cap DOMAIN table, MaxBacklog - Len(queued))
    BY <1>2, <1>6a
  <2> QED BY <1>10, <2>1, AdmittedFacts
<1>12. l \in Seq(L) /\ l \in Seq(S) /\ Len(l) = Cardinality(left)
  <2>1. l \in Seq(RemovalMsgs) /\ Len(l) = Cardinality(left)
    BY <1>11, MessagesFacts
  <2>2. l \in Seq(L)
    BY <2>1, LateParts DEF L, g, w, r
  <2> QED BY <1>4, <2>1, <2>2, SeqMonotonic
<1> HIDE DEF l
<1>13. afterRemovals \in Seq(S) /\ Len(afterRemovals) = Len(queued) + Len(l)
       /\ MaxBacklog - Len(afterRemovals) \in Nat
  <2>1. afterRemovals \in Seq(S) /\ Len(afterRemovals) = Len(queued) + Len(l)
    BY <1>10, <1>12, ConcatProperties
  <2>2. Len(queued) \in Nat
    BY <1>10
  <2> QED BY <1>1, <1>10, <1>11, <1>12, <2>1, <2>2
<1> HIDE DEF afterRemovals
<1>14. remaining \in Tables(g, w) /\ DOMAIN remaining = DOMAIN table \ left /\ DOMAIN remaining \subseteq Chunks
  <2>1. DOMAIN table \ left \subseteq DOMAIN table
    OBVIOUS
  <2>2. remaining \in Tables(g, w)
    BY <1>2, <2>1, RestrictRecent
  <2>3. DOMAIN remaining = DOMAIN table \ left
    BY DEF Restrict
  <2> QED BY <1>2, <2>2, <2>3
<1> HIDE DEF remaining
<1>15. /\ gone \subseteq DOMAIN remaining /\ gone \subseteq Chunks
       /\ Cardinality(gone) \in Nat /\ Cardinality(gone) <= MaxBacklog - Len(afterRemovals)
  <2>1. /\ DOMAIN remaining \ DOMAIN world \subseteq Chunks
        /\ gone \in Admitted(DOMAIN remaining \ DOMAIN world, MaxBacklog - Len(afterRemovals))
    BY <1>7, <1>14
  <2> QED BY <1>13, <2>1, AdmittedFacts
<1>16. e \in Seq(L) /\ e \in Seq(S) /\ Len(e) = Cardinality(gone)
  <2>1. e \in Seq(RemovalMsgs) /\ Len(e) = Cardinality(gone)
    BY <1>15, MessagesFacts
  <2>2. e \in Seq(L)
    BY <2>1, LateParts DEF L, g, w, r
  <2> QED BY <1>4, <2>1, <2>2, SeqMonotonic
<1> HIDE DEF e
<1>17. afterGone \in Seq(S) /\ Len(afterGone) = Len(afterRemovals) + Len(e)
       /\ MaxBacklog - Len(afterGone) \in Nat
  <2>1. afterGone \in Seq(S) /\ Len(afterGone) = Len(afterRemovals) + Len(e)
    BY <1>13, <1>16, ConcatProperties
  <2>2. Len(afterRemovals) \in Nat
    BY <1>13
  <2> QED BY <1>1, <1>13, <1>15, <1>16, <2>1, <2>2
<1> HIDE DEF afterGone
<1>18. known \in Tables(g, w) /\ DOMAIN known = DOMAIN remaining \ gone
  <2>1. DOMAIN remaining \ gone \subseteq DOMAIN remaining
    OBVIOUS
  <2>2. known \in Tables(g, w)
    BY <1>14, <2>1, RestrictRecent
  <2> QED BY <2>2 DEF Restrict
<1> HIDE DEF known
<1>19. kept \subseteq Chunks /\ Cardinality(kept) <= MaxSubscribed /\ DOMAIN remaining \subseteq kept
  <2>1. kept \subseteq subscribed
    BY DEF Keeps
  <2>2. Cardinality(kept) <= Cardinality(subscribed) /\ Cardinality(kept) \in Nat /\ Cardinality(subscribed) \in Nat
    BY <1>1, <2>1, SmallSets, FS_Subset
  <2>3. DOMAIN remaining \subseteq kept
    BY <1>2, <1>14 DEF Keeps
  <2> QED BY <1>1, <2>1, <2>2, <2>3
<1> HIDE DEF kept
<1>20. wanted \subseteq Chunks /\ Cardinality(wanted) <= MaxSubscribed
  <2>1. added \subseteq place.desired
    BY <1>6a DEF Additions, Subsets
  <2>2. place.desired \subseteq Chunks
    BY <1>1, PlacesAssumption
  <2>3. added \subseteq Chunks
    BY <2>1, <2>2
  <2> QED BY <1>7, <1>19, <2>3, AdoptedFacts
<1>21. DOMAIN remaining \subseteq wanted
  BY <1>19
<1> HIDE DEF wanted
<1>22. Stale(wanted, known) \subseteq wanted /\ Stale(wanted, known) \subseteq DOMAIN world
  BY DEF Stale
<1>23. /\ s \in Seq(DOMAIN world) /\ Range(s) \subseteq wanted /\ Range(s) \subseteq DOMAIN world
       /\ Len(s) \in Nat /\ Len(s) * Slices <= MaxBacklog - Len(afterGone)
  <2> DEFINE stale == Stale(wanted, known)
  <2>1. stale \subseteq Chunks /\ s \in Snapshots(stale, MaxBacklog - Len(afterGone))
    BY <1>8a, <1>20, <1>22
  <2>2. stale \subseteq wanted /\ stale \subseteq DOMAIN world
    BY <1>22
  <2> HIDE DEF stale
  <2>3. s \in Seq(stale) /\ Range(s) \subseteq stale /\ Len(s) \in Nat
        /\ Len(s) * Slices <= MaxBacklog - Len(afterGone)
    BY <1>17, <2>1, SnapshotsFacts
  <2>4. s \in Seq(DOMAIN world)
    BY <2>2, <2>3, SeqMonotonic
  <2> QED BY <2>2, <2>3, <2>4
<1>24. z \in Seq(CurrentSlices) /\ Len(z) = Len(s) * Slices
       /\ \A x \in Copies(g, w) : /\ Taken(x, z).error = x.error
                                  /\ Taken(x, z).remote = Republished(x.remote, Range(s))
  <2> SUFFICES ASSUME NEW x \in Copies(g, w)
               PROVE  /\ z \in Seq(CurrentSlices) /\ Len(z) = Len(s) * Slices
                      /\ Taken(x, z).error = x.error
                      /\ Taken(x, z).remote = Republished(x.remote, Range(s))
    <3>1. Copy \in Copies(g, w)
      BY WayFacts DEF g, w
    <3> QED BY <3>1
  <2>1. Grounded(generation, world) /\ x \in Copies(generation, world) /\ s \in Seq(DOMAIN world)
    BY <1>1, <1>23 DEF g, w
  <2> QED BY <2>1, SlicesOfFacts
<1>25. z \in Seq(L) /\ z \in Seq(S)
  <2>1. z \in Seq(L)
    <3> HIDE DEF z
    <3> QED BY <1>24, LateParts DEF L, g, w, r
  <2> HIDE DEF z
  <2> QED BY <1>4, <2>1, SeqMonotonic
<1> HIDE DEF z
<1>26. Len(all) = Len(afterGone) + Len(z) /\ Len(all) <= MaxBacklog
  <2>1. Len(all) = Len(afterGone) + Len(z)
    BY <1>17, <1>25, ConcatProperties
  <2>2. Len(afterGone) \in Nat /\ Len(z) \in Nat
    BY <1>17, <1>25
  <2> QED BY <1>1, <1>23, <1>24, <2>1, <2>2
<1>27. rest \in Seq(L) /\ rest \in Seq(S)
  BY <1>16, <1>25, ConcatProperties
<1>28. more \in Seq(L) /\ more \in Seq(S)
  <2> HIDE DEF rest
  <2> QED BY <1>12, <1>27, ConcatProperties
<1>29. t \in Seq(L) /\ t \in Seq(S)
  <2> HIDE DEF more
  <2> QED BY <1>5, <1>28, ConcatProperties
<1>30. all = b \o t
  <2>1. b \in Seq(S) /\ d \in Seq(S) /\ l \in Seq(S) /\ e \in Seq(S) /\ z \in Seq(S)
    BY <1>1, <1>5, <1>12, <1>16, <1>25
  <2>2. Gathered(b, d, l, e, z)
    BY <2>1, Gather
  <2> QED BY <2>2 DEF Gathered, afterGone, afterRemovals, queued
<1>31. Brings(t, publications')
  <2> SUFFICES ASSUME NEW x \in Copies(g, w), x.remote = table
               PROVE  Taken(x, t).error = x.error /\ Taken(x, t).remote = publications'
    BY DEF Brings, g, w, table
  <2>1. Taken(x, t) = Taken(x, more)
    <3> HIDE DEF more
    <3>1. Taken(x, t) = Taken(Taken(x, d), more)
      BY <1>5, <1>28, TakenConcat DEF S
    <3>2. d \in Seq(RecordMsgs \cup DeltaMsgs(r))
      <4>1. DeltaMsgs(r) \subseteq RecordMsgs \cup DeltaMsgs(r)
        OBVIOUS
      <4> QED BY <1>3, <4>1, SeqMonotonic
    <3>3. Taken(x, d) = x
      BY <3>2, TakenNothing
    <3> QED BY <3>1, <3>3
  <2> DEFINE x1 == Taken(x, l)
             x2 == Taken(x1, e)
             x3 == Taken(x2, z)
  <2>2. Taken(x, more) = Taken(x1, rest)
    <3> HIDE DEF rest
    <3> QED BY <1>12, <1>27, TakenConcat DEF S
  <2>3. x1 \in Copies(g, w) /\ x1.error = x.error /\ x1.remote = remaining
    <3>1. x1 \in Copies(g, w)
      BY <1>12, TakenStays DEF S
    <3>2. x1.error = x.error /\ x1.remote = Restrict(x.remote, DOMAIN x.remote \ left)
      <4>1. x \in Copies(g, w) /\ left \subseteq Chunks
        BY <1>11
      <4>2. x1 = Taken(x, Messages(left))
        BY DEF l
      <4>3. /\ Taken(x, Messages(left)).error = x.error
            /\ Taken(x, Messages(left)).remote = Restrict(x.remote, DOMAIN x.remote \ left)
        <5>1. TakesAway(x, left)
          BY <4>1, RemovalsTaken
        <5> QED BY <5>1 DEF TakesAway
      <4> QED BY <4>2, <4>3
    <3> QED BY <3>1, <3>2 DEF remaining
  <2> HIDE DEF x1
  <2>4. Taken(x1, rest) = x3
    BY <1>16, <1>25, <2>3, TakenConcat DEF S
  <2>5. x2 \in Copies(g, w) /\ x2.error = x.error /\ x2.remote = known
    <3>1. x2 \in Copies(g, w)
      BY <1>16, <2>3, TakenStays DEF S
    <3>2. x2.error = x1.error /\ x2.remote = Restrict(x1.remote, DOMAIN x1.remote \ gone)
      <4>1. x1 \in Copies(g, w) /\ gone \subseteq Chunks
        BY <1>15, <2>3
      <4>2. x2 = Taken(x1, Messages(gone))
        BY DEF e
      <4>3. /\ Taken(x1, Messages(gone)).error = x1.error
            /\ Taken(x1, Messages(gone)).remote = Restrict(x1.remote, DOMAIN x1.remote \ gone)
        <5>1. TakesAway(x1, gone)
          BY <4>1, RemovalsTaken
        <5> QED BY <5>1 DEF TakesAway
      <4> QED BY <4>2, <4>3
    <3> QED BY <2>3, <3>1, <3>2 DEF known
  <2> HIDE DEF x2
  <2>6. x3.error = x.error /\ x3.remote = Republished(known, Range(s))
    BY <1>24, <2>5
  <2> QED BY <1>8, <2>1, <2>2, <2>4, <2>6
<1>32. publications' \in Tables(g, w) /\ DOMAIN publications' \subseteq subscribed'
  <2>1. Republished(known, Range(s)) \in Tables(g, w)
        /\ DOMAIN Republished(known, Range(s)) = Range(s) \cup DOMAIN known
    BY <1>1, <1>18, <1>23, RepublishedFacts DEF g, w
  <2> QED BY <1>8, <1>18, <1>21, <1>23, <2>1
<1>33. n \in 0..Len(b \o t) /\ Queued(b, t, n)
  <2> HIDE DEF all, t
  <2> QED BY <1>9, <1>26, <1>30 DEF Queued
<1> HIDE DEF t
<1>34. subscribed' \subseteq Chunks /\ Cardinality(subscribed') <= MaxSubscribed
  BY <1>8, <1>20
<1> QED BY <1>29, <1>31, <1>32, <1>33, <1>34 DEF L, g, w, r, b
LEMMA ReplicateSound ==
  ASSUME Sound, Replicate, UNCHANGED clientVars
  PROVE  Sound' /\ (TableTrue => TableTrue')
<1> DEFINE g == generation
           w == world
           r == record
           S == Sendable(g, w, r)
           many == Len(Deltas) > Room
<1>1. Typed /\ InOrder /\ IdleReports
  BY DEF Sound
<1>2. /\ host = "running" /\ phase' = "idle" /\ reports' = <<>>
      /\ UNCHANGED <<world, generation, record, place, events, sequence, online>>
      /\ UNCHANGED <<client, inbox, remote, assembly, held>>
  BY DEF Replicate, simulationVars, clientVars
<1>3. /\ r \in Nat /\ Grounded(g, w) /\ inbox \in Seq(S) /\ wire \in Seq(S) /\ backlog \in Seq(S)
      /\ Copy \in Copies(g, w)
  BY WayFacts
<1>4. IdleReports'
  BY <1>2 DEF IdleReports
<1>5. ASSUME host' \in {"running", "faulted"},
             subscribed' \subseteq Chunks, Cardinality(subscribed') <= MaxSubscribed,
             publications' \in Tables(g, w), DOMAIN publications' \subseteq subscribed',
             wire' \in Seq(S), backlog' \in Seq(S), Len(backlog') <= MaxBacklog
      PROVE  Typed'
  <2>1. reports' \in Seq(Reportable(g, w))
    BY <1>2, NothingSent
  <2> QED BY <1>1, <1>2, <1>5, <2>1 DEF Typed
<1>6. CASE many \/ ~online
  <2>1. /\ UNCHANGED <<subscribed, publications, backlog, wire>>
        /\ host' \in {"running", "faulted"} /\ ~(host' = "running" /\ online)
    <3>1. CASE many
      BY <3>1 DEF Replicate
    <3>2. CASE ~many
      BY <1>2, <1>6, <3>2 DEF Replicate
    <3> QED BY <3>1, <3>2
  <2>2. Typed'
    <3>1. /\ subscribed \subseteq Chunks /\ Cardinality(subscribed) <= MaxSubscribed
          /\ publications \in Tables(g, w) /\ DOMAIN publications \subseteq subscribed
          /\ Len(backlog) <= MaxBacklog
      BY <1>1 DEF Typed
    <3> QED BY <1>3, <1>5, <2>1, <3>1
  <2>3. InOrder'
    BY <1>1, <2>1 DEF InOrder, Stream
  <2>4. ~Live'
    BY <1>2, <2>1 DEF Live
  <2> QED BY <1>4, <2>2, <2>3, <2>4 DEF Sound, TableTrue
<1>7. CASE ~many /\ online
  <2>1. host' = host /\ Synchronize(backlog \o Deltas, Published)
    BY <1>7 DEF Replicate
  <2>2. /\ subscribed' \subseteq Chunks /\ Cardinality(subscribed') <= MaxSubscribed
        /\ publications' \in Tables(g, w) /\ DOMAIN publications' \subseteq subscribed'
        /\ \E t \in Seq(LateMsgs(g, w, r)) :
             /\ Brings(t, publications')
             /\ \E n \in 0..Len(backlog \o t) : Queued(backlog, t, n)
    BY <1>7, <2>1, SynchronizeFacts
  <2>3. PICK t \in Seq(LateMsgs(g, w, r)) :
          Brings(t, publications') /\ \E n \in 0..Len(backlog \o t) : Queued(backlog, t, n)
    BY <2>2
  <2> DEFINE all == backlog \o t
  <2>4. PICK n \in 0..Len(all) : Queued(backlog, t, n)
    BY <2>3
  <2> DEFINE p == SubSeq(all, 1, n)
             q == SubSeq(all, n + 1, Len(all))
  <2>5. Len(all) <= MaxBacklog /\ wire' = wire \o p /\ backlog' = q
    BY <2>4 DEF Queued
  <2>6. t \in Seq(S)
    <3>1. LateMsgs(g, w, r) \subseteq S
      BY DEF LateMsgs
    <3> HIDE DEF S
    <3> QED BY <2>3, <3>1, SeqMonotonic
  <2> HIDE DEF S
  <2>7. all \in Seq(S) /\ Len(all) \in Nat
    <3>1. all \in Seq(S)
      BY <1>3, <2>6, ConcatProperties
    <3> HIDE DEF all
    <3> QED BY <3>1
  <2> HIDE DEF all
  <2>8. p \in Seq(S) /\ q \in Seq(S) /\ Len(q) = Len(all) - n /\ p \o q = all
    BY <2>4, <2>7, Split
  <2>9. Len(q) <= MaxBacklog
    BY <2>4, <2>5, <2>7, <2>8, PolicyValid
  <2> HIDE DEF p, q
  <2>10. wire' \in Seq(S) /\ backlog' \in Seq(S)
    <3>1. wire \o p \in Seq(S)
      BY <1>3, <2>8, ConcatProperties
    <3> QED BY <2>5, <2>8, <3>1
  <2>11. Typed'
    <3>1. host' \in {"running", "faulted"}
      BY <1>2, <2>1
    <3>2. Len(backlog') <= MaxBacklog
      BY <2>5, <2>9
    <3> QED BY <1>5, <2>2, <2>10, <3>1, <3>2
  <2> DEFINE stream == wire \o backlog
  <2>12. wire' \o backlog' = stream \o t /\ stream \in Seq(S)
    <3>1. Joined(wire, p, q) /\ Joined(wire, backlog, t)
      BY <1>3, <2>6, <2>8, Association
    <3>2. stream \in Seq(S)
      BY <1>3, ConcatProperties
    <3> QED BY <2>5, <2>8, <3>1, <3>2 DEF Joined, all
  <2>13. Orderly(stream)
    BY <1>1 DEF InOrder, Stream
  <2> HIDE DEF stream
  <2>14. InOrder'
    <3>1. Orderly(stream \o t)
      BY <1>3, <2>3, <2>12, <2>13, OrderlyLate DEF S
    <3> QED BY <2>12, <3>1 DEF InOrder, Stream
  <2>15. ASSUME TableTrue, Live' PROVE Expected'.error = "none" /\ Expected'.remote = Published'
    <3>1. Live
      BY <1>2, <2>1, <2>15 DEF Live
    <3>2. Expected.error = "none" /\ Expected.remote = Published
      BY <2>15, <3>1 DEF TableTrue
    <3> DEFINE e == inbox \o wire
               way == e \o backlog
    <3>3. e \in Seq(S)
      BY <1>3, ConcatProperties
    <3>4. way \in Seq(S)
      <4> HIDE DEF e
      <4> QED BY <1>3, <3>3, ConcatProperties
    <3>5. Expected = Taken(Copy, way)
      BY DEF Expected
    <3>6. Expected' = Taken(Copy, (inbox \o wire') \o backlog')
      <4>1. Copy' = Copy
        BY <1>2 DEF Copy
      <4> QED BY <1>2, <4>1 DEF Expected
    <3>7. (inbox \o wire') \o backlog' = way \o t
      <4>1. Joined(inbox, wire', backlog') /\ Joined(inbox, wire, backlog)
        BY <1>3, <2>10, Association
      <4>2. Joined(inbox, stream, t)
        BY <1>3, <2>6, <2>12, Association
      <4>3. (inbox \o wire') \o backlog' = inbox \o (stream \o t)
        BY <2>12, <4>1 DEF Joined
      <4>4. way = inbox \o stream
        BY <4>1 DEF Joined, stream
      <4>5. inbox \o (stream \o t) = (inbox \o stream) \o t
        BY <4>2 DEF Joined
      <4> QED BY <4>3, <4>4, <4>5
    <3> HIDE DEF way
    <3>8. Taken(Copy, way \o t) = Taken(Taken(Copy, way), t)
      BY <1>3, <2>6, <3>4, TakenConcat DEF S
    <3>9. Expected' = Taken(Expected, t)
      BY <3>5, <3>6, <3>7, <3>8
    <3> DEFINE x == Expected
    <3>10. x \in Copies(g, w)
      BY WayFacts
    <3> HIDE DEF x
    <3>11. x.remote = Published
      BY <3>2 DEF x
    <3>12. Taken(x, t).error = x.error /\ Taken(x, t).remote = publications'
      BY <2>3, <3>10, <3>11 DEF Brings
    <3>13. Published' = publications'
      <4>1. Published' = PublishedAfter(publications', reports')
        BY DEF Published, PublishedAfter
      <4> DEFINE table == publications'
      <4>2. table \in Tables(g, w)
        BY <2>2
      <4> HIDE DEF table
      <4>3. PublishedAfter(table, <<>>) = table
        BY <4>2, PublishedNothing
      <4> QED BY <1>2, <4>1, <4>3 DEF table
    <3> QED BY <3>2, <3>9, <3>12, <3>13 DEF x
  <2> QED BY <1>4, <2>11, <2>14, <2>15 DEF Sound, TableTrue
<1> QED BY <1>6, <1>7
--------------------------------------------------------------------------------
(* Theorems *)

LEMMA StutterSound ==
  ASSUME Sound, UNCHANGED vars
  PROVE  Sound' /\ (TableTrue => TableTrue')
<1>1. UNCHANGED <<host, phase, world, generation, record, place, events, subscribed, publications,
                  reports, sequence, backlog, wire, online, client, inbox, remote, assembly, held>>
  BY DEF vars, serverVars, simulationVars, clientVars
<1>2. Typed' /\ InOrder' /\ IdleReports'
  <2>1. Typed /\ InOrder /\ IdleReports
    BY DEF Sound
  <2>2. Typed'
    BY <1>1, <2>1 DEF Typed
  <2>3. InOrder'
    BY <1>1, <2>1 DEF InOrder, Stream
  <2>4. IdleReports'
    BY <1>1, <2>1 DEF IdleReports
  <2> QED BY <2>2, <2>3, <2>4
<1>3. TableTrue => TableTrue'
  <2>1. Expected' = Expected /\ Published' = Published /\ (Live' <=> Live)
    <3>1. Expected' = Expected
      BY <1>1 DEF Expected, Copy
    <3>2. Published' = Published
      BY <1>1 DEF Published
    <3>3. Live' <=> Live
      BY <1>1 DEF Live
    <3> QED BY <3>1, <3>2, <3>3
  <2> QED BY <2>1 DEF TableTrue
<1> QED BY <1>2, <1>3 DEF Sound

\* Every step preserves the invariant, and the truth of the table unless an edit overtakes.
LEMMA NextSound ==
  ASSUME Sound, Next
  PROVE  Sound' /\ (TableTrue /\ EditsWait => TableTrue')
<1>1. CASE Frame
  <2>1. PICK n \in 0..Len(wire) : Receive(n)
    BY <1>1 DEF Frame
  <2> QED BY <2>1, ReceiveSound
<1>2. CASE Server
  <2>1. UNCHANGED clientVars
    BY <1>2 DEF Server
  <2>2. CASE \E n \in 0..Len(backlog), commands \in Commands : Gateway(n, commands)
    BY <2>1, <2>2, GatewaySound
  <2>3. CASE Replicate
    BY <2>1, <2>3, ReplicateSound
  <2>4. ASSUME NEW c \in Chunks, Load(c) PROVE Sound' /\ (TableTrue => TableTrue')
    BY <2>1, <2>4, LoadSound
  <2>5. ASSUME NEW c \in Chunks, Unload(c) PROVE Sound' /\ (TableTrue => TableTrue')
    BY <2>1, <2>5, UnloadSound
  <2>6. ASSUME NEW c \in Chunks, Relight(c) PROVE Sound' /\ (TableTrue => TableTrue')
    BY <2>1, <2>6, RelightSound
  <2>7. ASSUME NEW p \in Places, Move(p) PROVE Sound' /\ (TableTrue => TableTrue')
    BY <2>1, <2>7, MoveSound
  <2> QED BY <1>2, <2>2, <2>3, <2>4, <2>5, <2>6, <2>7 DEF Server
<1> QED BY <1>1, <1>2 DEF Next

LEMMA SoundTypes == Sound => TypeOK
<1> SUFFICES ASSUME Sound PROVE TypeOK
  OBVIOUS
<1>1. Typed
  BY DEF Sound
<1>2. ASSUME NEW c \in DOMAIN publications PROVE IsVersion(publications[c])
  <2>1. publications \in TablesOf(Versions)
    BY <1>1 DEF Typed, Tables
  <2>2. publications[c] \in Versions
    BY <2>1, TableFacts
  <2> QED BY <2>2 DEF Versions, IsVersion
<1>3. ASSUME NEW c \in DOMAIN assembly
      PROVE  assembly[c].got \subseteq 1..Slices /\ assembly[c].got # 1..Slices
  <2>1. assembly \in TablesOf(Partials)
    BY <1>1 DEF Typed, Parts
  <2>2. assembly[c] \in Partials
    BY <2>1, TableFacts
  <2> QED BY <2>2 DEF Partials
<1> QED BY <1>1, <1>2, <1>3 DEF Typed, TypeOK

LEMMA TableFollows == Sound /\ TableTrue => PublicationsAreTrue
<1> SUFFICES ASSUME Sound, TableTrue, Live
             PROVE  Expected.error = "none" /\ (phase = "idle" => Expected.remote = publications)
  BY DEF PublicationsAreTrue
<1>1. Expected.error = "none" /\ Expected.remote = Published
  BY DEF TableTrue
<1>2. ASSUME phase = "idle" PROVE Published = publications
  <2>1. reports = <<>> /\ publications \in Tables(generation, world)
    BY <1>2 DEF Sound, IdleReports, Typed
  <2>2. PublishedAfter(publications, <<>>) = publications
    BY <2>1, PublishedNothing
  <2>3. Published = PublishedAfter(publications, reports)
    BY DEF Published, PublishedAfter
  <2> QED BY <2>1, <2>2, <2>3
<1> QED BY <1>1, <1>2

\* The inductive invariant: types, nothing ahead of the world; no slice of a chunk is older
\* than an edit sent before it; a tick leaves no reports.
THEOREM ReplicaInvariant == Spec => []Sound
<1>1. Init => Sound
  BY InitSound
<1>2. Sound /\ [Next]_vars => Sound'
  BY NextSound, StutterSound
<1> QED BY <1>1, <1>2, PTL DEF Spec

\* Whatever the client is sent and whatever it has taken, the subscription, the backlog and
\* the table keep their limits, and no assembly is left complete.
THEOREM TypeCorrect == Spec => []TypeOK
<1> QED BY SoundTypes, ReplicaInvariant, PTL

\* As long as no edit is applied before a chunk message that was sent earlier, the publication
\* table of the server is what the client will have once it has taken everything on its way,
\* and nothing on its way faults it: what the server splits over ticks, defers, replans or
\* unloads in between included.
THEOREM TableIsTrue == Spec /\ [][EditsWait]_vars => []PublicationsAreTrue
<1>1. Init => TableTrue
  BY InitSound
<1>2. Sound /\ TableTrue /\ [Next]_vars /\ [EditsWait]_vars => TableTrue'
  <2> SUFFICES ASSUME Sound, TableTrue, [Next]_vars, [EditsWait]_vars PROVE TableTrue'
    OBVIOUS
  <2>1. CASE UNCHANGED vars
    BY <2>1, StutterSound
  <2>2. CASE ~UNCHANGED vars
    <3>1. Next /\ EditsWait
      BY <2>2
    <3> QED BY <3>1, NextSound
  <2> QED BY <2>1, <2>2
<1> QED BY <1>1, <1>2, TableFollows, ReplicaInvariant, PTL DEF Spec
================================================================================
