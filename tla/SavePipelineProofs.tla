-------------------------- MODULE SavePipelineProofs --------------------------
(***************************************************************************)
(* Proofs about SavePipeline, for any number of roots and requests and any  *)
(* limits: typing, the memory reservation, that every request is answered   *)
(* once, that every accepted snapshot is owed a checkpoint, that no root    *)
(* goes back to an older snapshot and that a session is left only with its  *)
(* last save on disk.                                                      *)
(***************************************************************************)
EXTENDS SavePipeline, FiniteSetTheorems, TLAPS

--------------------------------------------------------------------------------
(* The invariant *)

Unanswered == active \cup Positions(batch)
AtWork == Unfinished \ {"published"}
IsSnapshot(i) == request[i].kind = "snapshot"

\* Requests are numbered in the order of their submission.
Numbered ==
  /\ \A i \in Requests : stage[i] = "unused" => i \notin active /\ i \notin Positions(batch)
  /\ nextId # 0 => \A i \in Requests : i >= nextId => stage[i] = "unused"
  /\ \A r \in Databases : disk[r].accepted # 0 => stage[disk[r].accepted] # "unused"

\* The owner keeps what it needs to know of a request until it consumed the result.
Captured ==
  /\ \A i \in Unanswered :
       request[i] \in [kind : Kinds, root : Databases, bytes : 1..MaxRequestBytes]
  /\ \A i \in Unanswered : at # "down" => (intent[i] = "checkpoint" <=> ~IsSnapshot(i))
  /\ at # "down" => \A i \in Requests : intent[i] # "none" <=> i \in Unanswered
  /\ \A r \in Roots : retries[r] # NoEntry => retries[r].bytes >= 1

Counted == reserved = Bytes(active) /\ Cardinality(active) <= MaxConcurrent

Distinct(seq) == \A j, k \in DOMAIN seq : seq[j] = seq[k] => j = k

\* Where the requests are: at work, in the mailbox or in the drained batch.
Placed ==
  /\ Distinct(mailbox) /\ Distinct(batch)
  /\ Positions(mailbox) \subseteq active
  /\ Positions(batch) \cap active = {}
  /\ InStage(AtWork) \subseteq active
  /\ InStage(AtWork) \cap Positions(mailbox) = {}
  /\ at \notin {"joining", "down"} =>
       cancelled = {} /\ \A i \in active : stage[i] \in AtWork \/ i \in Positions(mailbox)
  /\ at \notin {"consume", "collect"} => batch = <<>>
  /\ at = "down" => InStage(Unfinished) = {} /\ active = {}

Before(seq, m, a) == \A j, k \in DOMAIN seq : seq[j] = m /\ seq[k] = a => j < k

Busy == Unfinished \ {"queued"}

\* One worker, and snapshots leave the queue in the order of their numbers.
InOrder ==
  /\ \A i, k \in InStage(Busy) : i = k
  /\ \A i \in InStage({"started"}), k \in InStage({"queued"}) :
       IsSnapshot(i) /\ IsSnapshot(k) => i < k
  /\ \A r \in Databases, k \in InStage({"queued", "started"}) :
       IsSnapshot(k) => disk[r].accepted < k

\* What the results say is what happened to the disk.
Truthful ==
  /\ \A i \in InStage({"unused", "queued"}) : result[i].state = "none"
  /\ \A i \in InStage({"journalled"}) : IsSnapshot(i) /\ disk[request[i].root].accepted = i
  /\ \A i \in Unanswered : /\ IsSnapshot(i) /\ result[i].state = "succeeded"
                           /\ stage[i] \notin {"queued", "started"}
                           => disk[request[i].root].accepted >= i
  /\ \A r \in Databases : disk[r].accepted \in Unanswered =>
       LET a == disk[r].accepted
       IN  /\ IsSnapshot(a) /\ request[a].root = r /\ result[a].state = "succeeded"
           /\ stage[a] \notin {"queued", "started"}

Compacts(i) == result[i].state = "succeeded" /\ (~IsSnapshot(i) \/ result[i].compacted)

\* The snapshot that a root still has to compact, and its result is not consumed.
Outstanding(r) == disk[r].accepted \in Unanswered

\* A root whose compaction is behind has a retry, was reported, or its newest snapshot is
\* still unanswered; and a result that will settle the root is consumed before that one.
Owing ==
  /\ at # "down" => \A r \in Roots :
       Pending(r) => Outstanding(r) \/ retries[r] # NoEntry \/ r \in told
  /\ \A i \in InStage({"decided"}) : Compacts(i) => ~Pending(request[i].root)
  /\ \A m \in Positions(mailbox) :
       LET r == request[m].root
       IN  Compacts(m) /\ Pending(r) =>
             /\ Outstanding(r) /\ disk[r].accepted \notin Positions(batch)
             /\ Before(mailbox, m, disk[r].accepted)
  /\ \A m \in Positions(batch) :
       LET r == request[m].root
       IN  Compacts(m) /\ Pending(r) => Outstanding(r) /\ Before(batch, m, disk[r].accepted)

\* A save that has to succeed before the session goes was queued and is the newest.
Leaving == \/ app = "unloading" /\ quit = "no"
           \/ quit = "second" /\ session # "none" /\ at \in {"wait", "collect", "consume"}

Saved == disk[session].accepted = lastExit

Exiting ==
  /\ Leaving =>
       /\ lastExit \in Requests
       /\ \A r \in Databases : disk[r].accepted <= lastExit
       /\ \A k \in InStage({"queued", "started"}) : IsSnapshot(k) => k <= lastExit
       /\ \/ lastExit \in Unanswered /\ request[lastExit].root = session
             /\ intent[lastExit] \in {"exit", "shutdown"}
          \/ saveError
          \/ Saved
  /\ at = "stop" /\ session # "none" => failed \/ (active = {} /\ Saved)

\* Where the owner's thread may be.
Stages ==
  /\ quit = "no" => at \in {"poll", "drain", "consume", "submit", "act"}
  /\ quit = "poll" => at \in {"poll", "drain", "consume"}
  /\ quit = "first" => at \in {"wait", "collect", "consume", "final"}
  /\ quit = "second" => at \in {"wait", "collect", "consume", "stop", "joining", "down"}
  /\ app = "menu" <=> session = "none"

PipelineInv == /\ TypeOK /\ Numbered /\ Captured /\ Counted /\ Placed /\ InOrder /\ Truthful
               /\ Owing /\ Exiting /\ Stages

--------------------------------------------------------------------------------
(* The sum of the reservations: it is the number of reserved bytes, each byte a pair *)

Reserve(table, ids) == MapThenSumSet(LAMBDA i : table[i].bytes, ids)

UnitsOf(table, i) == {i} \X (1..table[i].bytes)
Units(table, ids) == UNION {UnitsOf(table, i) : i \in ids}

LEMMA UnitsOfSize ==
  ASSUME NEW table, NEW i, table[i].bytes \in Nat
  PROVE  IsFiniteSet(UnitsOf(table, i)) /\ Cardinality(UnitsOf(table, i)) = table[i].bytes
  <1> DEFINE n == table[i].bytes
  <1>1. IsFiniteSet({i}) /\ Cardinality({i}) = 1
    BY FS_Singleton
  <1>2. IsFiniteSet(1..n) /\ Cardinality(1..n) = n
    <2>1. n \in Nat /\ n \in Int /\ 1 \in Int
      OBVIOUS
    <2> HIDE DEF n
    <2>2. IsFiniteSet(1..n) /\ Cardinality(1..n) = IF 1 > n THEN 0 ELSE n - 1 + 1
      BY <2>1, FS_Interval
    <2> QED BY <2>1, <2>2
  <1>3. IsFiniteSet({i} \X (1..n)) /\ Cardinality({i} \X (1..n)) = 1 * n
    BY <1>1, <1>2, FS_Product
  <1> QED BY <1>3 DEF UnitsOf

LEMMA UnitsAdd ==
  ASSUME NEW table, NEW ids, NEW i, i \notin ids, table[i].bytes \in Nat,
         IsFiniteSet(Units(table, ids))
  PROVE  /\ IsFiniteSet(Units(table, ids \cup {i}))
         /\ Cardinality(Units(table, ids \cup {i})) = Cardinality(Units(table, ids)) + table[i].bytes
  <1> DEFINE A == Units(table, ids)
             B == UnitsOf(table, i)
  <1>1. Units(table, ids \cup {i}) = A \cup B
    BY DEF Units
  <1>2. A \cap B = {}
    BY DEF Units, UnitsOf
  <1>3. IsFiniteSet(B) /\ Cardinality(B) = table[i].bytes
    BY UnitsOfSize
  <1>4. /\ IsFiniteSet(A \cup B)
        /\ Cardinality(A \cup B) = Cardinality(A) + Cardinality(B) - Cardinality(A \cap B)
    BY <1>3, FS_Union
  <1>5. Cardinality(A) \in Nat /\ Cardinality(A \cap B) = 0
    BY <1>2, FS_CardinalityType, FS_EmptySet
  <1> HIDE DEF A, B
  <1>6. IsFiniteSet(A \cup B) /\ Cardinality(A \cup B) = Cardinality(A) + table[i].bytes
    BY <1>3, <1>4, <1>5
  <1> QED BY <1>1, <1>6 DEF A

\* A finite set of requests reserves finitely many bytes.
LEMMA UnitsFinite ==
  ASSUME NEW table, NEW ids, IsFiniteSet(ids), \A i \in ids : table[i].bytes \in Nat
  PROVE  \A s \in SUBSET ids : IsFiniteSet(Units(table, s))
  <1> DEFINE bad == {s \in SUBSET ids : ~IsFiniteSet(Units(table, s))}
  <1>1. bad \subseteq FiniteSubsetsOf(ids)
    BY FS_Subset DEF FiniteSubsetsOf
  <1>2. SUFFICES ASSUME bad # {} PROVE FALSE
    OBVIOUS
  <1>3. PICK s \in bad : \A t \in bad : ~(<<t, s>> \in StrictSubsetOrdering(ids))
    BY <1>1, <1>2, FS_StrictSubsetOrderingWellFounded, WFMin
  <1>4. s # {}
    <2>1. Units(table, {}) = {}
      BY DEF Units
    <2> QED BY <1>3, <2>1, FS_EmptySet
  <1>5. PICK i \in s : TRUE
    BY <1>4
  <1>6. <<s \ {i}, s>> \in StrictSubsetOrdering(ids)
    BY <1>3, <1>5 DEF StrictSubsetOrdering
  <1>7. IsFiniteSet(Units(table, s \ {i}))
    BY <1>3, <1>6
  <1>8. IsFiniteSet(Units(table, (s \ {i}) \cup {i}))
    BY <1>3, <1>5, <1>7, UnitsAdd
  <1>9. (s \ {i}) \cup {i} = s
    BY <1>5
  <1> QED BY <1>3, <1>8, <1>9

\* The recursion of the fold computes the number of bytes.
LEMMA ReserveIsCount ==
  ASSUME NEW table, NEW ids, IsFiniteSet(ids), \A i \in ids : table[i].bytes \in Nat
  PROVE  Reserve(table, ids) = Cardinality(Units(table, ids))
  <1> DEFINE pick(s) == CHOOSE x \in s : TRUE
             body(g) == [s \in SUBSET ids |->
                           IF s = {} THEN 0 ELSE table[pick(s)].bytes + g[s \ {pick(s)}]]
             count == [s \in SUBSET ids |-> Cardinality(Units(table, s))]
             iter == CHOOSE g : g = body(g)
  <1>1. Reserve(table, ids) = iter[ids]
    BY DEF Reserve, MapThenSumSet, MapThenFoldSet
  <1>2. \A s \in SUBSET ids : s # {} =>
           pick(s) \in s /\ count[s] = table[pick(s)].bytes + count[s \ {pick(s)}]
    <2> SUFFICES ASSUME NEW s \in SUBSET ids, s # {}
                 PROVE  pick(s) \in s /\ count[s] = table[pick(s)].bytes + count[s \ {pick(s)}]
      OBVIOUS
    <2>1. pick(s) \in s
      OBVIOUS
    <2> DEFINE i == pick(s)
               t == s \ {i}
    <2>2. i \in s
      BY <2>1
    <2> HIDE DEF i, pick
    <2>3. t \in SUBSET ids /\ i \notin t /\ t \cup {i} = s /\ table[i].bytes \in Nat
      BY <2>2
    <2>4. IsFiniteSet(Units(table, t))
      BY <2>3, UnitsFinite
    <2>5. Cardinality(Units(table, t \cup {i})) = Cardinality(Units(table, t)) + table[i].bytes
      BY <2>3, <2>4, UnitsAdd
    <2>6. Cardinality(Units(table, t)) \in Nat
      BY <2>4, FS_CardinalityType
    <2>7. count[s] = table[i].bytes + count[t]
      BY <2>3, <2>5, <2>6
    <2> QED BY <2>1, <2>7 DEF i
  <1>3. count[{}] = 0
    <2>1. Units(table, {}) = {}
      BY DEF Units
    <2> QED BY <2>1, FS_EmptySet
  <1> HIDE DEF pick
  <1>4. count = body(count)
    <2>1. \A s \in SUBSET ids : count[s] =
             IF s = {} THEN 0 ELSE table[pick(s)].bytes + count[s \ {pick(s)}]
      BY <1>2, <1>3
    <2>2. count = [s \in SUBSET ids |-> count[s]]
      OBVIOUS
    <2> HIDE DEF count
    <2> QED BY <2>1, <2>2
  <1>5. iter = body(iter)
    BY <1>4
  <1> HIDE DEF iter
  <1>6. \A s \in SUBSET ids : iter[s] =
           IF s = {} THEN 0 ELSE table[pick(s)].bytes + iter[s \ {pick(s)}]
    <2> DEFINE other == body(iter)
    <2>1. \A s \in SUBSET ids : other[s] =
             IF s = {} THEN 0 ELSE table[pick(s)].bytes + iter[s \ {pick(s)}]
      OBVIOUS
    <2> QED BY <1>5, <2>1
  <1> HIDE DEF body
  <1> DEFINE bad == {s \in SUBSET ids : iter[s] # count[s]}
  <1>7. bad = {}
    <2>1. bad \subseteq FiniteSubsetsOf(ids)
      BY FS_Subset DEF FiniteSubsetsOf
    <2>2. SUFFICES ASSUME bad # {} PROVE FALSE
      OBVIOUS
    <2>3. PICK s \in bad : \A t \in bad : ~(<<t, s>> \in StrictSubsetOrdering(ids))
      BY <2>1, <2>2, FS_StrictSubsetOrderingWellFounded, WFMin
    <2>4. s # {}
      BY <1>3, <1>6, <2>3
    <2>5. pick(s) \in s
      BY <1>2, <2>3, <2>4
    <2>6. <<s \ {pick(s)}, s>> \in StrictSubsetOrdering(ids)
      BY <2>3, <2>5 DEF StrictSubsetOrdering
    <2>7. iter[s \ {pick(s)}] = count[s \ {pick(s)}]
      <3>1. s \ {pick(s)} \in SUBSET ids
        BY <2>3
      <3> QED BY <2>3, <2>6, <3>1
    <2>8. iter[s] = table[pick(s)].bytes + iter[s \ {pick(s)}]
      BY <1>6, <2>3, <2>4
    <2>9. count[s] = table[pick(s)].bytes + count[s \ {pick(s)}]
      BY <1>2, <2>3, <2>4
    <2> QED BY <2>3, <2>7, <2>8, <2>9
  <1> QED BY <1>1, <1>7

Adds(sum, a, b) == sum \in Nat /\ a \in Nat /\ b \in Nat /\ sum = a + b

LEMMA ReserveAdd ==
  ASSUME NEW table, NEW ids, IsFiniteSet(ids), NEW i, i \notin ids,
         \A k \in ids \cup {i} : table[k].bytes \in Nat
  PROVE  Adds(Reserve(table, ids \cup {i}), Reserve(table, ids), table[i].bytes)
  <1>1. IsFiniteSet(ids \cup {i})
    BY FS_AddElement
  <1>2. IsFiniteSet(Units(table, ids))
    BY UnitsFinite
  <1>3. /\ Reserve(table, ids) = Cardinality(Units(table, ids))
        /\ Reserve(table, ids \cup {i}) = Cardinality(Units(table, ids \cup {i}))
    BY <1>1, ReserveIsCount
  <1>4. table[i].bytes \in Nat
    OBVIOUS
  <1>5. Cardinality(Units(table, ids \cup {i})) = Cardinality(Units(table, ids)) + table[i].bytes
    BY <1>2, <1>4, UnitsAdd
  <1>6. Cardinality(Units(table, ids)) \in Nat
    BY <1>2, FS_CardinalityType
  <1> QED BY <1>3, <1>4, <1>5, <1>6 DEF Adds

LEMMA ReserveRemove ==
  ASSUME NEW table, NEW ids, IsFiniteSet(ids), NEW gone, \A k \in ids : table[k].bytes \in Nat
  PROVE  Adds(Reserve(table, ids), Reserve(table, ids \ gone), Reserve(table, ids \cap gone))
  <1> DEFINE A == Units(table, ids \ gone)
             B == Units(table, ids \cap gone)
             C == Units(table, ids)
  <1>1. IsFiniteSet(ids \ gone) /\ IsFiniteSet(ids \cap gone)
    BY FS_Subset
  <1>2. IsFiniteSet(A) /\ IsFiniteSet(B) /\ IsFiniteSet(C)
    BY UnitsFinite
  <1>3. C = A \cup B
    BY DEF Units
  <1>4. A \cap B = {}
    BY DEF Units, UnitsOf
  <1>5. Cardinality(A \cup B) = Cardinality(A) + Cardinality(B) - Cardinality(A \cap B)
    BY <1>2, FS_Union
  <1>6. /\ Cardinality(A) \in Nat /\ Cardinality(B) \in Nat /\ Cardinality(C) \in Nat
        /\ Cardinality(A \cap B) = 0
    BY <1>2, <1>4, FS_CardinalityType, FS_EmptySet
  <1>7. /\ Reserve(table, ids) = Cardinality(C) /\ Reserve(table, ids \ gone) = Cardinality(A)
        /\ Reserve(table, ids \cap gone) = Cardinality(B)
    BY <1>1, ReserveIsCount
  <1> HIDE DEF A, B, C
  <1> QED BY <1>3, <1>5, <1>6, <1>7 DEF Adds

\* Only the entries of the set are summed up.
LEMMA ReserveAgrees ==
  ASSUME NEW table, NEW other, NEW ids, IsFiniteSet(ids),
         \A k \in ids : table[k].bytes \in Nat /\ other[k].bytes = table[k].bytes
  PROVE  Reserve(other, ids) = Reserve(table, ids)
  <1>1. Units(other, ids) = Units(table, ids)
    BY DEF Units, UnitsOf
  <1>2. \A k \in ids : other[k].bytes \in Nat
    OBVIOUS
  <1> QED BY <1>1, <1>2, ReserveIsCount

LEMMA ReserveNow == Bytes(active) = Reserve(request, active)
  BY DEF Bytes, Reserve, MapThenSumSet, MapThenFoldSet

LEMMA ReserveNext == Bytes(active)' = Reserve(request', active')
  BY DEF Bytes, Reserve, MapThenSumSet, MapThenFoldSet

--------------------------------------------------------------------------------
(* Mailbox and batch *)

LEMMA EmptyPositions == Positions(<<>>) = {} /\ Distinct(<<>>) /\ <<>> \in Seq(Requests)
  BY DEF Positions, Distinct

LEMMA SequenceType ==
  ASSUME NEW s \in Seq(Requests)
  PROVE  /\ DOMAIN s = 1..Len(s) /\ Len(s) \in Nat /\ Positions(s) \subseteq Requests
         /\ \A k \in DOMAIN s : s[k] \in Positions(s)
         /\ Positions(s) = {} <=> s = <<>>
  BY DEF Positions

LEMMA Appended ==
  ASSUME NEW s \in Seq(Requests), NEW i \in Requests
  PROVE  /\ Append(s, i) \in Seq(Requests)
         /\ Positions(Append(s, i)) = Positions(s) \cup {i}
         /\ Distinct(s) /\ i \notin Positions(s) => Distinct(Append(s, i))
         /\ DOMAIN Append(s, i) = DOMAIN s \cup {Len(s) + 1}
         /\ \A k \in DOMAIN s : Append(s, i)[k] = s[k]
         /\ Append(s, i)[Len(s) + 1] = i
  <1> DEFINE t == Append(s, i)
  <1>1. /\ t \in Seq(Requests) /\ Len(t) = Len(s) + 1 /\ t[Len(s) + 1] = i
        /\ \A k \in 1..Len(s) : t[k] = s[k]
        /\ DOMAIN t = 1..Len(s) + 1 /\ DOMAIN s = 1..Len(s) /\ Len(s) \in Nat
    OBVIOUS
  <1> HIDE DEF t
  <1>2. DOMAIN t = DOMAIN s \cup {Len(s) + 1}
    BY <1>1
  <1>3. Positions(t) = Positions(s) \cup {i}
    BY <1>1, <1>2 DEF Positions
  <1>4. Distinct(s) /\ i \notin Positions(s) => Distinct(t)
    BY <1>1, <1>2 DEF Positions, Distinct
  <1>5. \A k \in DOMAIN s : t[k] = s[k]
    BY <1>1
  <1> QED BY <1>1, <1>2, <1>3, <1>4, <1>5 DEF t

LEMMA Consumed ==
  ASSUME NEW s \in Seq(Requests), s # <<>>
  PROVE  /\ Head(s) \in Requests /\ Head(s) \in Positions(s) /\ Head(s) = s[1] /\ 1 \in DOMAIN s
         /\ Tail(s) \in Seq(Requests)
         /\ \A j \in DOMAIN Tail(s) : j + 1 \in DOMAIN s /\ Tail(s)[j] = s[j + 1] /\ j \in Nat /\ j >= 1
         /\ Distinct(s) => Distinct(Tail(s)) /\ Positions(Tail(s)) = Positions(s) \ {Head(s)}
  <1> DEFINE t == Tail(s)
             h == Head(s)
  <1>1. /\ t \in Seq(Requests) /\ h \in Requests /\ h = s[1] /\ Len(s) \in Nat /\ Len(s) >= 1
        /\ DOMAIN t = 1..Len(s) - 1 /\ DOMAIN s = 1..Len(s)
        /\ \A j \in 1..Len(s) - 1 : t[j] = s[j + 1]
    <2>1. Len(s) \in Nat /\ Len(s) # 0
      OBVIOUS
    <2> QED BY <2>1
  <1> HIDE DEF t, h
  <1>2. h \in Positions(s) /\ 1 \in DOMAIN s
    BY <1>1 DEF Positions
  <1>3. \A j \in DOMAIN t : j + 1 \in DOMAIN s /\ t[j] = s[j + 1] /\ j \in Nat /\ j >= 1
    BY <1>1
  <1>4. ASSUME Distinct(s) PROVE Distinct(t) /\ Positions(t) = Positions(s) \ {h}
    <2>1. Distinct(t)
      BY <1>1, <1>3, <1>4 DEF Distinct
    <2>2. ASSUME NEW x \in Positions(t) PROVE x \in Positions(s) \ {h}
      <3>1. PICK j \in DOMAIN t : x = t[j]
        BY DEF Positions
      <3>2. x = s[j + 1] /\ j + 1 \in DOMAIN s /\ j + 1 # 1
        BY <1>3, <3>1
      <3> QED BY <1>1, <1>2, <1>4, <3>2 DEF Positions, Distinct
    <2>3. ASSUME NEW x \in Positions(s) \ {h} PROVE x \in Positions(t)
      <3>1. PICK j \in DOMAIN s : x = s[j]
        BY DEF Positions
      <3>2. j # 1
        BY <1>1, <3>1
      <3>3. j - 1 \in DOMAIN t /\ t[j - 1] = s[j - 1 + 1] /\ j - 1 + 1 = j
        BY <1>1, <3>1, <3>2
      <3> QED BY <3>1, <3>3 DEF Positions
    <2> QED BY <2>1, <2>2, <2>3
  <1> QED BY <1>1, <1>2, <1>3, <1>4 DEF t, h

\* A sequence without repetitions is no longer than the set it is drawn from.
LEMMA LengthBound ==
  ASSUME NEW s \in Seq(Requests), Distinct(s), NEW T, IsFiniteSet(T), Positions(s) \subseteq T
  PROVE  Len(s) <= Cardinality(T)
  <1> DEFINE D == 1..Len(s)
             f == [k \in D |-> s[k]]
  <1>1. Len(s) \in Nat /\ DOMAIN s = D
    OBVIOUS
  <1>2. IsFiniteSet(D) /\ Cardinality(D) = Len(s)
    <2> DEFINE n == Len(s)
    <2>1. n \in Nat /\ n \in Int /\ 1 \in Int
      BY <1>1
    <2> HIDE DEF n
    <2>2. IsFiniteSet(1..n) /\ Cardinality(1..n) = IF 1 > n THEN 0 ELSE n - 1 + 1
      BY <2>1, FS_Interval
    <2> QED BY <2>1, <2>2 DEF n
  <1>3. \A k \in D : s[k] \in T
    BY <1>1 DEF Positions
  <1>4. \A j, k \in D : s[j] = s[k] => j = k
    BY <1>1 DEF Distinct
  <1> HIDE DEF D
  <1>5. f \in Injection(D, T)
    BY <1>3, <1>4 DEF Injection, IsInjective
  <1>6. Cardinality(D) <= Cardinality(T)
    BY <1>5, FS_Injection
  <1> QED BY <1>2, <1>6

\* An element that is not in the sequence is before and after every other one.
LEMMA BeforeAbsent ==
  ASSUME NEW s, NEW m, NEW a, a \notin Positions(s) PROVE Before(s, m, a)
  BY DEF Before, Positions

LEMMA BeforeAppended ==
  ASSUME NEW s \in Seq(Requests), NEW i \in Requests, i \notin Positions(s),
         NEW m \in Positions(s), NEW a, Before(s, m, a)
  PROVE  Before(Append(s, i), m, a)
  <1> DEFINE t == Append(s, i)
  <1>1. /\ DOMAIN t = DOMAIN s \cup {Len(s) + 1} /\ t[Len(s) + 1] = i
        /\ \A k \in DOMAIN s : t[k] = s[k]
    BY Appended
  <1>2. DOMAIN s = 1..Len(s) /\ Len(s) \in Nat
    BY SequenceType
  <1> HIDE DEF t
  <1>3. ASSUME NEW j \in DOMAIN t, NEW k \in DOMAIN t, t[j] = m, t[k] = a PROVE j < k
    <2>1. j \in DOMAIN s /\ s[j] = m
      BY <1>1, <1>3
    <2>2. CASE k \in DOMAIN s
      BY <1>1, <1>3, <2>1, <2>2 DEF Before
    <2>3. CASE k \notin DOMAIN s
      BY <1>1, <1>2, <2>1, <2>3
    <2> QED BY <2>2, <2>3
  <1> QED BY <1>3 DEF Before, t

\* Consuming the first element keeps the order; the first is before every other one.
LEMMA BeforeConsumed ==
  ASSUME NEW s \in Seq(Requests), s # <<>>, NEW m \in Positions(s), NEW a, Before(s, m, a)
  PROVE  Before(Tail(s), m, a) /\ a # Head(s)
  <1> DEFINE t == Tail(s)
  <1>1. /\ Head(s) = s[1] /\ 1 \in DOMAIN s
        /\ \A j \in DOMAIN t : j + 1 \in DOMAIN s /\ t[j] = s[j + 1] /\ j \in Nat /\ j >= 1
    BY Consumed
  <1>2. DOMAIN s = 1..Len(s) /\ Len(s) \in Nat
    BY SequenceType
  <1> HIDE DEF t
  <1>3. Before(t, m, a)
    <2> SUFFICES ASSUME NEW j \in DOMAIN t, NEW k \in DOMAIN t, t[j] = m, t[k] = a PROVE j < k
      BY DEF Before
    <2>1. j + 1 < k + 1 /\ j \in Nat /\ k \in Nat
      BY <1>1 DEF Before
    <2> QED BY <2>1
  <1>4. a # Head(s)
    <2>1. PICK j \in DOMAIN s : s[j] = m
      BY DEF Positions
    <2> QED BY <1>1, <1>2, <2>1 DEF Before
  <1> QED BY <1>3, <1>4 DEF t

--------------------------------------------------------------------------------
(* Typing *)

LEMMA ConstantFacts ==
  /\ MaxConcurrent \in Nat /\ MaxResults \in Nat /\ MaxResults >= MaxConcurrent
  /\ MaxRequestBytes \in Nat /\ MaxReservedBytes \in Nat /\ LastRequestId \in Nat
  /\ Roots = Databases /\ Sizes \subseteq Nat \ {0}
  /\ InitialDelay \in 0..MaximumDelay /\ MaxAttempts \in Nat /\ MaximumDelay \in Nat
  BY SizesAssumption, LimitsAssumption, PolicyAssumption, DatabasesAssumption

LEMMA TypeFacts ==
  ASSUME TypeOK
  PROVE  /\ \A i \in Requests : i \in Nat /\ i # 0
         /\ mailbox \in Seq(Requests) /\ batch \in Seq(Requests)
         /\ active \subseteq Requests /\ IsFiniteSet(active) /\ Unanswered \subseteq Requests
         /\ reserved \in Nat /\ Cardinality(active) \in Nat
         /\ \A r \in Databases : disk[r].accepted \in Nat /\ disk[r].compacted \in Nat
         /\ \A r \in Databases : disk[r].accepted # 0 => disk[r].accepted \in Requests
         /\ nextId \in Nat /\ (nextId # 0 => nextId \in Requests)
  <1>1. mailbox \in Seq(Requests) /\ batch \in Seq(Requests) /\ active \in SUBSET Requests
        /\ reserved \in 0..MaxReservedBytes /\ nextId \in 0..LastRequestId
        /\ disk \in [Databases -> [accepted : 0..LastRequestId, compacted : 0..LastRequestId]]
    BY DEF TypeOK, SchedulerTypeOK
  <1>2. IsFiniteSet(Requests)
    BY ConstantFacts, FS_Interval DEF Requests
  <1>3. IsFiniteSet(active) /\ Cardinality(active) \in Nat
    BY <1>1, <1>2, FS_Subset, FS_CardinalityType
  <1>4. Unanswered \subseteq Requests
    BY <1>1, SequenceType DEF Unanswered
  <1>5. \A r \in Databases : disk[r].accepted \in 0..LastRequestId /\ disk[r].compacted \in 0..LastRequestId
    BY <1>1
  <1> QED BY <1>1, <1>3, <1>4, <1>5, ConstantFacts DEF Requests

LEMMA DelayType == ASSUME NEW n PROVE Delay(n) \in 0..MaximumDelay
  BY ConstantFacts DEF Delay

\* Tables of entries, and what the queue's calls make of them.
Tables == [Roots -> [wait : 0..MaximumDelay, bytes : 0..MaxRequestBytes,
                     attempts : 0..MaxAttempts, inFlight : BOOLEAN]]
Sound(table) == table \in Tables /\ \A r \in Roots : table[r] # NoEntry => table[r].bytes >= 1

LEMMA NoEntryType ==
  /\ NoEntry \in [wait : 0..MaximumDelay, bytes : 0..MaxRequestBytes,
                  attempts : 0..MaxAttempts, inFlight : BOOLEAN]
  /\ NoEntry.bytes = 0 /\ ~NoEntry.inFlight
  BY ConstantFacts DEF NoEntry

LEMMA SettleSound ==
  ASSUME NEW t, Sound(t), NEW r \in Roots
  PROVE  /\ Sound(Settle(t, r)) /\ Settle(t, r)[r] = NoEntry
         /\ \A q \in Roots \ {r} : Settle(t, r)[q] = t[q]
  BY NoEntryType DEF Sound, Tables, Settle

LEMMA DeferredSound ==
  ASSUME NEW t, Sound(t), NEW r \in Roots, NEW bytes \in 1..MaxRequestBytes
  PROVE  /\ Sound(Deferred(t, r, bytes)) /\ Deferred(t, r, bytes)[r] # NoEntry
         /\ \A q \in Roots \ {r} : Deferred(t, r, bytes)[q] = t[q]
  <1> DEFINE e == [wait |-> InitialDelay, bytes |-> bytes, attempts |-> 0, inFlight |-> FALSE]
  <1>1. /\ e \in [wait : 0..MaximumDelay, bytes : 0..MaxRequestBytes,
                  attempts : 0..MaxAttempts, inFlight : BOOLEAN]
        /\ e.bytes >= 1 /\ e.bytes # 0
    BY ConstantFacts
  <1>2. e # NoEntry
    BY <1>1, NoEntryType
  <1> HIDE DEF e
  <1>3. Deferred(t, r, bytes) = [t EXCEPT ![r] = e]
    BY DEF Deferred, e
  <1> QED BY <1>1, <1>2, <1>3 DEF Sound, Tables

\* An entry changed by an attempt, an outcome or the time keeps its reservation.
LEMMA EntryKept ==
  ASSUME NEW t, Sound(t), NEW r \in Roots, NEW e \in [wait : 0..MaximumDelay,
           bytes : 0..MaxRequestBytes, attempts : 0..MaxAttempts, inFlight : BOOLEAN],
         t[r] # NoEntry, e.bytes = t[r].bytes
  PROVE  /\ Sound([t EXCEPT ![r] = e]) /\ [t EXCEPT ![r] = e][r] # NoEntry
         /\ \A q \in Roots \ {r} : [t EXCEPT ![r] = e][q] = t[q]
  <1>1. e.bytes >= 1 /\ e.bytes # 0
    BY DEF Sound, Tables
  <1>2. e # NoEntry
    BY <1>1, NoEntryType
  <1> QED BY <1>1, <1>2 DEF Sound, Tables

LEMMA SubmittedSound ==
  ASSUME NEW t, Sound(t), NEW r \in Due(t)
  PROVE  /\ Sound(Submitted(t, r)) /\ r \in Roots /\ t[r].bytes \in 1..MaxRequestBytes
         /\ \A q \in Roots : t[q] # NoEntry => Submitted(t, r)[q] # NoEntry
  <1> DEFINE n == t[r].attempts + 1
             e == [t[r] EXCEPT !.inFlight = TRUE, !.attempts = n]
  <1>1. r \in Roots /\ t[r] # NoEntry /\ t[r].attempts < MaxAttempts
    BY DEF Due, Owed
  <1>2. t[r] \in [wait : 0..MaximumDelay, bytes : 0..MaxRequestBytes,
                  attempts : 0..MaxAttempts, inFlight : BOOLEAN]
    BY <1>1 DEF Sound, Tables
  <1>3. /\ e \in [wait : 0..MaximumDelay, bytes : 0..MaxRequestBytes,
                  attempts : 0..MaxAttempts, inFlight : BOOLEAN]
        /\ e.bytes = t[r].bytes
    <2>1. n \in 0..MaxAttempts
      BY <1>1, <1>2, ConstantFacts
    <2> HIDE DEF n
    <2> QED BY <1>2, <2>1
  <1>4. Submitted(t, r) = [t EXCEPT ![r] = e]
    BY <1>1 DEF Submitted, Sound, Tables
  <1> HIDE DEF e
  <1>5. t[r].bytes \in 1..MaxRequestBytes
    BY <1>1, <1>2, ConstantFacts DEF Sound
  <1>6. /\ Sound([t EXCEPT ![r] = e]) /\ [t EXCEPT ![r] = e][r] # NoEntry
        /\ \A q \in Roots \ {r} : [t EXCEPT ![r] = e][q] = t[q]
    BY <1>1, <1>3, EntryKept
  <1> QED BY <1>1, <1>4, <1>5, <1>6

LEMMA ElapsedSound ==
  ASSUME NEW t, Sound(t)
  PROVE  Sound(Elapsed(t)) /\ \A q \in Roots : t[q] # NoEntry => Elapsed(t)[q] # NoEntry
  <1> DEFINE e(r) == [t[r] EXCEPT !.wait = IF t[r].wait > 0 THEN t[r].wait - 1 ELSE 0]
  <1>1. \A r \in Roots : t[r] \in [wait : 0..MaximumDelay, bytes : 0..MaxRequestBytes,
                                   attempts : 0..MaxAttempts, inFlight : BOOLEAN]
    BY DEF Sound, Tables
  <1>2. \A r \in Roots : /\ e(r) \in [wait : 0..MaximumDelay, bytes : 0..MaxRequestBytes,
                                      attempts : 0..MaxAttempts, inFlight : BOOLEAN]
                         /\ e(r).bytes = t[r].bytes
                         /\ e(r).attempts = t[r].attempts /\ e(r).inFlight = t[r].inFlight
                         /\ t[r].wait = 0 => e(r) = t[r]
    BY <1>1, ConstantFacts
  <1>3. \A r \in Roots : Elapsed(t)[r] = e(r)
    BY <1>1 DEF Elapsed
  <1>4. \A r \in Roots : t[r] # NoEntry => e(r) # NoEntry /\ e(r).bytes >= 1
    <2> SUFFICES ASSUME NEW r \in Roots, t[r] # NoEntry PROVE e(r) # NoEntry /\ e(r).bytes >= 1
      OBVIOUS
    <2>1. t[r].bytes >= 1 /\ t[r].bytes # 0
      BY <1>1 DEF Sound
    <2>2. e(r).bytes >= 1 /\ e(r).bytes # 0
      BY <1>2, <2>1
    <2> HIDE DEF e
    <2> QED BY <2>2, NoEntryType
  <1>5. \A r \in Roots : t[r] = NoEntry => e(r) = NoEntry
    BY <1>2 DEF NoEntry
  <1>6. Elapsed(t) = [r \in Roots |-> e(r)]
    BY <1>1 DEF Elapsed
  <1> HIDE DEF e
  <1> QED BY <1>2, <1>3, <1>4, <1>5, <1>6 DEF Sound, Tables

LEMMA NotedSound ==
  ASSUME NEW t, Sound(t), NEW r \in Roots, NEW o \in {"completed", "retryable", "terminal"}
  PROVE  /\ Sound(Noted(t, r, o))
         /\ \A q \in Roots \ {r} : Noted(t, r, o)[q] = t[q]
         /\ t[r] # NoEntry => \/ Noted(t, r, o)[r] # NoEntry \/ o = "completed"
                              \/ Disposition(t, r, o) \in {"exhausted", "terminal"}
  <1>1. t[r] \in [wait : 0..MaximumDelay, bytes : 0..MaxRequestBytes,
                  attempts : 0..MaxAttempts, inFlight : BOOLEAN]
    BY DEF Sound, Tables
  <1>2. CASE Disposition(t, r, o) = "refused"
    BY <1>2 DEF Noted
  <1>3. CASE Disposition(t, r, o) = "scheduled"
    <2> DEFINE e == [t[r] EXCEPT !.inFlight = FALSE, !.wait = Delay(t[r].attempts)]
    <2>1. /\ e \in [wait : 0..MaximumDelay, bytes : 0..MaxRequestBytes,
                    attempts : 0..MaxAttempts, inFlight : BOOLEAN]
          /\ e.bytes = t[r].bytes
      BY <1>1, DelayType
    <2>2. Noted(t, r, o) = [t EXCEPT ![r] = e]
      BY <1>3 DEF Noted, Sound, Tables
    <2>3. t[r] # NoEntry
      <3>1. t[r].inFlight
        BY <1>3 DEF Disposition
      <3> QED BY <3>1, NoEntryType
    <2> HIDE DEF e
    <2>4. /\ Sound([t EXCEPT ![r] = e]) /\ [t EXCEPT ![r] = e][r] # NoEntry
          /\ \A q \in Roots \ {r} : [t EXCEPT ![r] = e][q] = t[q]
      BY <2>1, <2>3, EntryKept
    <2> QED BY <2>2, <2>4
  <1>4. CASE Disposition(t, r, o) \notin {"refused", "scheduled"}
    <2>1. Noted(t, r, o) = Settle(t, r)
      BY <1>4 DEF Noted, Settle
    <2>2. o = "completed" \/ Disposition(t, r, o) \in {"exhausted", "terminal"}
      BY <1>4 DEF Disposition
    <2> QED BY <2>1, <2>2, SettleSound
  <1> QED BY <1>2, <1>3, <1>4

--------------------------------------------------------------------------------
(* The worker's steps *)

Results == [state : States \cup {"none"}, compacted : BOOLEAN, error : {"none", "busy", "error"}]
StageNames == Unfinished \cup {"unused", "finished", "drained"}

LEMMA StoreFacts ==
  ASSUME TypeOK
  PROVE  /\ stage \in [Requests -> StageNames] /\ result \in [Requests -> Results]
         /\ disk \in [Databases -> [accepted : 0..LastRequestId, compacted : 0..LastRequestId]]
  BY DEF TypeOK, SchedulerTypeOK, StageNames, Results

LEMMA StageMoves ==
  ASSUME TypeOK, NEW i \in Requests, NEW s \in StageNames, stage' = [stage EXCEPT ![i] = s]
  PROVE  /\ stage' \in [Requests -> StageNames] /\ stage'[i] = s
         /\ \A k \in Requests : k # i => stage'[k] = stage[k]
  BY StoreFacts

LEMMA Decides ==
  ASSUME TypeOK, NEW i \in Requests, NEW state \in States, NEW compacted \in BOOLEAN,
         NEW error \in {"none", "busy", "error"}, Decide(i, state, compacted, error)
  PROVE  /\ stage' = [stage EXCEPT ![i] = "decided"] /\ result' \in [Requests -> Results]
         /\ result'[i].state = state /\ result'[i].compacted = compacted
         /\ \A k \in Requests : k # i => result'[k] = result[k]
  <1> DEFINE new == [state |-> state, compacted |-> compacted, error |-> error]
  <1>1. new \in Results /\ new.state = state /\ new.compacted = compacted
    BY DEF Results
  <1>2. result' = [result EXCEPT ![i] = new] /\ stage' = [stage EXCEPT ![i] = "decided"]
    BY DEF Decide
  <1> HIDE DEF new
  <1> QED BY <1>1, <1>2, StoreFacts

\* What a step of the worker cannot touch.
LEMMA WorkerFrame ==
  ASSUME PipelineInv, UNCHANGED ledger,
         UNCHANGED <<at, quit, app, session, intent, batch, retries, saveError, lastExit, failed>>
  PROVE  /\ Captured' /\ Counted' /\ Stages' /\ Unanswered' = Unanswered
         /\ \A i : IsSnapshot(i)' = IsSnapshot(i)
         /\ UNCHANGED <<request, cancelled, active, reserved, nextId>>
  <1>1. UNCHANGED <<request, cancelled, active, reserved, nextId>>
    BY DEF ledger
  <1>2. Unanswered' = Unanswered
    BY <1>1 DEF Unanswered, Positions
  <1>3. Captured' /\ Stages'
    BY <1>1, <1>2 DEF PipelineInv, Captured, Stages, IsSnapshot
  <1>4. Counted'
    BY <1>1, ReserveNow, ReserveNext DEF PipelineInv, Counted
  <1> QED BY <1>1, <1>2, <1>3, <1>4 DEF IsSnapshot

LEMMA InvFacts ==
  ASSUME PipelineInv
  PROVE  /\ TypeOK /\ Numbered /\ Captured /\ Counted /\ Placed /\ InOrder /\ Truthful
         /\ Owing /\ Exiting /\ Stages
  BY DEF PipelineInv

LEMMA AtWorkFacts ==
  ASSUME PipelineInv, NEW i \in Requests, stage[i] \in AtWork
  PROVE  /\ i \in active /\ i \in Unanswered /\ i \notin Positions(mailbox) /\ i \notin Positions(batch)
         /\ request[i].root \in Databases /\ request[i].kind \in Kinds /\ at # "down"
  BY InvFacts DEF Placed, InStage, Unanswered, Captured, AtWork

\* A step that decides nothing for a consumed or delivered result keeps what is owed.
LEMMA OwingKept ==
  ASSUME PipelineInv, UNCHANGED <<request, active, batch, at, retries, told, mailbox>>,
         \A k \in Positions(mailbox) \cup Positions(batch) : result'[k] = result[k],
         \A r \in Databases : /\ disk'[r].accepted = disk[r].accepted
                              /\ disk'[r].compacted \in {disk[r].compacted, disk[r].accepted},
         \A k \in InStage({"decided"})' : Compacts(k)' => ~Pending(request[k].root)'
  PROVE  Owing'
  <1>1. /\ Owing /\ TypeOK /\ Captured /\ Placed
    BY InvFacts
  <1>2. \A r \in Databases : /\ disk'[r].accepted = disk[r].accepted
                             /\ Pending(r)' => Pending(r)
                             /\ Outstanding(r)' <=> Outstanding(r)
    <2>1. Unanswered' = Unanswered
      BY DEF Unanswered, Positions
    <2>2. \A r \in Databases : disk[r].accepted \in Nat /\ disk[r].compacted \in Nat
      BY <1>1, TypeFacts
    <2> QED BY <2>1, <2>2 DEF Pending, Outstanding
  <1>3. Positions(mailbox)' = Positions(mailbox) /\ Positions(batch)' = Positions(batch)
    BY DEF Positions
  <1>4. \A k \in Positions(mailbox) \cup Positions(batch) :
           (Compacts(k)' => Compacts(k)) /\ request[k].root \in Databases
    BY <1>1 DEF Compacts, IsSnapshot, Captured, Placed, Unanswered
  <1>5. \A r \in Roots : at' # "down" /\ Pending(r)' =>
                         Outstanding(r)' \/ retries'[r] # NoEntry \/ r \in told'
    BY <1>1, <1>2, ConstantFacts DEF Owing
  <1>6. ASSUME NEW m \in Positions(mailbox), Compacts(m)', NEW r \in Databases, r = request[m].root,
               Pending(r)'
        PROVE  /\ Outstanding(r)' /\ disk'[r].accepted \notin Positions(batch)
               /\ Before(mailbox, m, disk'[r].accepted)
    BY <1>1, <1>2, <1>4, <1>6 DEF Owing
  <1>7. ASSUME NEW m \in Positions(batch), Compacts(m)', NEW r \in Databases, r = request[m].root,
               Pending(r)'
        PROVE  Outstanding(r)' /\ Before(batch, m, disk'[r].accepted)
    BY <1>1, <1>2, <1>4, <1>7 DEF Owing
  <1>8. \A m \in Positions(mailbox) \cup Positions(batch) : request[m].root \in Databases
    BY <1>4
  <1> QED BY <1>3, <1>5, <1>6, <1>7, <1>8 DEF Owing

LEMMA StartStep ==
  ASSUME PipelineInv, NEW i \in Requests, Start(i), UNCHANGED owner
  PROVE  PipelineInv'
  <1>1. /\ WorkerFree /\ Eligible(i) /\ stage[i] = "queued"
        /\ UNCHANGED <<mailbox, disk, told>> /\ UNCHANGED ledger
        /\ UNCHANGED <<at, quit, app, session, intent, batch, retries, saveError, lastExit, failed>>
    BY DEF Start, Eligible, owner
  <1>2. /\ TypeOK /\ Numbered /\ Placed /\ InOrder /\ Truthful /\ Owing /\ Exiting
    BY InvFacts
  <1>3. /\ Captured' /\ Counted' /\ Stages' /\ Unanswered' = Unanswered
        /\ \A k : IsSnapshot(k)' = IsSnapshot(k)
        /\ UNCHANGED <<request, cancelled, active, reserved, nextId>>
    BY <1>1, WorkerFrame
  <1>4. PICK s \in {"decided", "published", "started"} :
          /\ stage' = [stage EXCEPT ![i] = s] /\ result' \in [Requests -> Results]
          /\ \A k \in Requests : k # i => result'[k] = result[k]
          /\ result'[i].state \in {"none", "cancelled"}
          /\ s = "published" => cancelled # {}
    <2>1. result[i].state = "none" /\ result \in [Requests -> Results]
      BY <1>1, <1>2, StoreFacts DEF Truthful, InStage
    <2>2. CASE Decide(i, "cancelled", FALSE, "none")
      BY <1>2, <2>2, Decides DEF States
    <2>3. CASE stage' = [stage EXCEPT ![i] = "published"] /\ UNCHANGED result /\ i \in cancelled
      BY <2>1, <2>3
    <2>4. CASE stage' = [stage EXCEPT ![i] = "started"] /\ UNCHANGED result
      BY <2>1, <2>4
    <2> QED BY <2>2, <2>3, <2>4 DEF Start
  <1>5. /\ stage' \in [Requests -> StageNames] /\ stage'[i] = s
        /\ \A k \in Requests : k # i => stage'[k] = stage[k]
    <2>1. s \in StageNames
      BY DEF StageNames, Unfinished
    <2> QED BY <1>2, <1>4, <2>1, StageMoves
  <1>6. i \in active /\ i \in Unanswered /\ i \notin Positions(mailbox) /\ i \notin Positions(batch)
        /\ request[i].root \in Databases /\ at # "down"
    BY <1>1, AtWorkFacts DEF AtWork, Unfinished
  <1>7. \A k \in Requests : stage[k] \notin Busy
    BY <1>1 DEF WorkerFree, InStage, Busy
  <1> USE DEF InStage
  <1>8. TypeOK'
    BY <1>1, <1>2, <1>3, <1>4, <1>5 DEF TypeOK, SchedulerTypeOK, StageNames, Results
  <1>9. Numbered'
    BY <1>1, <1>2, <1>3, <1>4, <1>5, <1>6, TypeFacts DEF Numbered
  <1>10. Placed'
    BY <1>1, <1>2, <1>3, <1>4, <1>5, <1>6 DEF Placed, AtWork, Unfinished
  <1>11. InOrder'
    <2>1. \A k \in Requests : stage[k] = "queued" /\ IsSnapshot(k) /\ IsSnapshot(i) => ~(k < i)
      BY <1>1 DEF Eligible, IsSnapshot
    <2>2. ASSUME NEW j \in InStage(Busy)', NEW k \in InStage(Busy)' PROVE j = k
      BY <1>5, <1>7
    <2>3. ASSUME NEW j \in InStage({"started"})', NEW k \in InStage({"queued"})',
                 IsSnapshot(j), IsSnapshot(k) PROVE j < k
      <3>1. j = i /\ k # i /\ stage[k] = "queued" /\ k \in Requests /\ s = "started"
        BY <1>5, <1>7, <2>3 DEF Busy, Unfinished
      <3> QED BY <1>2, <2>1, <2>3, <3>1, TypeFacts
    <2>4. ASSUME NEW r \in Databases, NEW k \in InStage({"queued", "started"})', IsSnapshot(k)
          PROVE disk[r].accepted < k
      <3>1. k \in Requests /\ stage[k] \in {"queued", "started"}
        BY <1>1, <1>5, <2>4
      <3> QED BY <1>2, <2>4, <3>1 DEF InOrder
    <2> QED BY <1>1, <1>3, <2>2, <2>3, <2>4 DEF InOrder
  <1>12. Truthful'
    <2>1. \A k \in Unanswered : k \in Requests
      BY <1>2, TypeFacts
    <2>2. \A r \in Databases : disk[r].accepted \in Unanswered => disk[r].accepted # i
      BY <1>1, <1>2 DEF Truthful
    <2>3. \A k \in InStage({"unused", "queued"})' : result'[k].state = "none"
      BY <1>2, <1>4, <1>5 DEF Truthful
    <2>4. \A k \in InStage({"journalled"})' : IsSnapshot(k)' /\ disk'[request'[k].root].accepted = k
      BY <1>1, <1>2, <1>3, <1>4, <1>5 DEF Truthful
    <2>5. \A k \in Unanswered : IsSnapshot(k) /\ result'[k].state = "succeeded"
                                /\ stage'[k] \notin {"queued", "started"}
                                => disk[request[k].root].accepted >= k
      BY <1>2, <1>4, <1>5, <2>1 DEF Truthful
    <2>6. ASSUME NEW r \in Databases, disk[r].accepted \in Unanswered
          PROVE  LET a == disk[r].accepted
                 IN  /\ IsSnapshot(a) /\ request[a].root = r /\ result'[a].state = "succeeded"
                     /\ stage'[a] \notin {"queued", "started"}
      BY <1>2, <1>4, <1>5, <2>1, <2>2, <2>6 DEF Truthful
    <2> QED BY <1>1, <1>3, <2>3, <2>4, <2>5, <2>6 DEF Truthful
  <1>13. Owing'
    <2>1. \A k \in Positions(mailbox) \cup Positions(batch) : result'[k] = result[k]
      BY <1>2, <1>4, <1>6, TypeFacts, SequenceType
    <2>2. \A k \in Requests : k # i => (Compacts(k)' <=> Compacts(k))
      BY <1>3, <1>4 DEF Compacts
    <2>3. ~Compacts(i)'
      BY <1>4 DEF Compacts
    <2>4. \A k \in InStage({"decided"})' : Compacts(k)' => ~Pending(request[k].root)'
      BY <1>1, <1>2, <1>3, <1>5, <2>2, <2>3 DEF Owing, Pending
    <2> QED BY <1>1, <1>3, <2>1, <2>4, OwingKept
  <1>14. Exiting'
    <2>1. \A k \in InStage({"queued", "started"})' : k \in InStage({"queued", "started"})
      BY <1>1, <1>5
    <2> QED BY <1>1, <1>2, <1>3, <2>1 DEF Exiting, Leaving, Saved
  <1> QED BY <1>3, <1>8, <1>9, <1>10, <1>11, <1>12, <1>13, <1>14 DEF PipelineInv

\* What stays the same for a request that is at work and for the others.
LEMMA Worked ==
  ASSUME PipelineInv, NEW i \in Requests, stage[i] \in AtWork \ {"queued"}
  PROVE  \A k \in Requests : k # i => stage[k] \notin Busy
  BY InvFacts DEF InOrder, InStage, Busy, AtWork

LEMMA JournalAccepted ==
  ASSUME PipelineInv, NEW i \in Requests, stage[i] = "started", IsSnapshot(i),
         disk' = [disk EXCEPT ![request[i].root].accepted = i],
         result' = [result EXCEPT ![i].state = "succeeded"],
         stage' = [stage EXCEPT ![i] = "journalled"],
         told' = told \ {request[i].root}, UNCHANGED mailbox, UNCHANGED ledger,
         UNCHANGED <<at, quit, app, session, intent, batch, retries, saveError, lastExit, failed>>
  PROVE  PipelineInv'
  <1>1. /\ TypeOK /\ Numbered /\ Captured /\ Placed /\ InOrder /\ Truthful /\ Owing /\ Exiting
    BY InvFacts
  <1>2. /\ Captured' /\ Counted' /\ Stages' /\ Unanswered' = Unanswered
        /\ \A k : IsSnapshot(k)' = IsSnapshot(k)
        /\ UNCHANGED <<request, cancelled, active, reserved, nextId>>
    BY WorkerFrame
  <1>3. i \in active /\ i \in Unanswered /\ i \notin Positions(mailbox) /\ i \notin Positions(batch)
        /\ request[i].root \in Databases /\ at # "down"
    BY AtWorkFacts DEF AtWork, Unfinished
  <1>4. \A k \in Requests : k # i => stage[k] \notin Busy
    BY Worked DEF AtWork, Unfinished
  <1>5. /\ stage' \in [Requests -> StageNames] /\ stage'[i] = "journalled"
        /\ \A k \in Requests : k # i => stage'[k] = stage[k]
    <2>1. "journalled" \in StageNames
      BY DEF StageNames, Unfinished
    <2> QED BY <1>1, <2>1, StageMoves
  <1>6. /\ result' \in [Requests -> Results] /\ result'[i].state = "succeeded"
        /\ \A k \in Requests : k # i => result'[k] = result[k]
    <2>1. result \in [Requests -> Results]
      BY <1>1, StoreFacts
    <2> QED BY <2>1 DEF Results, States
  <1> DEFINE q == request[i].root
  <1>7. /\ disk' \in [Databases -> [accepted : 0..LastRequestId, compacted : 0..LastRequestId]]
        /\ disk'[q].accepted = i
        /\ \A r \in Databases : /\ disk'[r].compacted = disk[r].compacted
                                /\ r # q => disk'[r].accepted = disk[r].accepted
    <2>1. /\ disk \in [Databases -> [accepted : 0..LastRequestId, compacted : 0..LastRequestId]]
          /\ i \in 0..LastRequestId
      BY <1>1, StoreFacts DEF Requests
    <2> QED BY <1>3, <2>1
  <1>8. q \in Databases /\ q \in Roots /\ request[i].root = q
    BY <1>3, ConstantFacts
  <1> HIDE DEF q
  <1>9. \A r \in Databases : disk[r].accepted < i /\ disk[r].accepted \in Nat
    BY <1>1, TypeFacts DEF InOrder, InStage
  <1>10. i \in Nat /\ \A k \in Requests : k \in Nat
    BY <1>1, TypeFacts
  <1> USE DEF InStage
  <1>11. TypeOK'
    <2>1. told' \subseteq Roots
      BY <1>1 DEF TypeOK
    <2> QED BY <1>1, <1>2, <1>5, <1>6, <1>7, <2>1 DEF TypeOK, SchedulerTypeOK, StageNames, Results
  <1>12. Numbered'
    <2>1. \A r \in Databases : disk'[r].accepted # 0 => stage'[disk'[r].accepted] # "unused"
      <3> SUFFICES ASSUME NEW r \in Databases, disk'[r].accepted # 0
                   PROVE  stage'[disk'[r].accepted] # "unused"
        OBVIOUS
      <3>1. CASE r = q
        BY <1>5, <1>7, <3>1
      <3>2. CASE r # q
        <4>1. disk[r].accepted \in Requests /\ stage[disk[r].accepted] # "unused"
          BY <1>1, <1>7, <3>2, TypeFacts DEF Numbered
        <4> QED BY <1>5, <1>7, <3>2, <4>1
      <3> QED BY <3>1, <3>2
    <2>2. \A k \in Requests : stage'[k] = "unused" => k # i /\ stage[k] = "unused"
      BY <1>5
    <2>3. \A k \in Requests : stage[k] = "unused" => k # i
      OBVIOUS
    <2> QED BY <1>1, <1>2, <1>5, <2>1, <2>2, <2>3 DEF Numbered, Positions
  <1>13. Placed'
    BY <1>1, <1>2, <1>3, <1>5 DEF Placed, AtWork, Unfinished
  <1>14. InOrder'
    <2>1. ASSUME NEW j \in InStage(Busy)', NEW k \in InStage(Busy)' PROVE j = k
      BY <1>4, <1>5
    <2>2. \A j \in InStage({"started"})' : FALSE
      BY <1>4, <1>5 DEF Busy, Unfinished
    <2>3. ASSUME NEW r \in Databases, NEW k \in InStage({"queued", "started"})', IsSnapshot(k)
          PROVE disk'[r].accepted < k
      <3>1. k \in Requests /\ stage[k] = "queued"
        BY <1>4, <1>5 DEF Busy, Unfinished
      <3>2. i < k /\ disk[r].accepted < k
        BY <1>1, <2>3, <3>1 DEF InOrder
      <3> QED BY <1>7, <3>2
    <2> QED BY <1>2, <2>1, <2>2, <2>3 DEF InOrder
  <1>15. Truthful'
    <2>1. \A k \in Unanswered : k \in Requests
      BY <1>1, TypeFacts
    <2>2. \A k \in InStage({"unused", "queued"})' : result'[k].state = "none"
      BY <1>1, <1>5, <1>6 DEF Truthful
    <2>3. \A k \in InStage({"journalled"})' : k = i
      BY <1>4, <1>5 DEF Busy, Unfinished
    <2>4. ASSUME NEW k \in Unanswered, IsSnapshot(k), result'[k].state = "succeeded",
                 stage'[k] \notin {"queued", "started"}
          PROVE  disk'[request[k].root].accepted >= k
      <3>1. CASE k = i
        BY <1>7, <1>8, <1>10, <3>1
      <3>2. CASE k # i
        <4>1. disk[request[k].root].accepted >= k /\ request[k].root \in Databases
          BY <1>1, <1>5, <1>6, <2>1, <2>4, <3>2 DEF Truthful, Captured
        <4> QED BY <1>7, <1>9, <1>10, <2>1, <4>1
      <3> QED BY <3>1, <3>2
    <2>5. ASSUME NEW r \in Databases, disk'[r].accepted \in Unanswered
          PROVE  LET a == disk'[r].accepted
                 IN  /\ IsSnapshot(a) /\ request[a].root = r /\ result'[a].state = "succeeded"
                     /\ stage'[a] \notin {"queued", "started"}
      <3>1. CASE r = q
        BY <1>5, <1>6, <1>7, <1>8, <3>1
      <3>2. CASE r # q
        <4>1. disk'[r].accepted = disk[r].accepted /\ disk[r].accepted # i
          BY <1>7, <1>9, <1>10, <3>2
        <4> QED BY <1>1, <1>5, <1>6, <2>1, <2>5, <4>1 DEF Truthful
      <3> QED BY <3>1, <3>2
    <2> QED BY <1>2, <1>7, <1>8, <2>2, <2>3, <2>4, <2>5 DEF Truthful
  <1>16. Owing'
    <2>1. ASSUME NEW r \in Roots, Pending(r)'
          PROVE  Outstanding(r)' \/ retries'[r] # NoEntry \/ r \in told'
      <3>1. CASE r = q
        BY <1>2, <1>3, <1>7, <3>1 DEF Outstanding
      <3>2. CASE r # q
        <4>1. r \in Databases /\ Pending(r) /\ (Outstanding(r)' <=> Outstanding(r))
          BY <1>2, <1>7, <2>1, <3>2, ConstantFacts DEF Pending, Outstanding
        <4> QED BY <1>1, <1>3, <1>8, <3>2, <4>1 DEF Owing
      <3> QED BY <3>1, <3>2
    <2>2. \A k \in InStage({"decided"})' : FALSE
      BY <1>4, <1>5 DEF Busy, Unfinished
    <2>3. \A m \in Positions(mailbox) \cup Positions(batch) :
             m # i /\ m \in Requests /\ request[m].root \in Databases
      BY <1>1, <1>3, TypeFacts, SequenceType DEF Captured, Placed, Unanswered
    <2>4. \A m \in Positions(mailbox) \cup Positions(batch) : Compacts(m)' => Compacts(m)
      BY <1>2, <1>6, <2>3 DEF Compacts
    <2>5. \A r \in Databases : r # q => /\ disk'[r].accepted = disk[r].accepted
                                        /\ Pending(r)' <=> Pending(r)
                                        /\ Outstanding(r)' <=> Outstanding(r)
      BY <1>2, <1>7 DEF Pending, Outstanding
    <2>6. disk'[q].accepted \in Unanswered'
      BY <1>2, <1>3, <1>7
    <2>10. \A m : Before(mailbox, m, i) /\ Before(batch, m, i)
      BY <1>3, BeforeAbsent
    <2>7. ASSUME NEW m \in Positions(mailbox), Compacts(m)', NEW r \in Databases, r = request[m].root,
                 Pending(r)'
          PROVE  /\ Outstanding(r)' /\ disk'[r].accepted \notin Positions(batch)
                 /\ Before(mailbox, m, disk'[r].accepted)
      <3>1. CASE r = q
        BY <1>3, <1>7, <2>6, <2>10, <3>1 DEF Outstanding
      <3>2. CASE r # q
        BY <1>1, <2>4, <2>5, <2>7, <3>2 DEF Owing
      <3> QED BY <3>1, <3>2
    <2>8. ASSUME NEW m \in Positions(batch), Compacts(m)', NEW r \in Databases, r = request[m].root,
                 Pending(r)'
          PROVE  Outstanding(r)' /\ Before(batch, m, disk'[r].accepted)
      <3>1. CASE r = q
        BY <1>7, <2>6, <2>10, <3>1 DEF Outstanding
      <3>2. CASE r # q
        BY <1>1, <2>4, <2>5, <2>8, <3>2 DEF Owing
      <3> QED BY <3>1, <3>2
    <2>9. Positions(mailbox)' = Positions(mailbox) /\ Positions(batch)' = Positions(batch)
      BY DEF Positions
    <2> QED BY <1>2, <2>1, <2>2, <2>3, <2>7, <2>8, <2>9 DEF Owing
  <1>17. Exiting'
    <2>1. \A k \in InStage({"queued", "started"})' : k \in InStage({"queued", "started"})
      BY <1>5
    <2>2. ASSUME Leaving PROVE i <= lastExit /\ lastExit \in Nat
      BY <1>1, <1>10, <2>2 DEF Exiting
    <2>3. ASSUME Leaving, session \in Databases, Saved PROVE Saved'
      BY <1>7, <1>9, <1>10, <2>2, <2>3 DEF Saved
    <2>4. ASSUME Leaving, session \notin Databases, Saved PROVE FALSE
      <3>1. session # "none"
        BY <2>4, InvFacts DEF Leaving, Stages
      <3> QED BY <1>1, <2>4, <3>1, ConstantFacts DEF TypeOK
    <2>5. Leaving => \A r \in Databases : disk'[r].accepted <= lastExit
      BY <1>1, <1>7, <2>2 DEF Exiting
    <2>6. Leaving' <=> Leaving
      BY DEF Leaving
    <2>7. at = "stop" /\ session # "none" => failed
      BY <1>1, <1>3 DEF Exiting
    <2> QED BY <1>1, <1>2, <2>1, <2>3, <2>4, <2>5, <2>6, <2>7 DEF Exiting
  <1> QED BY <1>2, <1>11, <1>12, <1>13, <1>14, <1>15, <1>16, <1>17 DEF PipelineInv

\* Compaction only changes what a root has compacted.
LEMMA CompactedFacts ==
  ASSUME TypeOK, NEW q \in Databases, Compacted(q)
  PROVE  /\ disk' \in [Databases -> [accepted : 0..LastRequestId, compacted : 0..LastRequestId]]
         /\ \A r \in Databases : /\ disk'[r].accepted = disk[r].accepted
                                 /\ disk'[r].compacted \in {disk[r].compacted, disk[r].accepted}
         /\ disk'[q].compacted = disk'[q].accepted /\ disk'[q].accepted \in Nat
  <1>1. disk \in [Databases -> [accepted : 0..LastRequestId, compacted : 0..LastRequestId]]
        /\ disk[q].accepted \in Nat
    BY StoreFacts, TypeFacts
  <1>2. disk' = [disk EXCEPT ![q].compacted = disk[q].accepted]
    BY DEF Compacted
  <1> QED BY <1>1, <1>2

\* The worker fills in the rest of a result: a journalled snapshot stays accepted.
LEMMA DecideStep ==
  ASSUME PipelineInv, NEW i \in Requests, stage[i] \in {"started", "journalled"},
         NEW state \in States, NEW compacted \in BOOLEAN, NEW error \in {"none", "busy", "error"},
         Decide(i, state, compacted, error),
         disk' \in [Databases -> [accepted : 0..LastRequestId, compacted : 0..LastRequestId]],
         \A r \in Databases : /\ disk'[r].accepted = disk[r].accepted
                              /\ disk'[r].compacted \in {disk[r].compacted, disk[r].accepted},
         IsSnapshot(i) => (state = "succeeded" <=> stage[i] = "journalled"),
         state = "succeeded" /\ (~IsSnapshot(i) \/ compacted) => ~Pending(request[i].root)',
         UNCHANGED <<mailbox, told>>, UNCHANGED ledger,
         UNCHANGED <<at, quit, app, session, intent, batch, retries, saveError, lastExit, failed>>
  PROVE  PipelineInv'
  <1>1. /\ TypeOK /\ Numbered /\ Captured /\ Placed /\ InOrder /\ Truthful /\ Owing /\ Exiting
    BY InvFacts
  <1>2. /\ Captured' /\ Counted' /\ Stages' /\ Unanswered' = Unanswered
        /\ \A k : IsSnapshot(k)' = IsSnapshot(k)
        /\ UNCHANGED <<request, cancelled, active, reserved, nextId>>
    BY WorkerFrame
  <1>3. i \in active /\ i \in Unanswered /\ i \notin Positions(mailbox) /\ i \notin Positions(batch)
        /\ request[i].root \in Databases /\ at # "down"
    BY AtWorkFacts DEF AtWork, Unfinished
  <1>4. \A k \in Requests : k # i => stage[k] \notin Busy
    BY Worked DEF AtWork, Unfinished
  <1>5. /\ stage' \in [Requests -> StageNames] /\ stage'[i] = "decided"
        /\ \A k \in Requests : k # i => stage'[k] = stage[k]
        /\ result' \in [Requests -> Results]
        /\ result'[i].state = state /\ result'[i].compacted = compacted
        /\ \A k \in Requests : k # i => result'[k] = result[k]
    <2>1. "decided" \in StageNames
      BY DEF StageNames, Unfinished
    <2> QED BY <1>1, <2>1, Decides, StageMoves
  <1> USE DEF InStage
  <1>6. TypeOK'
    BY <1>1, <1>2, <1>5 DEF TypeOK, SchedulerTypeOK, StageNames, Results
  <1>7. Numbered'
    <2>1. \A k \in Requests : stage'[k] = "unused" <=> stage[k] = "unused"
      BY <1>5
    <2>2. \A r \in Databases : disk'[r].accepted # 0 => stage'[disk'[r].accepted] # "unused"
      BY <1>1, <2>1, TypeFacts DEF Numbered
    <2> QED BY <1>1, <1>2, <2>1, <2>2 DEF Numbered, Positions
  <1>8. Placed'
    <2>1. Positions(mailbox)' = Positions(mailbox) /\ Positions(batch)' = Positions(batch)
          /\ Distinct(mailbox)' = Distinct(mailbox) /\ Distinct(batch)' = Distinct(batch)
      BY DEF Positions, Distinct
    <2>2. \A k \in Requests : /\ stage'[k] \in AtWork <=> stage[k] \in AtWork
                              /\ stage'[k] \in Unfinished <=> stage[k] \in Unfinished
      BY <1>5 DEF AtWork, Unfinished
    <2>3. InStage(AtWork)' = InStage(AtWork) /\ InStage(Unfinished)' = InStage(Unfinished)
      BY <2>2 DEF AtWork, Unfinished
    <2>4. \A k \in active : stage'[k] \in AtWork <=> stage[k] \in AtWork
      BY <1>1, <2>2, TypeFacts
    <2> HIDE DEF InStage
    <2> QED BY <1>1, <1>2, <2>1, <2>3, <2>4 DEF Placed
  <1>9. InOrder'
    <2>1. ASSUME NEW j \in InStage(Busy)', NEW k \in InStage(Busy)' PROVE j = k
      BY <1>4, <1>5
    <2>2. \A j \in InStage({"started"})' : FALSE
      BY <1>4, <1>5 DEF Busy, Unfinished
    <2>3. \A k \in InStage({"queued", "started"})' : k \in InStage({"queued", "started"})
      BY <1>5
    <2> QED BY <1>1, <1>2, <2>1, <2>2, <2>3 DEF InOrder
  <1>10. Truthful'
    <2>1. \A k \in Unanswered : k \in Requests
      BY <1>1, TypeFacts
    <2>2. \A k \in InStage({"unused", "queued"})' : result'[k].state = "none"
      BY <1>1, <1>5 DEF Truthful
    <2>3. \A k \in InStage({"journalled"})' : FALSE
      BY <1>4, <1>5 DEF Busy, Unfinished
    <2>4. ASSUME NEW k \in Unanswered, IsSnapshot(k), result'[k].state = "succeeded",
                 stage'[k] \notin {"queued", "started"}
          PROVE  disk'[request[k].root].accepted >= k
      <3>1. request[k].root \in Databases /\ disk'[request[k].root].accepted = disk[request[k].root].accepted
        BY <1>1, <2>1, <2>4 DEF Captured
      <3>2. CASE k = i
        <4>1. disk[request[i].root].accepted = i /\ i \in Nat
          BY <1>1, <1>5, <2>4, <3>2, TypeFacts DEF Truthful
        <4> QED BY <3>1, <3>2, <4>1
      <3>3. CASE k # i
        BY <1>1, <1>5, <2>1, <2>4, <3>1, <3>3 DEF Truthful
      <3> QED BY <3>2, <3>3
    <2>5. ASSUME NEW r \in Databases, disk[r].accepted \in Unanswered
          PROVE  LET a == disk[r].accepted
                 IN  /\ IsSnapshot(a) /\ request[a].root = r /\ result'[a].state = "succeeded"
                     /\ stage'[a] \notin {"queued", "started"}
      <3>1. CASE disk[r].accepted = i
        BY <1>1, <1>5, <2>5, <3>1 DEF Truthful
      <3>2. CASE disk[r].accepted # i
        BY <1>1, <1>5, <2>1, <2>5, <3>2 DEF Truthful
      <3> QED BY <3>1, <3>2
    <2> QED BY <1>2, <2>2, <2>3, <2>4, <2>5 DEF Truthful
  <1>11. Owing'
    <2>1. \A k \in Positions(mailbox) \cup Positions(batch) : result'[k] = result[k]
      BY <1>1, <1>3, <1>5, TypeFacts, SequenceType
    <2>2. \A k \in InStage({"decided"})' : k = i
      BY <1>4, <1>5 DEF Busy, Unfinished
    <2>3. Compacts(i)' => state = "succeeded" /\ (~IsSnapshot(i) \/ compacted)
      BY <1>2, <1>5 DEF Compacts
    <2>4. \A k \in InStage({"decided"})' : Compacts(k)' => ~Pending(request[k].root)'
      BY <2>2, <2>3
    <2> QED BY <1>2, <2>1, <2>4, OwingKept
  <1>12. Exiting'
    <2>1. \A k \in InStage({"queued", "started"})' : k \in InStage({"queued", "started"})
      BY <1>5
    <2>2. Leaving' <=> Leaving
      BY DEF Leaving
    <2>3. session \in Databases => (Saved' <=> Saved)
      BY DEF Saved
    <2>4. Leaving => session \in Databases
      <3>1. Leaving => session # "none"
        BY InvFacts DEF Leaving, Stages
      <3> QED BY <1>1, <3>1, ConstantFacts DEF TypeOK
    <2>5. ~(at = "stop" /\ session # "none" /\ ~failed)
      BY <1>1, <1>3 DEF Exiting
    <2>6. \A r \in Databases : disk[r].accepted <= lastExit <=> disk'[r].accepted <= lastExit
      OBVIOUS
    <2> QED BY <1>1, <1>2, <2>1, <2>2, <2>3, <2>4, <2>5, <2>6 DEF Exiting
  <1> QED BY <1>2, <1>6, <1>7, <1>8, <1>9, <1>10, <1>11, <1>12 DEF PipelineInv

LEMMA WorkingStep ==
  ASSUME PipelineInv, NEW i \in Requests,
         \/ CompactAccepted(i) /\ UNCHANGED owner
         \/ Checkpoint(i) /\ UNCHANGED owner
         \/ JournalStep(i)
  PROVE  PipelineInv'
  <1>1. TypeOK /\ Truthful
    BY InvFacts
  <1>2. "succeeded" \in States /\ "failed" \in States /\ "cancelled" \in States
    BY DEF States
  <1>3. disk \in [Databases -> [accepted : 0..LastRequestId, compacted : 0..LastRequestId]]
    BY <1>1, StoreFacts
  <1>4. CASE CompactAccepted(i) /\ UNCHANGED owner
    <2>1. /\ stage[i] = "journalled" /\ UNCHANGED <<mailbox, told>> /\ UNCHANGED ledger
          /\ UNCHANGED <<at, quit, app, session, intent, batch, retries, saveError, lastExit, failed>>
      BY <1>4 DEF CompactAccepted, owner
    <2>2. IsSnapshot(i) /\ request[i].root \in Databases
      <3>1. stage[i] \in AtWork
        BY <2>1 DEF AtWork, Unfinished
      <3> QED BY <1>1, <2>1, <3>1, AtWorkFacts DEF Truthful, InStage
    <2>3. CASE Decide(i, "succeeded", TRUE, "none") /\ Compacted(request[i].root)
      <3>1. ~Pending(request[i].root)'
        <4>1. disk'[request[i].root].compacted = disk'[request[i].root].accepted
              /\ disk'[request[i].root].accepted \in Nat /\ request' = request
          BY <1>1, <2>1, <2>2, <2>3, CompactedFacts DEF ledger
        <4> QED BY <4>1 DEF Pending
      <3>2. /\ disk' \in [Databases -> [accepted : 0..LastRequestId, compacted : 0..LastRequestId]]
            /\ \A r \in Databases : /\ disk'[r].accepted = disk[r].accepted
                                    /\ disk'[r].compacted \in {disk[r].compacted, disk[r].accepted}
        BY <1>1, <2>2, <2>3, CompactedFacts
      <3> QED BY <1>2, <2>1, <2>2, <2>3, <3>1, <3>2, DecideStep
    <2>4. ASSUME NEW e \in {"none", "busy", "error"}, Decide(i, "succeeded", FALSE, e), UNCHANGED disk
          PROVE  PipelineInv'
      BY <1>2, <1>3, <2>1, <2>2, <2>4, DecideStep
    <2> QED BY <1>4, <2>3, <2>4 DEF CompactAccepted
  <1>5. CASE Checkpoint(i) /\ UNCHANGED owner
    <2>1. /\ stage[i] = "started" /\ ~IsSnapshot(i) /\ UNCHANGED <<mailbox, told>> /\ UNCHANGED ledger
          /\ UNCHANGED <<at, quit, app, session, intent, batch, retries, saveError, lastExit, failed>>
      BY <1>5 DEF Checkpoint, owner, IsSnapshot
    <2>2. request[i].root \in Databases
      BY <2>1, AtWorkFacts DEF AtWork, Unfinished
    <2>3. CASE Decide(i, "succeeded", Pending(request[i].root), "none") /\ Compacted(request[i].root)
      <3>1. ~Pending(request[i].root)'
        <4>1. disk'[request[i].root].compacted = disk'[request[i].root].accepted
              /\ disk'[request[i].root].accepted \in Nat /\ request' = request
          BY <1>1, <2>1, <2>2, <2>3, CompactedFacts DEF ledger
        <4> QED BY <4>1 DEF Pending
      <3>2. /\ disk' \in [Databases -> [accepted : 0..LastRequestId, compacted : 0..LastRequestId]]
            /\ \A r \in Databases : /\ disk'[r].accepted = disk[r].accepted
                                    /\ disk'[r].compacted \in {disk[r].compacted, disk[r].accepted}
        BY <1>1, <2>2, <2>3, CompactedFacts
      <3>3. Pending(request[i].root) \in BOOLEAN
        BY DEF Pending
      <3>4. PICK c \in BOOLEAN : Decide(i, "succeeded", c, "none")
        BY <2>3, <3>3
      <3> QED BY <1>2, <2>1, <2>2, <3>4, <3>1, <3>2, DecideStep
    <2>4. ASSUME NEW e \in {"busy", "error"}, Decide(i, "failed", FALSE, e), UNCHANGED disk
          PROVE  PipelineInv'
      BY <1>2, <1>3, <2>1, <2>2, <2>4, DecideStep
    <2> QED BY <1>5, <2>3, <2>4 DEF Checkpoint
  <1>6. CASE JournalStep(i)
    <2>1. /\ stage[i] = "started" /\ IsSnapshot(i) /\ UNCHANGED mailbox /\ UNCHANGED ledger
          /\ UNCHANGED <<at, quit, app, session, intent, batch, retries, saveError, lastExit, failed>>
      BY <1>6 DEF JournalStep, Journal, IsSnapshot
    <2>2. CASE /\ disk' = [disk EXCEPT ![request[i].root].accepted = i]
               /\ result' = [result EXCEPT ![i].state = "succeeded"]
               /\ stage' = [stage EXCEPT ![i] = "journalled"]
      <3>1. result'[i].state = "succeeded"
        <4>1. result \in [Requests -> Results]
          BY <1>1, StoreFacts
        <4> QED BY <2>2, <4>1 DEF Results
      <3>2. told' = told \ {request[i].root}
        BY <1>6, <3>1 DEF JournalStep
      <3> QED BY <2>1, <2>2, <3>2, JournalAccepted
    <2>3. CASE Decide(i, "failed", FALSE, "error") /\ UNCHANGED disk
      <3>1. result'[i].state = "failed"
        BY <1>1, <1>2, <2>3, Decides
      <3>2. told' = told
        BY <1>6, <3>1 DEF JournalStep
      <3> QED BY <1>2, <1>3, <2>1, <2>3, <3>2, DecideStep
    <2> QED BY <1>6, <2>2, <2>3 DEF JournalStep, Journal
  <1> QED BY <1>4, <1>5, <1>6

\* The typed results fit: the mailbox has room for every active request.
LEMMA MailboxHasRoom ==
  ASSUME PipelineInv, NEW i \in active, i \notin Positions(mailbox)
  PROVE  Len(mailbox) < MaxResults
  <1>1. /\ TypeOK /\ Placed /\ Counted
    BY InvFacts
  <1>2. /\ mailbox \in Seq(Requests) /\ Distinct(mailbox) /\ Positions(mailbox) \subseteq active \ {i}
        /\ IsFiniteSet(active) /\ Cardinality(active) \in Nat /\ Cardinality(active) <= MaxConcurrent
    BY <1>1, TypeFacts DEF Placed, Counted
  <1>3. IsFiniteSet(active \ {i}) /\ Cardinality(active \ {i}) = Cardinality(active) - 1
    BY <1>2, FS_RemoveElement
  <1>4. Len(mailbox) <= Cardinality(active \ {i})
    BY <1>2, <1>3, LengthBound
  <1>5. Len(mailbox) \in Nat
    BY <1>2, SequenceType
  <1> QED BY <1>2, <1>3, <1>4, <1>5, ConstantFacts

LEMMA PublishStep ==
  ASSUME PipelineInv, NEW i \in Requests, Publish(i), UNCHANGED owner
  PROVE  PipelineInv'
  <1>1. /\ TypeOK /\ Numbered /\ Captured /\ Placed /\ InOrder /\ Truthful /\ Owing /\ Exiting
    BY InvFacts
  <1>2. /\ stage[i] = "decided" /\ stage' = [stage EXCEPT ![i] = "published"]
        /\ UNCHANGED <<result, disk, told>> /\ UNCHANGED ledger
        /\ UNCHANGED <<at, quit, app, session, intent, batch, retries, saveError, lastExit, failed>>
    BY DEF Publish, owner
  <1>3. /\ Captured' /\ Counted' /\ Stages' /\ Unanswered' = Unanswered
        /\ \A k : IsSnapshot(k)' = IsSnapshot(k)
        /\ UNCHANGED <<request, cancelled, active, reserved, nextId>>
    BY <1>2, WorkerFrame
  <1>4. i \in active /\ i \in Unanswered /\ i \notin Positions(mailbox) /\ i \notin Positions(batch)
        /\ request[i].root \in Databases /\ at # "down"
    BY <1>2, AtWorkFacts DEF AtWork, Unfinished
  <1>5. \A k \in Requests : k # i => stage[k] \notin Busy
    BY <1>2, Worked DEF AtWork, Unfinished
  <1>6. /\ stage' \in [Requests -> StageNames] /\ stage'[i] = "published"
        /\ \A k \in Requests : k # i => stage'[k] = stage[k]
    <2>1. "published" \in StageNames
      BY DEF StageNames, Unfinished
    <2> QED BY <1>1, <1>2, <2>1, StageMoves
  <1>7. mailbox \in Seq(Requests)
    BY <1>1, TypeFacts
  <1>8. mailbox' = Append(mailbox, i)
    BY <1>4, MailboxHasRoom DEF Publish
  <1>9. /\ mailbox' \in Seq(Requests) /\ Positions(mailbox)' = Positions(mailbox) \cup {i}
        /\ Distinct(mailbox)'
    <2>1. /\ Append(mailbox, i) \in Seq(Requests)
          /\ Positions(Append(mailbox, i)) = Positions(mailbox) \cup {i}
          /\ Distinct(mailbox) /\ i \notin Positions(mailbox) => Distinct(Append(mailbox, i))
      BY <1>7, Appended
    <2> QED BY <1>1, <1>4, <1>8, <2>1 DEF Placed, Positions, Distinct
  <1> USE DEF InStage
  <1>10. TypeOK'
    BY <1>1, <1>2, <1>3, <1>6, <1>9 DEF TypeOK, SchedulerTypeOK, StageNames
  <1>11. Numbered'
    <2>1. \A k \in Requests : stage'[k] = "unused" <=> stage[k] = "unused"
      BY <1>2, <1>6
    <2>2. \A r \in Databases : disk[r].accepted # 0 => stage'[disk[r].accepted] # "unused"
      BY <1>1, <2>1, TypeFacts DEF Numbered
    <2> QED BY <1>1, <1>2, <1>3, <2>1, <2>2 DEF Numbered, Positions
  <1>12. Placed'
    <2>1. Distinct(batch)' /\ Positions(batch)' = Positions(batch)
      BY <1>1, <1>2 DEF Placed, Distinct, Positions
    <2>2. i \notin InStage(AtWork)'
      BY <1>6 DEF AtWork
    <2>3. InStage(AtWork)' \subseteq InStage(AtWork)
      BY <1>6 DEF AtWork
    <2>4. InStage(AtWork)' \subseteq active' /\ InStage(AtWork)' \cap Positions(mailbox)' = {}
      BY <1>1, <1>3, <1>9, <2>2, <2>3 DEF Placed
    <2>5. at' \notin {"joining", "down"} =>
            cancelled' = {} /\ \A k \in active' : stage'[k] \in AtWork \/ k \in Positions(mailbox)'
      <3>1. \A k \in active : k \in Requests
        BY <1>1, TypeFacts
      <3> QED BY <1>1, <1>2, <1>3, <1>6, <1>9, <3>1 DEF Placed
    <2>6. Positions(mailbox)' \subseteq active'
      BY <1>1, <1>3, <1>4, <1>9 DEF Placed
    <2> QED BY <1>1, <1>2, <1>3, <1>4, <1>9, <2>1, <2>4, <2>5, <2>6 DEF Placed
  <1>13. InOrder'
    <2>1. ASSUME NEW j \in InStage(Busy)', NEW k \in InStage(Busy)' PROVE j = k
      BY <1>5, <1>6
    <2>2. \A j \in InStage({"started"})' : FALSE
      BY <1>5, <1>6 DEF Busy, Unfinished
    <2>3. \A k \in InStage({"queued", "started"})' : k \in InStage({"queued", "started"})
      BY <1>6
    <2> QED BY <1>1, <1>2, <1>3, <2>1, <2>2, <2>3 DEF InOrder
  <1>14. Truthful'
    <2>1. \A k \in Requests : stage'[k] \in {"queued", "started"} <=> stage[k] \in {"queued", "started"}
      BY <1>2, <1>6
    <2>2. \A k \in Unanswered : k \in Requests
      BY <1>1, TypeFacts
    <2>3. \A k \in InStage({"unused", "queued"})' : k \in InStage({"unused", "queued"})
      BY <1>6
    <2>4. \A k \in InStage({"journalled"})' : k \in InStage({"journalled"})
      BY <1>6
    <2> QED BY <1>1, <1>2, <1>3, <2>1, <2>2, <2>3, <2>4 DEF Truthful
  <1>15. Owing'
    <2>1. Positions(batch)' = Positions(batch)
      BY <1>2 DEF Positions
    <2>2. \A k : (Compacts(k)' <=> Compacts(k)) /\ (Outstanding(k)' <=> Outstanding(k))
                 /\ (Pending(k)' <=> Pending(k))
      BY <1>2, <1>3 DEF Compacts, Outstanding, Pending
    <2>3. Compacts(i) => ~Pending(request[i].root)
      BY <1>1, <1>2 DEF Owing
    <2>4. \A k \in InStage({"decided"})' : FALSE
      BY <1>5, <1>6 DEF Busy, Unfinished
    <2>5. ASSUME NEW m \in Positions(mailbox)', Compacts(m), NEW r, r = request[m].root, Pending(r)
          PROVE  /\ Outstanding(r) /\ disk[r].accepted \notin Positions(batch)
                 /\ Before(mailbox', m, disk[r].accepted)
      <3>1. m \in Positions(mailbox)
        BY <1>9, <2>3, <2>5
      <3>2. /\ Outstanding(r) /\ disk[r].accepted \notin Positions(batch)
            /\ Before(mailbox, m, disk[r].accepted)
        BY <1>1, <2>5, <3>1 DEF Owing
      <3>3. Before(Append(mailbox, i), m, disk[r].accepted)
        BY <1>4, <1>7, <3>1, <3>2, BeforeAppended
      <3> QED BY <1>8, <3>2, <3>3
    <2>6. ASSUME NEW m \in Positions(batch), Compacts(m), NEW r, r = request[m].root, Pending(r)
          PROVE  Outstanding(r) /\ Before(batch, m, disk[r].accepted)
      BY <1>1, <2>6 DEF Owing
    <2>7. \A r \in Roots : at # "down" /\ Pending(r) => Outstanding(r) \/ retries[r] # NoEntry \/ r \in told
      BY <1>1 DEF Owing
    <2> QED BY <1>2, <1>3, <2>1, <2>2, <2>4, <2>5, <2>6, <2>7 DEF Owing, Before
  <1>16. Exiting'
    <2>1. \A k \in InStage({"queued", "started"})' : k \in InStage({"queued", "started"})
      BY <1>6
    <2> QED BY <1>1, <1>2, <1>3, <2>1 DEF Exiting, Leaving, Saved
  <1> QED BY <1>3, <1>10, <1>11, <1>12, <1>13, <1>14, <1>15, <1>16 DEF PipelineInv

\* Counting a job as done: only the stage of a published request changes.
LEMMA DoneStep ==
  ASSUME PipelineInv, stage' \in [Requests -> StageNames],
         \A k \in Requests : stage'[k] = stage[k] \/ {stage[k], stage'[k]} \subseteq {"published", "finished", "drained"},
         UNCHANGED <<result, mailbox, disk, told>>, UNCHANGED ledger,
         \A k \in Requests : stage'[k] = "published" => stage[k] = "published",
         UNCHANGED <<at, quit, app, session, intent, batch, retries, saveError, lastExit, failed>>
  PROVE  PipelineInv'
  <1>1. /\ TypeOK /\ Numbered /\ Captured /\ Placed /\ InOrder /\ Truthful /\ Owing /\ Exiting
    BY InvFacts
  <1>2. /\ Captured' /\ Counted' /\ Stages' /\ Unanswered' = Unanswered
        /\ \A k : IsSnapshot(k)' = IsSnapshot(k)
        /\ UNCHANGED <<request, cancelled, active, reserved, nextId>>
    BY WorkerFrame
  <1> USE DEF InStage
  <1>3. \A k \in Requests :
           /\ stage'[k] \in AtWork <=> stage[k] \in AtWork
           /\ stage'[k] \in Busy => stage[k] \in Busy
           /\ stage'[k] \in Unfinished => stage[k] \in Unfinished
           /\ \A s \in {"unused", "queued", "started", "journalled", "decided"} : stage'[k] = s <=> stage[k] = s
    BY DEF AtWork, Busy, Unfinished
  <1>4. Positions(mailbox)' = Positions(mailbox) /\ Positions(batch)' = Positions(batch)
        /\ Distinct(mailbox)' = Distinct(mailbox) /\ Distinct(batch)' = Distinct(batch)
    BY DEF Positions, Distinct
  <1>5. TypeOK'
    BY <1>1, <1>2 DEF TypeOK, SchedulerTypeOK, StageNames
  <1>6. Numbered'
    <2>1. \A r \in Databases : disk[r].accepted # 0 => stage'[disk[r].accepted] # "unused"
      BY <1>1, <1>3, TypeFacts DEF Numbered
    <2> QED BY <1>1, <1>2, <1>3, <1>4, <2>1 DEF Numbered
  <1>7. Placed'
    <2>1. \A k \in active : k \in Requests
      BY <1>1, TypeFacts
    <2>2. InStage(Unfinished)' \subseteq InStage(Unfinished) /\ InStage(AtWork)' = InStage(AtWork)
      BY <1>3 DEF AtWork, Unfinished
    <2>3. \A k \in active : stage'[k] \in AtWork <=> stage[k] \in AtWork
      BY <1>3, <2>1
    <2> HIDE DEF InStage
    <2> QED BY <1>1, <1>2, <1>4, <2>2, <2>3 DEF Placed
  <1>8. InOrder'
    <2>1. InStage(Busy)' \subseteq InStage(Busy) /\ InStage({"started"})' = InStage({"started"})
          /\ InStage({"queued"})' = InStage({"queued"})
          /\ InStage({"queued", "started"})' = InStage({"queued", "started"})
      BY <1>3 DEF Busy, Unfinished
    <2> HIDE DEF InStage
    <2> QED BY <1>1, <1>2, <2>1 DEF InOrder
  <1>9. Truthful'
    <2>1. InStage({"unused", "queued"})' = InStage({"unused", "queued"})
          /\ InStage({"journalled"})' = InStage({"journalled"})
      BY <1>3
    <2>2. \A k \in Unanswered : stage'[k] \in {"queued", "started"} <=> stage[k] \in {"queued", "started"}
      BY <1>1, <1>3, TypeFacts
    <2> HIDE DEF InStage
    <2> QED BY <1>1, <1>2, <2>1, <2>2 DEF Truthful
  <1>10. Owing'
    <2>1. \A k \in Requests : Compacts(k)' <=> Compacts(k)
      BY <1>2 DEF Compacts
    <2>2. \A k \in InStage({"decided"})' : Compacts(k)' => ~Pending(request[k].root)'
      BY <1>1, <1>2, <1>3, <2>1 DEF Owing, Pending
    <2> QED BY <1>2, <2>2, OwingKept
  <1>11. Exiting'
    <2>1. InStage({"queued", "started"})' = InStage({"queued", "started"})
      BY <1>3
    <2> HIDE DEF InStage
    <2> QED BY <1>1, <1>2, <2>1 DEF Exiting, Leaving, Saved
  <1> QED BY <1>2, <1>5, <1>6, <1>7, <1>8, <1>9, <1>10, <1>11 DEF PipelineInv

LEMMA FinishStep ==
  ASSUME PipelineInv, NEW i \in Requests, Finish(i, at = "joining"), UNCHANGED owner
  PROVE  PipelineInv'
  <1>1. stage[i] = "published" /\ stage' = [stage EXCEPT ![i] = "finished"]
        /\ UNCHANGED <<result, mailbox, disk, told>> /\ UNCHANGED ledger
        /\ UNCHANGED <<at, quit, app, session, intent, batch, retries, saveError, lastExit, failed>>
    BY DEF Finish, owner
  <1>2. TypeOK /\ "finished" \in StageNames
    BY InvFacts DEF StageNames
  <1>3. /\ stage' \in [Requests -> StageNames] /\ stage'[i] = "finished"
        /\ \A k \in Requests : k # i => stage'[k] = stage[k]
    BY <1>1, <1>2, StageMoves
  <1> QED BY <1>1, <1>3, DoneStep

LEMMA WorkerSteps ==
  ASSUME PipelineInv, Worker
  PROVE  PipelineInv'
  <1>1. PICK i \in Requests : WorkerStep(i) \/ JournalStep(i)
    BY DEF Worker
  <1> QED BY <1>1, StartStep, WorkingStep, PublishStep, FinishStep DEF WorkerStep

--------------------------------------------------------------------------------
(* The owner's steps *)

\* What the owner knows of its requests, the order of the worker and the truth of the results
\* depend on nothing that a step leaves alone when it changes none of these.
LEMMA QuietParts ==
  ASSUME PipelineInv, UNCHANGED schedulerVars, UNCHANGED <<intent, batch, retries, told>>,
         at \notin {"joining", "down"}, at' \notin {"joining", "down"},
         at' \notin {"consume", "collect"} => batch = <<>>
  PROVE  /\ SchedulerTypeOK' /\ Numbered' /\ Captured' /\ Counted' /\ Placed' /\ InOrder' /\ Truthful' /\ Owing'
         /\ Unanswered' = Unanswered
  <1>1. /\ TypeOK /\ Numbered /\ Captured /\ Counted /\ Placed /\ InOrder /\ Truthful /\ Owing
    BY InvFacts
  <1>2. UNCHANGED <<request, stage, result, cancelled, active, reserved, nextId, mailbox, disk>>
    BY DEF schedulerVars
  <1>3. Unanswered' = Unanswered /\ \A s : InStage(s)' = InStage(s)
        /\ Positions(mailbox)' = Positions(mailbox) /\ Positions(batch)' = Positions(batch)
        /\ Distinct(mailbox)' = Distinct(mailbox) /\ Distinct(batch)' = Distinct(batch)
        /\ \A k : IsSnapshot(k)' = IsSnapshot(k) /\ Compacts(k)' = Compacts(k)
    BY <1>2 DEF Unanswered, InStage, Positions, Distinct, IsSnapshot, Compacts
  <1>4. SchedulerTypeOK'
    BY <1>1, <1>2 DEF TypeOK, SchedulerTypeOK
  <1>5. Numbered'
    BY <1>1, <1>2, <1>3 DEF Numbered
  <1>6. Captured'
    BY <1>1, <1>2, <1>3 DEF Captured
  <1>7. Counted'
    BY <1>1, <1>2, ReserveNow, ReserveNext DEF Counted
  <1>8. Placed'
    BY <1>1, <1>2, <1>3 DEF Placed
  <1>9. InOrder'
    BY <1>1, <1>2, <1>3 DEF InOrder
  <1>10. Truthful'
    BY <1>1, <1>2, <1>3 DEF Truthful
  <1>11. Owing'
    BY <1>1, <1>2, <1>3 DEF Owing, Outstanding, Pending
  <1> QED BY <1>3, <1>4, <1>5, <1>6, <1>7, <1>8, <1>9, <1>10, <1>11

\* Steps of the frame that start or leave a session or only move on.
LEMMA QuietSteps ==
  ASSUME PipelineInv,
         \/ StayPut \/ Unload \/ BeginShutdown \/ EndConsume \/ EndWait
         \/ \E r \in Roots : StartSession(r)
  PROVE  PipelineInv'
  <1>1. /\ UNCHANGED schedulerVars /\ UNCHANGED <<intent, batch, retries, told>>
        /\ at \notin {"joining", "down"} /\ at' \notin {"joining", "down"}
    BY DEF StayPut, Unload, BeginShutdown, EndConsume, EndWait, StartSession, Act
  <1>2. /\ TypeOK /\ Exiting /\ Stages /\ Placed
    BY InvFacts
  <1>3. batch = <<>>
    BY <1>2 DEF StayPut, Unload, BeginShutdown, EndConsume, EndWait, StartSession, Act, Placed
  <1>4. /\ SchedulerTypeOK' /\ Numbered' /\ Captured' /\ Counted' /\ Placed' /\ InOrder' /\ Truthful' /\ Owing'
        /\ Unanswered' = Unanswered
    BY <1>1, <1>3, QuietParts
  <1>5. UNCHANGED <<request, stage, active, disk, lastExit>>
    BY <1>1 DEF schedulerVars, StayPut, Unload, BeginShutdown, EndConsume, EndWait, StartSession
  <1>6. TypeOK'
    <2>1. /\ at' \in {"poll", "wait", "submit", "final", "stop"} /\ quit' \in {"no", "poll", "first", "second"}
          /\ app' \in {"menu", "playing", "unloading"} /\ session' \in Roots \cup {"none"}
          /\ saveError' \in BOOLEAN /\ failed' \in BOOLEAN
      BY <1>2 DEF TypeOK, StayPut, Unload, BeginShutdown, EndConsume, EndWait, StartSession, Act
    <2> QED BY <1>1, <1>2, <1>4, <1>5, <2>1 DEF TypeOK
  <1>7. Stages'
    <2>1. "none" \notin Roots
      BY DatabasesAssumption
    <2> QED BY <1>2, <2>1 DEF Stages, StayPut, Unload, BeginShutdown, EndConsume, EndWait, StartSession, Act
  <1>8. Exiting'
    <2>1. /\ \A s : InStage(s)' = InStage(s)
          /\ \A k : IsSnapshot(k)' = IsSnapshot(k)
      BY <1>5 DEF InStage, IsSnapshot
    <2>2. Unanswered = active
      BY <1>3, EmptyPositions DEF Unanswered
    <2>3. CASE StayPut
      BY <1>2, <1>4, <1>5, <2>1, <2>3 DEF StayPut, Act, Exiting, Leaving, Saved
    <2>4. CASE Unload
      BY <1>2, <1>4, <1>5, <2>1, <2>4 DEF Unload, Act, Exiting, Leaving, Saved, Stages
    <2>5. CASE BeginShutdown
      BY <1>2, <1>4, <1>5, <2>1, <2>5 DEF BeginShutdown, Exiting, Leaving, Saved
    <2>6. CASE EndConsume
      BY <1>2, <1>4, <1>5, <2>1, <2>6 DEF EndConsume, Exiting, Leaving, Saved, Stages
    <2>7. CASE EndWait
      <3>1. /\ at = "wait" /\ UNCHANGED <<quit, app, session, saveError>> /\ quit \in {"first", "second"}
            /\ at' = IF quit = "first" THEN "final" ELSE "stop"
            /\ failed' => failed' = TRUE
            /\ (active = {} /\ failed' = (failed \/ saveError)) \/ failed' = TRUE
        BY <1>2, <2>7 DEF EndWait, Stages, TypeOK
      <3>2. ~Leaving'
        BY <3>1 DEF Leaving
      <3>3. ASSUME at' = "stop", session # "none", active = {}, ~saveError PROVE Saved
        <4>1. Leaving /\ lastExit \notin Unanswered
          BY <2>2, <3>1, <3>3 DEF Leaving
        <4> QED BY <1>2, <3>3, <4>1 DEF Exiting
      <3>4. Saved' = Saved /\ active' = active
        BY <1>5, <3>1 DEF Saved
      <3>5. at' = "stop" /\ session # "none" => failed' \/ (active = {} /\ Saved)
        BY <3>1, <3>3
      <3> QED BY <3>1, <3>2, <3>4, <3>5 DEF Exiting
    <2>8. CASE \E r \in Roots : StartSession(r)
      BY <1>2, <1>4, <1>5, <2>1, <2>8 DEF StartSession, Act, Exiting, Leaving, Saved, Stages
    <2> QED BY <2>3, <2>4, <2>5, <2>6, <2>7, <2>8
  <1> QED BY <1>4, <1>6, <1>7, <1>8 DEF PipelineInv

\* The pool's results and the retries' waiting time leave every request where it is.
LEMMA PoolSteps ==
  ASSUME PipelineInv, PollPool \/ Collect
  PROVE  PipelineInv'
  <1>1. /\ TypeOK /\ Numbered /\ Captured /\ Counted /\ Placed /\ InOrder /\ Truthful /\ Owing
        /\ Exiting /\ Stages
    BY InvFacts
  <1>2. /\ stage' = [k \in Requests |-> IF stage[k] = "finished" THEN "drained" ELSE stage[k]]
        /\ UNCHANGED <<request, result, cancelled, active, reserved, nextId, mailbox, disk>>
        /\ UNCHANGED <<quit, app, session, intent, batch, saveError, told, lastExit, failed>>
        /\ \/ /\ at = "poll" /\ quit \in {"no", "poll"} /\ at' = "drain"
              /\ retries' = retries \/ retries' = Elapsed(retries)
           \/ at = "collect" /\ at' = "consume" /\ retries' = retries
    BY DEF PollPool, Collect, DrainPool
  <1>3. /\ stage' \in [Requests -> StageNames]
        /\ \A k \in Requests :
             /\ stage'[k] \in AtWork <=> stage[k] \in AtWork
             /\ stage'[k] \in Busy <=> stage[k] \in Busy
             /\ stage'[k] \in Unfinished <=> stage[k] \in Unfinished
             /\ \A s \in {"unused", "queued", "started", "journalled", "decided"} : stage'[k] = s <=> stage[k] = s
    <2>1. stage \in [Requests -> StageNames]
      BY <1>1, StoreFacts
    <2> QED BY <1>2, <2>1 DEF StageNames, AtWork, Busy, Unfinished
  <1>4. Unanswered' = Unanswered
        /\ Positions(mailbox)' = Positions(mailbox) /\ Positions(batch)' = Positions(batch)
        /\ Distinct(mailbox)' = Distinct(mailbox) /\ Distinct(batch)' = Distinct(batch)
        /\ \A k : IsSnapshot(k)' = IsSnapshot(k) /\ Compacts(k)' = Compacts(k)
    BY <1>2 DEF Unanswered, InStage, Positions, Distinct, IsSnapshot, Compacts
  <1>5. /\ InStage(AtWork)' = InStage(AtWork) /\ InStage(Busy)' = InStage(Busy)
        /\ InStage(Unfinished)' = InStage(Unfinished)
        /\ InStage({"started"})' = InStage({"started"}) /\ InStage({"queued"})' = InStage({"queued"})
        /\ InStage({"queued", "started"})' = InStage({"queued", "started"})
        /\ InStage({"unused", "queued"})' = InStage({"unused", "queued"})
        /\ InStage({"journalled"})' = InStage({"journalled"})
        /\ InStage({"decided"})' = InStage({"decided"})
    BY <1>3 DEF InStage, AtWork, Busy, Unfinished
  <1>6. active \subseteq Requests /\ Unanswered \subseteq Requests
    BY <1>1, TypeFacts
  <1>7. Sound(retries') /\ \A r \in Roots : retries[r] # NoEntry => retries'[r] # NoEntry
    <2>1. Sound(retries)
      BY <1>1 DEF Sound, Tables, TypeOK, Captured
    <2>2. retries' = retries \/ retries' = Elapsed(retries)
      BY <1>2
    <2> QED BY <2>1, <2>2, ElapsedSound
  <1>8. TypeOK'
    BY <1>1, <1>2, <1>3, <1>7 DEF TypeOK, SchedulerTypeOK, StageNames, Sound, Tables
  <1>9. Numbered'
    <2>1. \A r \in Databases : disk[r].accepted # 0 => stage'[disk[r].accepted] # "unused"
      BY <1>1, <1>3, TypeFacts DEF Numbered
    <2> QED BY <1>1, <1>2, <1>3, <1>4, <2>1 DEF Numbered
  <1>10. Captured'
    BY <1>1, <1>2, <1>4, <1>7 DEF Captured, Sound
  <1>11. Counted'
    BY <1>1, <1>2, ReserveNow, ReserveNext DEF Counted
  <1>12. Placed'
    <2>1. \A k \in active : stage'[k] \in AtWork <=> stage[k] \in AtWork
      BY <1>3, <1>6
    <2> QED BY <1>1, <1>2, <1>4, <1>5, <2>1 DEF Placed
  <1>13. InOrder'
    BY <1>1, <1>2, <1>4, <1>5 DEF InOrder
  <1>14. Truthful'
    <2>1. \A k \in Unanswered : stage'[k] \in {"queued", "started"} <=> stage[k] \in {"queued", "started"}
      BY <1>3, <1>6
    <2> QED BY <1>1, <1>2, <1>4, <1>5, <2>1 DEF Truthful
  <1>15. Owing'
    <2>1. at # "down"
      BY <1>2
    <2> QED BY <1>1, <1>2, <1>4, <1>5, <1>7, <2>1 DEF Owing, Outstanding, Pending
  <1>16. Stages'
    BY <1>1, <1>2 DEF Stages
  <1>17. Exiting'
    <2>1. Leaving' <=> Leaving
      BY <1>1, <1>2 DEF Leaving, Stages
    <2>2. at' # "stop" /\ Saved' = Saved
      BY <1>2 DEF Saved
    <2> QED BY <1>1, <1>2, <1>4, <1>5, <2>1, <2>2 DEF Exiting
  <1> QED BY <1>8, <1>9, <1>10, <1>11, <1>12, <1>13, <1>14, <1>15, <1>16, <1>17 DEF PipelineInv

\* Draining the mailbox turns it into the batch; what is answered is accounted for.
LEMMA DrainSteps ==
  ASSUME PipelineInv, PollResults \/ WaitResults
  PROVE  PipelineInv'
  <1>1. /\ TypeOK /\ Numbered /\ Captured /\ Counted /\ Placed /\ InOrder /\ Truthful /\ Owing
        /\ Exiting /\ Stages
    BY InvFacts
  <1>2. /\ mailbox' = <<>> /\ batch' = mailbox /\ active' = active \ Positions(mailbox)
        /\ reserved' = reserved - Bytes(active \cap Positions(mailbox))
        /\ UNCHANGED <<request, stage, result, cancelled, nextId, disk>>
        /\ UNCHANGED <<quit, app, session, intent, retries, saveError, told, lastExit, failed>>
        /\ \/ at = "drain" /\ at' = "consume"
           \/ at = "wait" /\ at' = "collect"
    BY DEF PollResults, WaitResults, DrainTyped
  <1>3. batch = <<>> /\ Positions(batch) = {} /\ Positions(mailbox) \subseteq active
    BY <1>1, <1>2, EmptyPositions DEF Placed
  <1>4. /\ Positions(batch)' = Positions(mailbox) /\ Positions(mailbox)' = {}
        /\ Distinct(batch)' = Distinct(mailbox) /\ Distinct(mailbox)'
        /\ mailbox \in Seq(Requests) /\ mailbox' \in Seq(Requests)
    <2>1. mailbox \in Seq(Requests)
      BY <1>1, TypeFacts
    <2> QED BY <1>2, <2>1, EmptyPositions DEF Positions, Distinct
  <1>5. Unanswered' = Unanswered
    BY <1>2, <1>3, <1>4 DEF Unanswered
  <1>6. /\ \A s : InStage(s)' = InStage(s)
        /\ \A k : IsSnapshot(k)' = IsSnapshot(k) /\ Compacts(k)' = Compacts(k)
        /\ \A r : Outstanding(r)' = Outstanding(r) /\ Pending(r)' = Pending(r)
    BY <1>2, <1>5 DEF InStage, IsSnapshot, Compacts, Outstanding, Pending
  <1>7. Counted' /\ reserved' \in 0..MaxReservedBytes
    <2>1. \A k \in active : request[k].bytes \in Nat
      <3>1. \A k \in active : request[k] \in [kind : Kinds, root : Databases, bytes : 1..MaxRequestBytes]
        BY <1>1 DEF Captured, Unanswered
      <3> QED BY <3>1
    <2>2. IsFiniteSet(active) /\ reserved \in Nat /\ reserved \in 0..MaxReservedBytes
      BY <1>1, TypeFacts DEF TypeOK, SchedulerTypeOK
    <2> DEFINE gone == Positions(mailbox)
               left == Reserve(request, active \ gone)
               freed == Reserve(request, active \cap gone)
    <2>3. left \in Nat /\ freed \in Nat /\ Reserve(request, active) = left + freed
      <3> HIDE DEF gone
      <3>1. Adds(Reserve(request, active), left, freed)
        BY <2>1, <2>2, ReserveRemove
      <3> HIDE DEF left, freed
      <3> QED BY <3>1 DEF Adds
    <2>4. Bytes(active \cap gone) = freed
      BY DEF Bytes, Reserve, MapThenSumSet, MapThenFoldSet
    <2>5. Bytes(active)' = left
      BY <1>2, ReserveNext
    <2>6. reserved = left + freed /\ reserved' = reserved - freed
      BY <1>1, <1>2, <2>3, <2>4, ReserveNow DEF Counted
    <2> HIDE DEF left, freed
    <2>7. reserved' = left /\ reserved' \in 0..MaxReservedBytes
      BY <2>2, <2>3, <2>6, ConstantFacts
    <2>8. IsFiniteSet(active') /\ Cardinality(active') <= Cardinality(active)
      BY <1>2, <2>2, FS_Subset
    <2>9. Cardinality(active') <= MaxConcurrent
      <3>1. Cardinality(active') \in Nat /\ Cardinality(active) \in Nat
        BY <2>2, <2>8, FS_CardinalityType
      <3> QED BY <1>1, <2>8, <3>1, ConstantFacts DEF Counted
    <2> QED BY <2>5, <2>7, <2>9 DEF Counted
  <1>8. TypeOK'
    <2>1. active' \subseteq Requests
      BY <1>1, <1>2, TypeFacts
    <2> QED BY <1>1, <1>2, <1>4, <1>7, <2>1 DEF TypeOK, SchedulerTypeOK
  <1>9. Numbered'
    BY <1>1, <1>2, <1>3, <1>4 DEF Numbered
  <1>10. Captured'
    BY <1>1, <1>2, <1>5, <1>6 DEF Captured
  <1>11. Placed'
    BY <1>1, <1>2, <1>3, <1>4, <1>6 DEF Placed
  <1>12. InOrder'
    BY <1>1, <1>2, <1>6 DEF InOrder
  <1>13. Truthful'
    BY <1>1, <1>2, <1>5, <1>6 DEF Truthful
  <1>14. Owing'
    <2>1. \A m \in Positions(mailbox) :
             LET r == request[m].root
             IN  Compacts(m) /\ Pending(r) => Outstanding(r) /\ Before(mailbox, m, disk[r].accepted)
      BY <1>1 DEF Owing
    <2>2. \A m, a : Before(batch', m, a) <=> Before(mailbox, m, a)
      BY <1>2
    <2> QED BY <1>1, <1>2, <1>3, <1>4, <1>6, <2>1, <2>2 DEF Owing, Before
  <1>15. Stages'
    BY <1>1, <1>2 DEF Stages
  <1>16. Exiting'
    <2>1. Leaving' <=> Leaving
      BY <1>1, <1>2 DEF Leaving, Stages
    <2>2. at' # "stop" /\ Saved' = Saved
      BY <1>2 DEF Saved
    <2> QED BY <1>1, <1>2, <1>5, <1>6, <2>1, <2>2 DEF Exiting
  <1> QED BY <1>7, <1>8, <1>9, <1>10, <1>11, <1>12, <1>13, <1>14, <1>15, <1>16 DEF PipelineInv

\* What a consumed result makes of the retry table: only its own root's entry changes, and a
\* root keeps its entry unless the result settles it or its user is told.
LEMMA OutcomeKept ==
  ASSUME PipelineInv, NEW i \in Unanswered, at # "down",
         IF intent[i] = "checkpoint" THEN ConsumeCheckpoint(i)
                                     ELSE ConsumeRefused(i) \/ ConsumeAccepted(i),
         NEW q, q = request[i].root
  PROVE  /\ Sound(retries') /\ told' \subseteq Roots /\ told \subseteq told' /\ saveError' \in BOOLEAN
         /\ saveError => saveError'
         /\ \A r \in Roots \ {q} : retries'[r] = retries[r]
         /\ retries[q] # NoEntry /\ ~Compacts(i) => retries'[q] # NoEntry \/ q \in told'
         /\ IsSnapshot(i) /\ result[i].state = "succeeded" /\ ~Compacts(i)
            => retries'[q] # NoEntry \/ q \in told'
         /\ intent[i] \in {"exit", "shutdown"} /\ result[i].state # "succeeded" => saveError'
  <1>1. /\ TypeOK /\ Captured
    BY InvFacts
  <1>2. /\ request[i] \in [kind : Kinds, root : Databases, bytes : 1..MaxRequestBytes]
        /\ intent[i] = "checkpoint" <=> ~IsSnapshot(i)
    BY <1>1 DEF Captured
  <1>3. q \in Roots /\ request[i].bytes \in 1..MaxRequestBytes
    BY <1>2, ConstantFacts
  <1>4. Sound(retries) /\ told \subseteq Roots /\ saveError \in BOOLEAN
    BY <1>1 DEF Sound, Tables, TypeOK, Captured
  <1>5. CASE intent[i] = "checkpoint" /\ ConsumeCheckpoint(i)
    <2> DEFINE o == Outcome(i)
    <2>1. o \in {"completed", "retryable", "terminal"} /\ (o = "completed" <=> result[i].state = "succeeded")
      BY DEF Outcome
    <2>2. /\ retries' = Noted(retries, q, o) /\ UNCHANGED saveError
          /\ told' = IF Disposition(retries, q, o) \in {"exhausted", "terminal"}
                     THEN told \cup {q} ELSE told
      BY <1>5 DEF ConsumeCheckpoint
    <2> HIDE DEF o
    <2>3. /\ Sound(Noted(retries, q, o)) /\ \A r \in Roots \ {q} : Noted(retries, q, o)[r] = retries[r]
          /\ retries[q] # NoEntry => \/ Noted(retries, q, o)[q] # NoEntry \/ o = "completed"
                                     \/ Disposition(retries, q, o) \in {"exhausted", "terminal"}
      BY <1>3, <1>4, <2>1, NotedSound
    <2>4. ~IsSnapshot(i) /\ (o = "completed" => Compacts(i))
      BY <1>2, <1>5, <2>1 DEF Compacts
    <2> QED BY <1>3, <1>4, <1>5, <2>2, <2>3, <2>4
  <1>6. CASE intent[i] # "checkpoint" /\ ConsumeRefused(i)
    BY <1>4, <1>6 DEF ConsumeRefused
  <1>7. CASE intent[i] # "checkpoint" /\ ConsumeAccepted(i)
    <2>1. result[i].state = "succeeded" /\ UNCHANGED saveError
      BY <1>7 DEF ConsumeAccepted
    <2>2. CASE result[i].compacted
      <3>1. retries' = Settle(retries, q) /\ UNCHANGED told
        BY <1>7, <2>2 DEF ConsumeAccepted
      <3>2. Compacts(i)
        BY <2>1, <2>2 DEF Compacts
      <3> QED BY <1>3, <1>4, <2>1, <3>1, <3>2, SettleSound
    <2>3. CASE ~result[i].compacted
      <3>1. \/ retries' = Deferred(retries, q, request[i].bytes) /\ UNCHANGED told
            \/ told' = told \cup {q} /\ UNCHANGED retries
        BY <1>7, <2>3 DEF ConsumeAccepted
      <3>2. CASE retries' = Deferred(retries, q, request[i].bytes) /\ UNCHANGED told
        BY <1>3, <1>4, <2>1, <3>2, DeferredSound
      <3>3. CASE told' = told \cup {q} /\ UNCHANGED retries
        BY <1>3, <1>4, <2>1, <3>3
      <3> QED BY <3>1, <3>2, <3>3
    <2>4. result[i].compacted \in BOOLEAN
      <3>1. result \in [Requests -> Results] /\ i \in Requests
        BY <1>1, StoreFacts, TypeFacts
      <3> QED BY <3>1 DEF Results
    <2> QED BY <2>2, <2>3, <2>4
  <1> QED BY <1>5, <1>6, <1>7

LEMMA ConsumeStep ==
  ASSUME PipelineInv, Consume
  PROVE  PipelineInv'
  <1>1. /\ TypeOK /\ Numbered /\ Captured /\ Counted /\ Placed /\ InOrder /\ Truthful /\ Owing
        /\ Exiting /\ Stages
    BY InvFacts
  <1>2. PICK i : /\ i = Head(batch) /\ at = "consume" /\ batch # <<>> /\ batch' = Tail(batch)
                 /\ IF intent[i] = "checkpoint" THEN ConsumeCheckpoint(i)
                                                ELSE ConsumeRefused(i) \/ ConsumeAccepted(i)
                 /\ intent' = [intent EXCEPT ![i] = "none"]
                 /\ request' = [request EXCEPT ![i] = NoRequest]
                 /\ result' = [result EXCEPT ![i] = NoResult]
                 /\ UNCHANGED <<stage, cancelled, active, reserved, nextId, mailbox, disk>>
                 /\ UNCHANGED <<at, quit, app, session, lastExit, failed>>
    BY DEF Consume, Forget
  <1>3. /\ batch \in Seq(Requests) /\ mailbox \in Seq(Requests) /\ active \subseteq Requests
        /\ IsFiniteSet(active) /\ Unanswered \subseteq Requests
    BY <1>1, TypeFacts
  <1>4. /\ i \in Requests /\ i \in Positions(batch) /\ batch' \in Seq(Requests)
        /\ Positions(batch)' = Positions(batch) \ {i} /\ Distinct(batch)'
    <2>1. /\ Head(batch) \in Requests /\ Head(batch) \in Positions(batch) /\ Tail(batch) \in Seq(Requests)
          /\ Distinct(Tail(batch)) /\ Positions(Tail(batch)) = Positions(batch) \ {Head(batch)}
      BY <1>1, <1>2, <1>3, Consumed DEF Placed
    <2> QED BY <1>2, <2>1 DEF Positions, Distinct
  <1>5. i \in Unanswered /\ i \notin active /\ i \notin Positions(mailbox) /\ Unanswered' = Unanswered \ {i}
    BY <1>1, <1>2, <1>4 DEF Unanswered, Placed
  <1>6. \A k \in Requests : k # i => /\ request'[k] = request[k] /\ result'[k] = result[k]
                                     /\ intent'[k] = intent[k]
                                     /\ IsSnapshot(k)' = IsSnapshot(k) /\ Compacts(k)' = Compacts(k)
    <2>1. \A k \in Requests : k # i => request'[k] = request[k] /\ result'[k] = result[k]
                                       /\ intent'[k] = intent[k]
      BY <1>1, <1>2 DEF TypeOK, SchedulerTypeOK
    <2> QED BY <2>1 DEF IsSnapshot, Compacts
  <1>7. /\ request' \in [Requests -> {NoRequest} \cup [kind : Kinds, root : Databases, bytes : Nat]]
        /\ result' \in [Requests -> Results]
        /\ intent' \in [Requests -> {"none", "autosave", "exit", "shutdown", "checkpoint"}]
        /\ intent'[i] = "none"
    <2>1. NoResult \in Results
      BY DEF NoResult, Results
    <2> QED BY <1>1, <1>2, <1>4, <2>1 DEF TypeOK, SchedulerTypeOK, Results
  <1> DEFINE q == request[i].root
  <1>8. /\ Sound(retries') /\ told' \subseteq Roots /\ told \subseteq told' /\ saveError' \in BOOLEAN
        /\ saveError => saveError'
        /\ \A r \in Roots \ {q} : retries'[r] = retries[r]
        /\ retries[q] # NoEntry /\ ~Compacts(i) => retries'[q] # NoEntry \/ q \in told'
        /\ IsSnapshot(i) /\ result[i].state = "succeeded" /\ ~Compacts(i)
           => retries'[q] # NoEntry \/ q \in told'
        /\ intent[i] \in {"exit", "shutdown"} /\ result[i].state # "succeeded" => saveError'
    BY <1>2, <1>5, OutcomeKept
  <1>9. q = request[i].root
    OBVIOUS
  <1> HIDE DEF q
  <1>10. /\ \A s : InStage(s)' = InStage(s)
         /\ Positions(mailbox)' = Positions(mailbox) /\ Distinct(mailbox)' = Distinct(mailbox)
    BY <1>2 DEF InStage, Positions, Distinct
  <1>11. i \notin InStage(AtWork) /\ i \notin InStage({"unused"})
    BY <1>1, <1>4, <1>5 DEF Placed, Numbered, InStage
  <1>12. \A s \in SUBSET (AtWork \cup {"unused"}) : \A k : k \in InStage(s) => k # i /\ k \in Requests
    BY <1>11 DEF InStage
  <1>13. TypeOK'
    BY <1>1, <1>2, <1>4, <1>7, <1>8 DEF TypeOK, SchedulerTypeOK, Sound, Tables, Results
  <1>14. Numbered'
    BY <1>1, <1>2, <1>4, <1>10 DEF Numbered
  <1>15. Captured'
    BY <1>1, <1>2, <1>3, <1>5, <1>6, <1>7, <1>8 DEF Captured, Sound
  <1>16. Counted'
    <2>1. \A k \in active : request[k].bytes \in Nat /\ request'[k].bytes = request[k].bytes
      <3>1. \A k \in active : request[k] \in [kind : Kinds, root : Databases, bytes : 1..MaxRequestBytes]
                              /\ request'[k] = request[k]
        BY <1>1, <1>3, <1>5, <1>6 DEF Captured, Unanswered
      <3> QED BY <3>1
    <2>2. Reserve(request', active) = Reserve(request, active)
      BY <1>3, <2>1, ReserveAgrees
    <2> QED BY <1>1, <1>2, <2>2, ReserveNow, ReserveNext DEF Counted
  <1>17. Placed'
    BY <1>1, <1>2, <1>4, <1>10 DEF Placed
  <1>18. InOrder'
    <2>1. \A k \in InStage({"queued", "started"}) : IsSnapshot(k)' = IsSnapshot(k)
      BY <1>6, <1>12 DEF AtWork, Unfinished
    <2>2. InStage({"queued"}) \subseteq InStage({"queued", "started"})
          /\ InStage({"started"}) \subseteq InStage({"queued", "started"})
      BY DEF InStage
    <2> QED BY <1>1, <1>2, <1>10, <2>1, <2>2 DEF InOrder
  <1>19. Truthful'
    <2>1. \A k \in InStage({"unused", "queued"}) : k \in Requests /\ k # i
      BY <1>12 DEF AtWork, Unfinished
    <2>2. \A k \in InStage({"journalled"}) : k \in Requests /\ k # i
      BY <1>12 DEF AtWork, Unfinished
    <2>3. \A k \in Unanswered' : k \in Requests /\ k # i /\ k \in Unanswered
      BY <1>3, <1>5
    <2>4. \A k \in InStage({"unused", "queued"})' : result'[k].state = "none"
      BY <1>1, <1>6, <1>10, <2>1 DEF Truthful
    <2>5. \A k \in InStage({"journalled"})' : IsSnapshot(k)' /\ disk'[request'[k].root].accepted = k
      BY <1>1, <1>2, <1>6, <1>10, <2>2 DEF Truthful
    <2>6. \A k \in Unanswered' : /\ IsSnapshot(k)' /\ result'[k].state = "succeeded"
                                 /\ stage'[k] \notin {"queued", "started"}
                                 => disk'[request'[k].root].accepted >= k
      BY <1>1, <1>2, <1>6, <2>3 DEF Truthful
    <2>7. ASSUME NEW r \in Databases, disk'[r].accepted \in Unanswered'
          PROVE  LET a == disk'[r].accepted
                 IN  /\ request'[a].kind = "snapshot" /\ request'[a].root = r /\ result'[a].state = "succeeded"
                     /\ stage'[a] \notin {"queued", "started"}
      <3>1. PICK a : a = disk[r].accepted /\ a \in Unanswered'
        BY <1>2, <2>7
      <3>2. a \in Unanswered /\ a \in Requests /\ a # i
        BY <2>3, <3>1
      <3>3. /\ IsSnapshot(a) /\ request[a].root = r /\ result[a].state = "succeeded"
            /\ stage[a] \notin {"queued", "started"}
        BY <1>1, <3>1, <3>2 DEF Truthful
      <3>4. /\ request'[a].kind = "snapshot" /\ request'[a].root = r /\ result'[a].state = "succeeded"
            /\ stage'[a] \notin {"queued", "started"}
        BY <1>2, <1>6, <3>2, <3>3 DEF IsSnapshot
      <3> QED BY <1>2, <3>1, <3>4
    <2> QED BY <2>4, <2>5, <2>6, <2>7 DEF Truthful, IsSnapshot
  <1>20. Stages'
    BY <1>1, <1>2 DEF Stages
  <1>21. Exiting'
    <2>1. Leaving' <=> Leaving
      BY <1>2 DEF Leaving
    <2>2. at' # "stop" /\ Saved' = Saved
      BY <1>2 DEF Saved
    <2>3. \A k \in InStage({"queued", "started"}) : IsSnapshot(k)' = IsSnapshot(k)
      BY <1>6, <1>12 DEF AtWork, Unfinished
    <2>4. ASSUME Leaving, lastExit \in Unanswered, request[lastExit].root = session,
                 intent[lastExit] \in {"exit", "shutdown"}, lastExit # i
          PROVE  lastExit \in Unanswered' /\ request'[lastExit].root = session
                 /\ intent'[lastExit] \in {"exit", "shutdown"}
      BY <1>1, <1>5, <1>6, <2>4 DEF Exiting
    <2>5. ASSUME Leaving, request[i].root = session, intent[i] \in {"exit", "shutdown"}, lastExit = i
          PROVE  saveError' \/ Saved
      <3>1. CASE result[i].state # "succeeded"
        BY <1>8, <2>5, <3>1
      <3>2. CASE result[i].state = "succeeded"
        <4>1. IsSnapshot(i) /\ session \in Databases
          BY <1>1, <1>2, <1>5, <2>5 DEF Captured
        <4>2. stage[i] \notin {"queued", "started"}
          BY <1>4, <1>11 DEF InStage, AtWork, Unfinished
        <4>3. disk[session].accepted >= i
          BY <1>1, <1>5, <2>5, <3>2, <4>1, <4>2 DEF Truthful
        <4>4. disk[session].accepted <= i /\ disk[session].accepted \in Nat /\ i \in Nat
          BY <1>1, <1>4, <2>5, <4>1, TypeFacts DEF Exiting
        <4> QED BY <2>5, <4>3, <4>4 DEF Saved
      <3> QED BY <3>1, <3>2
    <2> QED BY <1>1, <1>2, <1>8, <1>10, <2>1, <2>2, <2>3, <2>4, <2>5 DEF Exiting
  <1>22. Owing'
    <2>1. \A r : Pending(r)' = Pending(r)
      BY <1>2 DEF Pending
    <2>2. \A r : Outstanding(r) /\ disk[r].accepted # i => Outstanding(r)'
      BY <1>2, <1>5 DEF Outstanding
    <2>3. ASSUME Compacts(i), Pending(q) PROVE Outstanding(q) /\ disk[q].accepted # i
      <3>1. Outstanding(q) /\ Before(batch, i, disk[q].accepted)
        BY <1>1, <1>4, <1>9, <2>3 DEF Owing
      <3> QED BY <1>2, <1>3, <1>4, <3>1, BeforeConsumed
    <2>4. q \in Roots
      BY <1>1, <1>5, <1>9, ConstantFacts DEF Captured
    <2>5. ASSUME NEW r \in Roots, Pending(r) PROVE Outstanding(r)' \/ retries'[r] # NoEntry \/ r \in told'
      <3>1. r \in Databases /\ (Outstanding(r) \/ retries[r] # NoEntry \/ r \in told)
        BY <1>1, <1>2, <2>5, ConstantFacts DEF Owing
      <3>2. CASE disk[r].accepted = i
        <4>1. IsSnapshot(i) /\ r = q /\ result[i].state = "succeeded"
          BY <1>1, <1>5, <1>9, <3>1, <3>2 DEF Truthful
        <4>2. ~Compacts(i)
          BY <2>3, <2>5, <3>2, <4>1
        <4> QED BY <1>8, <4>1, <4>2
      <3>3. CASE disk[r].accepted # i /\ r = q /\ Compacts(i)
        BY <2>2, <2>3, <2>5, <3>3
      <3>4. CASE disk[r].accepted # i /\ (r # q \/ ~Compacts(i))
        BY <1>8, <2>2, <3>1, <3>4
      <3> QED BY <3>2, <3>3, <3>4
    <2>6. \A k \in InStage({"decided"}) : Compacts(k)' => ~Pending(request'[k].root)
      <3>1. \A k \in InStage({"decided"}) : k \in Requests /\ k # i
        BY <1>12 DEF AtWork, Unfinished
      <3> QED BY <1>1, <1>6, <3>1 DEF Owing
    <2>7. \A m \in Positions(mailbox) : m \in Requests /\ m # i
      BY <1>1, <1>3, <1>5 DEF Placed
    <2>8. ASSUME NEW m \in Positions(mailbox), Compacts(m)', NEW r, r = request'[m].root, Pending(r)
          PROVE  /\ Outstanding(r)' /\ disk'[r].accepted \notin Positions(batch)'
                 /\ Before(mailbox, m, disk'[r].accepted)
      <3>1. /\ Outstanding(r) /\ disk[r].accepted \notin Positions(batch)
            /\ Before(mailbox, m, disk[r].accepted)
        BY <1>1, <1>6, <2>7, <2>8 DEF Owing
      <3> QED BY <1>2, <1>4, <2>2, <3>1
    <2>9. ASSUME NEW m \in Positions(batch)', Compacts(m)', NEW r, r = request'[m].root, Pending(r)
          PROVE  Outstanding(r)' /\ Before(batch', m, disk'[r].accepted)
      <3>1. m \in Positions(batch) /\ m # i /\ m \in Requests
        BY <1>3, <1>4, SequenceType
      <3>2. Outstanding(r) /\ Before(batch, m, disk[r].accepted)
        BY <1>1, <1>6, <2>9, <3>1 DEF Owing
      <3>3. Before(Tail(batch), m, disk[r].accepted) /\ disk[r].accepted # i
        BY <1>2, <1>3, <3>1, <3>2, BeforeConsumed
      <3> QED BY <1>2, <2>2, <3>2, <3>3
    <2> QED BY <1>2, <1>10, <2>1, <2>5, <2>6, <2>8, <2>9 DEF Owing, Before, Pending, Outstanding, Compacts, IsSnapshot
  <1> QED BY <1>13, <1>14, <1>15, <1>16, <1>17, <1>18, <1>19, <1>20, <1>21, <1>22 DEF PipelineInv

\* What a submission makes of everything but the session that is being left.
LEMMA SubmitParts ==
  ASSUME PipelineInv, NEW kind \in Kinds, NEW root \in Databases, NEW bytes \in 1..MaxRequestBytes,
         Admits(bytes), Submit(kind, root, bytes),
         NEW why \in {"autosave", "exit", "shutdown", "checkpoint"},
         why = "checkpoint" <=> kind = "checkpoint",
         intent' = [intent EXCEPT ![nextId] = why], UNCHANGED <<batch, told>>,
         Sound(retries'), \A r \in Roots : retries[r] # NoEntry => retries'[r] # NoEntry,
         {at, at'} \cap {"joining", "down", "consume", "collect"} = {}
  PROVE  /\ SchedulerTypeOK' /\ Numbered' /\ Captured' /\ Counted' /\ Placed' /\ InOrder' /\ Truthful' /\ Owing'
         /\ intent' \in [Requests -> {"none", "autosave", "exit", "shutdown", "checkpoint"}]
         /\ nextId \in Requests /\ nextId \notin Unanswered /\ Unanswered' = Unanswered \cup {nextId}
         /\ request'[nextId].root = root /\ request'[nextId].kind = kind
         /\ intent'[nextId] = why
         /\ \A k \in Requests : k # nextId => /\ request'[k] = request[k] /\ intent'[k] = intent[k]
                                              /\ IsSnapshot(k)' = IsSnapshot(k)
         /\ InStage({"queued", "started"})' = InStage({"queued", "started"}) \cup {nextId}
         /\ \A k \in InStage({"queued", "started"}) : k < nextId
         /\ disk' = disk /\ \A r \in Databases : disk[r].accepted < nextId
  <1>1. /\ TypeOK /\ Numbered /\ Captured /\ Counted /\ Placed /\ InOrder /\ Truthful /\ Owing
    BY InvFacts
  <1>2. PICK n : n = nextId
    OBVIOUS
  <1> DEFINE new == [kind |-> kind, root |-> root, bytes |-> bytes]
  <1>3. /\ n # 0 /\ Cardinality(active) < MaxConcurrent /\ bytes <= MaxReservedBytes - reserved
        /\ request' = [request EXCEPT ![n] = new]
        /\ stage' = [stage EXCEPT ![n] = "queued"]
        /\ active' = active \cup {n} /\ reserved' = reserved + bytes
        /\ nextId' = IF n = LastRequestId THEN 0 ELSE n + 1
        /\ UNCHANGED <<result, cancelled, mailbox, disk>>
    BY <1>2 DEF Submit, Admits, WithinBudget
  <1>4. n \in Requests /\ n \in Nat /\ \A k \in Requests : k \in Nat
    BY <1>1, <1>2, <1>3, TypeFacts
  <1>5. stage[n] = "unused" /\ \A k \in Requests : k >= n => stage[k] = "unused"
    BY <1>1, <1>2, <1>3, <1>4 DEF Numbered
  <1>6. batch = <<>> /\ Positions(batch) = {} /\ Unanswered = active
    BY <1>1, EmptyPositions DEF Placed, Unanswered
  <1>7. n \notin active /\ n \notin Unanswered /\ n \notin Positions(mailbox)
    BY <1>1, <1>4, <1>5, <1>6 DEF Numbered, Placed
  <1>8. /\ active \subseteq Requests /\ IsFiniteSet(active) /\ Cardinality(active) \in Nat /\ reserved \in Nat
        /\ mailbox \in Seq(Requests)
    BY <1>1, TypeFacts
  <1>9. /\ new \in [kind : Kinds, root : Databases, bytes : 1..MaxRequestBytes]
        /\ new.kind = kind /\ new.root = root /\ new.bytes = bytes
    OBVIOUS
  <1> HIDE DEF new
  <1>10. /\ request' \in [Requests -> {NoRequest} \cup [kind : Kinds, root : Databases, bytes : Nat]]
         /\ request'[n] = new
         /\ \A k \in Requests : k # n => request'[k] = request[k]
    <2>1. new \in [kind : Kinds, root : Databases, bytes : Nat]
      BY <1>9
    <2> QED BY <1>1, <1>3, <1>4, <2>1 DEF TypeOK, SchedulerTypeOK
  <1>11. /\ stage' \in [Requests -> StageNames] /\ stage'[n] = "queued"
         /\ \A k \in Requests : k # n => stage'[k] = stage[k]
    <2>1. "queued" \in StageNames
      BY DEF StageNames, Unfinished
    <2> QED BY <1>1, <1>3, <1>4, <2>1, StageMoves
  <1>12. /\ intent' \in [Requests -> {"none", "autosave", "exit", "shutdown", "checkpoint"}]
         /\ intent'[n] = why /\ \A k \in Requests : k # n => intent'[k] = intent[k]
    BY <1>1, <1>2, <1>4 DEF TypeOK
  <1>13. /\ Positions(mailbox)' = Positions(mailbox) /\ Positions(batch)' = {}
         /\ Distinct(mailbox)' = Distinct(mailbox) /\ Distinct(batch)' = Distinct(batch)
         /\ Unanswered' = Unanswered \cup {n}
    BY <1>3, <1>6 DEF Positions, Distinct, Unanswered
  <1>14. /\ IsSnapshot(n)' = (kind = "snapshot")
         /\ \A k \in Requests : k # n => IsSnapshot(k)' = IsSnapshot(k) /\ Compacts(k)' = Compacts(k)
    BY <1>3, <1>9, <1>10 DEF IsSnapshot, Compacts
  <1>15. \A k \in Requests : stage[k] # "unused" => k < n
    <2> SUFFICES ASSUME NEW k \in Requests, stage[k] # "unused" PROVE k < n
      OBVIOUS
    <2>1. k \in Nat /\ ~(k >= n)
      BY <1>4, <1>5
    <2> QED BY <1>4, <2>1
  <1>16. disk' = disk /\ \A r \in Databases : disk[r].accepted < n /\ disk[r].accepted \in Nat
    <2> SUFFICES ASSUME NEW r \in Databases PROVE disk[r].accepted < n /\ disk[r].accepted \in Nat
      BY <1>3
    <2>1. disk[r].accepted \in Nat /\ (disk[r].accepted # 0 => disk[r].accepted \in Requests)
      BY <1>1, TypeFacts
    <2>2. disk[r].accepted # 0 => stage[disk[r].accepted] # "unused"
      BY <1>1 DEF Numbered
    <2> QED BY <1>3, <1>4, <1>15, <2>1, <2>2
  <1>17. /\ InStage({"queued"})' = InStage({"queued"}) \cup {n}
         /\ InStage({"queued", "started"})' = InStage({"queued", "started"}) \cup {n}
         /\ InStage(AtWork)' = InStage(AtWork) \cup {n}
         /\ InStage({"unused", "queued"})' = InStage({"unused", "queued"})
         /\ InStage(Busy)' = InStage(Busy) /\ InStage({"started"})' = InStage({"started"})
         /\ InStage({"journalled"})' = InStage({"journalled"}) /\ InStage({"decided"})' = InStage({"decided"})
    BY <1>4, <1>5, <1>11 DEF InStage, AtWork, Busy, Unfinished
  <1>18. /\ \A k \in InStage({"queued", "started"}) : k \in Requests /\ k # n /\ k < n
         /\ \A k \in InStage(Busy) \cup InStage({"started"}) \cup InStage({"journalled"})
                     \cup InStage({"decided"}) : k \in Requests /\ k # n
    BY <1>4, <1>5, <1>15 DEF InStage, Busy, Unfinished
  <1>19. reserved' \in 0..MaxReservedBytes
    BY <1>1, <1>3, <1>8, ConstantFacts DEF TypeOK, SchedulerTypeOK
  <1>20. SchedulerTypeOK'
    <2>1. nextId' \in 0..LastRequestId
      BY <1>3, <1>4, ConstantFacts DEF Requests
    <2> QED BY <1>1, <1>3, <1>4, <1>8, <1>10, <1>11, <1>19, <2>1 DEF TypeOK, SchedulerTypeOK, StageNames
  <1>21. Numbered'
    <2>1. \A k \in Requests : stage'[k] = "unused" => k # n /\ stage[k] = "unused"
      BY <1>11
    <2>2. nextId' # 0 => \A k \in Requests : k >= nextId' => stage'[k] = "unused"
      <3> SUFFICES ASSUME nextId' = n + 1, NEW k \in Requests, k >= n + 1 PROVE stage'[k] = "unused"
        BY <1>3
      <3>1. k \in Nat /\ k >= n /\ k # n
        BY <1>4
      <3> QED BY <1>5, <1>11, <3>1
    <2>3. \A r \in Databases : disk[r].accepted # 0 => stage'[disk[r].accepted] # "unused"
      BY <1>1, <2>1, TypeFacts DEF Numbered
    <2> QED BY <1>1, <1>3, <1>13, <2>1, <2>2, <2>3 DEF Numbered
  <1>22. Captured'
    <2>1. \A k \in Unanswered : k \in Requests /\ k # n
      BY <1>6, <1>7, <1>8
    <2>2. \A k \in Unanswered' :
             request'[k] \in [kind : Kinds, root : Databases, bytes : 1..MaxRequestBytes]
      BY <1>1, <1>9, <1>10, <1>13, <2>1 DEF Captured
    <2>3. \A k \in Unanswered' : intent'[k] = "checkpoint" <=> ~IsSnapshot(k)'
      <3>1. IsSnapshot(n)' <=> why # "checkpoint"
        BY <1>14 DEF Kinds
      <3> QED BY <1>1, <1>12, <1>13, <1>14, <2>1, <3>1 DEF Captured
    <2>4. \A k \in Requests : intent'[k] # "none" <=> k \in Unanswered'
      BY <1>1, <1>12, <1>13 DEF Captured
    <2> QED BY <2>2, <2>3, <2>4 DEF Captured, Sound, IsSnapshot
  <1>23. Counted'
    <2>1. \A k \in active : request[k].bytes \in Nat /\ request'[k].bytes = request[k].bytes
      <3>1. \A k \in active : request[k] \in [kind : Kinds, root : Databases, bytes : 1..MaxRequestBytes]
                              /\ request'[k] = request[k]
        BY <1>1, <1>6, <1>7, <1>8, <1>10 DEF Captured
      <3> QED BY <3>1
    <2>2. Reserve(request', active) = Reserve(request, active)
      BY <1>8, <2>1, ReserveAgrees
    <2>3. \A k \in active \cup {n} : request'[k].bytes \in Nat
      BY <1>9, <1>10, <2>1
    <2>4. Adds(Reserve(request', active \cup {n}), Reserve(request', active), request'[n].bytes)
      BY <1>7, <1>8, <2>3, ReserveAdd
    <2>5. reserved = Reserve(request, active) /\ Bytes(active)' = Reserve(request', active \cup {n})
      BY <1>1, <1>3, ReserveNow, ReserveNext DEF Counted
    <2>6. Bytes(active)' = reserved'
      BY <1>3, <1>9, <1>10, <2>2, <2>4, <2>5 DEF Adds
    <2>7. Cardinality(active') = Cardinality(active) + 1
      BY <1>3, <1>7, <1>8, FS_AddElement
    <2>8. Cardinality(active') <= MaxConcurrent
      BY <1>3, <1>8, <2>7, ConstantFacts
    <2> QED BY <2>6, <2>8 DEF Counted
  <1>24. Placed'
    <2>1. \A k \in active' : stage'[k] \in AtWork \/ k \in Positions(mailbox)
      <3>1. \A k \in active : k \in Requests /\ (stage[k] \in AtWork \/ k \in Positions(mailbox))
        BY <1>1, <1>8 DEF Placed
      <3>2. stage'[n] \in AtWork
        BY <1>11 DEF AtWork, Unfinished
      <3> QED BY <1>3, <1>7, <1>11, <3>1, <3>2
    <2> QED BY <1>1, <1>3, <1>6, <1>7, <1>13, <1>17, <2>1 DEF Placed
  <1>25. InOrder'
    <2>1. \A k \in InStage({"queued"}) : k \in InStage({"queued", "started"})
      BY DEF InStage
    <2>2. \A k \in InStage({"started"}) : k \in InStage({"queued", "started"})
      BY DEF InStage
    <2>3. ASSUME NEW j \in InStage({"started"})', NEW k \in InStage({"queued"})', IsSnapshot(j)', IsSnapshot(k)'
          PROVE  j < k
      <3>1. j \in InStage({"started"}) /\ j # n /\ j \in Requests /\ IsSnapshot(j) /\ j < n
        BY <1>14, <1>17, <1>18, <2>2, <2>3
      <3>2. CASE k = n
        BY <3>1, <3>2
      <3>3. CASE k # n
        <4>1. k \in InStage({"queued"}) /\ IsSnapshot(k)
          BY <1>14, <1>17, <1>18, <2>1, <2>3, <3>3
        <4> QED BY <1>1, <3>1, <4>1 DEF InOrder
      <3> QED BY <3>2, <3>3
    <2>4. ASSUME NEW r \in Databases, NEW k \in InStage({"queued", "started"})', IsSnapshot(k)'
          PROVE  disk[r].accepted < k
      <3>1. CASE k = n
        BY <1>16, <3>1
      <3>2. CASE k # n
        <4>1. k \in InStage({"queued", "started"}) /\ IsSnapshot(k)
          BY <1>14, <1>17, <1>18, <2>4, <3>2
        <4> QED BY <1>1, <4>1 DEF InOrder
      <3> QED BY <3>1, <3>2
    <2>5. \A j, k \in InStage(Busy)' : j = k
      BY <1>1, <1>17 DEF InOrder
    <2> QED BY <1>16, <2>3, <2>4, <2>5 DEF InOrder
  <1>26. Truthful'
    <2>1. \A k \in Unanswered : k \in Requests /\ k # n
      BY <1>6, <1>7, <1>8
    <2>2. \A k \in InStage({"unused", "queued"})' : result'[k].state = "none"
      BY <1>1, <1>3, <1>17 DEF Truthful
    <2>3. \A k \in InStage({"journalled"})' : IsSnapshot(k)' /\ disk'[request'[k].root].accepted = k
      BY <1>1, <1>10, <1>14, <1>16, <1>17, <1>18 DEF Truthful
    <2>4. \A k \in Unanswered' : /\ IsSnapshot(k)' /\ result'[k].state = "succeeded"
                                 /\ stage'[k] \notin {"queued", "started"}
                                 => disk'[request'[k].root].accepted >= k
      BY <1>1, <1>3, <1>10, <1>11, <1>13, <1>14, <2>1 DEF Truthful
    <2>5. ASSUME NEW r \in Databases, disk'[r].accepted \in Unanswered'
          PROVE  LET a == disk'[r].accepted
                 IN  /\ request'[a].kind = "snapshot" /\ request'[a].root = r
                     /\ result'[a].state = "succeeded" /\ stage'[a] \notin {"queued", "started"}
      <3>1. PICK a : a = disk[r].accepted /\ a \in Unanswered'
        BY <1>16, <2>5
      <3>2. a \in Unanswered /\ a \in Requests /\ a # n
        BY <1>4, <1>13, <1>16, <2>1, <3>1
      <3>3. /\ IsSnapshot(a) /\ request[a].root = r /\ result[a].state = "succeeded"
            /\ stage[a] \notin {"queued", "started"}
        BY <1>1, <3>1, <3>2 DEF Truthful
      <3> QED BY <1>3, <1>10, <1>11, <1>16, <3>1, <3>2, <3>3 DEF IsSnapshot
    <2> QED BY <2>2, <2>3, <2>4, <2>5 DEF Truthful, IsSnapshot
  <1>27. Owing'
    <2>1. \A r : Pending(r)' = Pending(r) /\ (Outstanding(r) => Outstanding(r)')
      BY <1>13, <1>16 DEF Pending, Outstanding
    <2>2. \A k \in InStage({"decided"})' : Compacts(k)' => ~Pending(request'[k].root)
      BY <1>1, <1>10, <1>14, <1>17, <1>18 DEF Owing
    <2>3. ASSUME NEW m \in Positions(mailbox), Compacts(m)', NEW r, r = request'[m].root, Pending(r)
          PROVE  Outstanding(r) /\ Before(mailbox, m, disk[r].accepted)
      <3>1. m \in Requests /\ m # n
        BY <1>1, <1>7, <1>8 DEF Placed
      <3> QED BY <1>1, <1>10, <1>14, <2>3, <3>1 DEF Owing
    <2>4. \A r \in Roots : Pending(r) => Outstanding(r)' \/ retries'[r] # NoEntry \/ r \in told'
      BY <1>1, <2>1 DEF Owing
    <2> QED BY <1>3, <1>13, <1>16, <2>1, <2>2, <2>3, <2>4 DEF Owing, Before, Pending, Outstanding, Compacts, IsSnapshot
  <1> QED BY <1>2, <1>4, <1>7, <1>9, <1>10, <1>12, <1>13, <1>14, <1>16, <1>17, <1>18,
             <1>9, <1>20, <1>21, <1>22, <1>23, <1>24, <1>25, <1>26, <1>27

\* A save that starts the leaving of the session is the newest of all.
LEMMA NewestSave ==
  ASSUME TypeOK, NEW n \in Requests, lastExit' = n, n \in Unanswered', request'[n].root = session',
         intent'[n] \in {"exit", "shutdown"}, at' # "stop",
         disk' = disk, \A r \in Databases : disk[r].accepted < n,
         InStage({"queued", "started"})' = InStage({"queued", "started"}) \cup {n},
         \A k \in InStage({"queued", "started"}) : k < n
  PROVE  Exiting'
  <1>1. n \in Nat /\ (\A r \in Databases : disk[r].accepted \in Nat) /\ InStage({"queued", "started"}) \subseteq Nat
    BY TypeFacts DEF InStage
  <1>2. \A r \in Databases : disk'[r].accepted <= n
    BY <1>1
  <1>3. \A k \in InStage({"queued", "started"})' : k <= n
    BY <1>1
  <1> QED BY <1>2, <1>3 DEF Exiting

LEMMA SubmitSteps ==
  ASSUME PipelineInv,
         SubmitDue \/ (\E b \in Sizes : Autosave(b) \/ ExitSession(b) \/ FinalSave(b))
  PROVE  PipelineInv'
  <1>1. /\ TypeOK /\ Captured /\ Placed /\ Exiting /\ Stages
    BY InvFacts
  <1>2. Sound(retries)
    BY <1>1 DEF Sound, Tables, TypeOK, Captured
  <1>3. "none" \notin Roots /\ Roots = Databases /\ session \in Roots \cup {"none"}
    BY <1>1, DatabasesAssumption DEF TypeOK
  <1>4. ASSUME NEW b \in Sizes, Admits(b) PROVE b \in 1..MaxRequestBytes
    BY <1>4, ConstantFacts DEF Admits, WithinBudget
  <1>5. CASE SubmitDue
    <2>1. /\ at = "submit" /\ at' = "act" /\ quit = "no"
          /\ UNCHANGED <<quit, app, session, batch, saveError, told, lastExit, failed>>
      BY <1>1, <1>5 DEF SubmitDue, Stages, TypeOK
    <2>2. Stages'
      BY <1>1, <2>1 DEF Stages
    <2>3. Leaving' <=> Leaving
      BY <2>1 DEF Leaving
    <2>4. CASE UNCHANGED <<schedulerVars, intent, retries>>
      <3>1. batch = <<>>
        BY <1>1, <2>1 DEF Placed
      <3>2. /\ UNCHANGED schedulerVars /\ UNCHANGED <<intent, batch, retries, told>>
            /\ at \notin {"joining", "down"} /\ at' \notin {"joining", "down"}
        BY <2>1, <2>4
      <3>3. /\ SchedulerTypeOK' /\ Numbered' /\ Captured' /\ Counted' /\ Placed' /\ InOrder' /\ Truthful' /\ Owing'
            /\ Unanswered' = Unanswered
        BY <3>1, <3>2, QuietParts
      <3>4. UNCHANGED <<request, stage, disk>>
        BY <2>4 DEF schedulerVars
      <3>5. TypeOK'
        BY <1>1, <2>1, <2>4, <3>3 DEF TypeOK
      <3>6. Exiting'
        <4>1. (\A s : InStage(s)' = InStage(s)) /\ \A k : IsSnapshot(k)' = IsSnapshot(k)
          BY <3>4 DEF InStage, IsSnapshot
        <4> QED BY <1>1, <2>1, <2>3, <2>4, <3>3, <3>4, <4>1 DEF Exiting, Saved
      <3> QED BY <2>2, <3>3, <3>5, <3>6 DEF PipelineInv
    <2>5. ASSUME NEW r \in Due(retries), RetryCheckpoint(r) PROVE PipelineInv'
      <3>1. /\ Sound(Submitted(retries, r)) /\ r \in Roots /\ retries[r].bytes \in 1..MaxRequestBytes
            /\ \A q \in Roots : retries[q] # NoEntry => Submitted(retries, r)[q] # NoEntry
        BY <1>2, SubmittedSound
      <3> DEFINE b == retries[r].bytes
                 n == nextId
      <3>2. /\ Admits(b) /\ Submit("checkpoint", r, b) /\ intent' = [intent EXCEPT ![n] = "checkpoint"]
            /\ retries' = Submitted(retries, r)
        BY <2>5 DEF RetryCheckpoint
      <3>3. b \in 1..MaxRequestBytes /\ r \in Databases /\ "checkpoint" \in Kinds
        BY <1>3, <3>1 DEF Kinds
      <3> HIDE DEF b
      <3>4. /\ SchedulerTypeOK' /\ Numbered' /\ Captured' /\ Counted' /\ Placed' /\ InOrder' /\ Truthful' /\ Owing'
            /\ intent' \in [Requests -> {"none", "autosave", "exit", "shutdown", "checkpoint"}]
            /\ n \in Requests /\ n \notin Unanswered /\ Unanswered' = Unanswered \cup {n}
            /\ request'[n].kind = "checkpoint"
            /\ \A k \in Requests : k # n => /\ request'[k] = request[k] /\ intent'[k] = intent[k]
                                            /\ IsSnapshot(k)' = IsSnapshot(k)
            /\ InStage({"queued", "started"})' = InStage({"queued", "started"}) \cup {n}
            /\ disk' = disk
        BY <2>1, <3>1, <3>2, <3>3, SubmitParts
      <3>5. TypeOK'
        BY <1>1, <2>1, <3>1, <3>2, <3>4 DEF TypeOK, Sound, Tables
      <3>6. Exiting'
        <4>1. PICK m : m = n
          OBVIOUS
        <4>2. \A k \in InStage({"queued", "started"})' :
                 IsSnapshot(k)' => k \in InStage({"queued", "started"}) /\ IsSnapshot(k)
          <5>1. ~IsSnapshot(m)'
            BY <3>4, <4>1 DEF IsSnapshot
          <5> QED BY <3>4, <4>1, <5>1 DEF InStage
        <4>3. Saved' = Saved
          BY <2>1, <3>4 DEF Saved
        <4>4. \A k \in Unanswered : k \in Requests => /\ k \in Unanswered' /\ request'[k] = request[k]
                                                      /\ intent'[k] = intent[k]
          BY <3>4
        <4> QED BY <1>1, <2>1, <2>3, <3>4, <4>2, <4>3, <4>4 DEF Exiting
      <3> QED BY <2>2, <3>4, <3>5, <3>6 DEF PipelineInv
    <2> QED BY <1>5, <2>4, <2>5 DEF SubmitDue
  <1>6. ASSUME NEW b \in Sizes, NEW why \in {"autosave", "exit", "shutdown"}, QueueSave(why, b),
               session # "none", UNCHANGED <<session, batch, retries, told>>,
               {at, at'} \cap {"joining", "down", "consume", "collect"} = {}
        PROVE  /\ SchedulerTypeOK' /\ Numbered' /\ Captured' /\ Counted' /\ Placed' /\ InOrder' /\ Truthful' /\ Owing'
               /\ intent' \in [Requests -> {"none", "autosave", "exit", "shutdown", "checkpoint"}]
               /\ IF why = "autosave"
                  THEN UNCHANGED <<saveError, lastExit>>
                  ELSE saveError' = FALSE /\ lastExit' \in Requests /\ (at' # "stop" => Exiting')
    <2> DEFINE n == nextId
    <2>1. /\ Admits(b) /\ Submit("snapshot", session, b) /\ intent' = [intent EXCEPT ![n] = why]
          /\ IF why = "autosave" THEN UNCHANGED <<saveError, lastExit>>
                                 ELSE saveError' = FALSE /\ lastExit' = n
      BY <1>6 DEF QueueSave
    <2>2. b \in 1..MaxRequestBytes /\ session \in Databases /\ "snapshot" \in Kinds
          /\ why \in {"autosave", "exit", "shutdown", "checkpoint"} /\ why # "checkpoint"
          /\ retries' = retries /\ UNCHANGED <<batch, told>>
      BY <1>3, <1>4, <1>6, <2>1 DEF Kinds
    <2>3. /\ SchedulerTypeOK' /\ Numbered' /\ Captured' /\ Counted' /\ Placed' /\ InOrder' /\ Truthful' /\ Owing'
          /\ intent' \in [Requests -> {"none", "autosave", "exit", "shutdown", "checkpoint"}]
          /\ n \in Requests /\ Unanswered' = Unanswered \cup {n}
          /\ request'[n].root = session /\ intent'[n] = why
          /\ InStage({"queued", "started"})' = InStage({"queued", "started"}) \cup {n}
          /\ \A k \in InStage({"queued", "started"}) : k < n
          /\ disk' = disk /\ \A r \in Databases : disk[r].accepted < n
      BY <1>2, <1>6, <2>1, <2>2, SubmitParts
    <2>4. PICK m : m = n
      OBVIOUS
    <2> HIDE DEF n
    <2>5. ASSUME why # "autosave", at' # "stop" PROVE Exiting'
      <3>1. /\ m \in Requests /\ lastExit' = m /\ m \in Unanswered' /\ request'[m].root = session'
            /\ intent'[m] \in {"exit", "shutdown"} /\ at' # "stop"
            /\ disk' = disk /\ \A r \in Databases : disk[r].accepted < m
            /\ InStage({"queued", "started"})' = InStage({"queued", "started"}) \cup {m}
            /\ \A k \in InStage({"queued", "started"}) : k < m
        BY <1>6, <2>1, <2>3, <2>4, <2>5
      <3> QED BY <1>1, <3>1, NewestSave
    <2> QED BY <2>1, <2>3, <2>5
  <1>7. ASSUME NEW b \in Sizes, Autosave(b) \/ ExitSession(b) PROVE PipelineInv'
    <2>1. /\ at = "act" /\ at' = "poll" /\ app = "playing" /\ UNCHANGED <<quit, session, batch, retries, told, failed>>
          /\ quit = "no" /\ session # "none"
      BY <1>1, <1>7 DEF Autosave, ExitSession, Act, Stages, TypeOK
    <2>2. PICK why \in {"autosave", "exit", "shutdown"} :
             /\ QueueSave(why, b)
             /\ \/ why = "autosave" /\ app' = app
                \/ why = "exit" /\ app' = "unloading"
      BY <1>7 DEF Autosave, ExitSession
    <2>3. /\ SchedulerTypeOK' /\ Numbered' /\ Captured' /\ Counted' /\ Placed' /\ InOrder' /\ Truthful' /\ Owing'
          /\ intent' \in [Requests -> {"none", "autosave", "exit", "shutdown", "checkpoint"}]
          /\ IF why = "autosave"
             THEN UNCHANGED <<saveError, lastExit>>
             ELSE saveError' = FALSE /\ lastExit' \in Requests /\ (at' # "stop" => Exiting')
      BY <1>6, <2>1, <2>2
    <2>4. Stages'
      BY <1>1, <2>1, <2>2 DEF Stages
    <2>5. TypeOK'
      <3>1. lastExit' \in 0..LastRequestId /\ saveError' \in BOOLEAN
        <4>1. \/ UNCHANGED <<saveError, lastExit>>
              \/ saveError' = FALSE /\ lastExit' \in Requests
          BY <2>3
        <4>2. Requests \subseteq 0..LastRequestId
          BY ConstantFacts DEF Requests
        <4> QED BY <1>1, <4>1, <4>2 DEF TypeOK
      <3> QED BY <1>1, <2>1, <2>2, <2>3, <3>1 DEF TypeOK
    <2>6. Exiting'
      <3>1. CASE why = "autosave"
        BY <2>1, <2>2, <3>1 DEF Exiting, Leaving
      <3>2. CASE why # "autosave"
        BY <2>1, <2>3, <3>2
      <3> QED BY <3>1, <3>2
    <2> QED BY <2>3, <2>4, <2>5, <2>6 DEF PipelineInv
  <1>8. ASSUME NEW b \in Sizes, FinalSave(b) PROVE PipelineInv'
    <2>1. at = "final" /\ quit' = "second" /\ UNCHANGED <<app, session, batch, retries, told>>
          /\ batch = <<>> /\ quit = "first"
      BY <1>1, <1>8 DEF FinalSave, Placed, Stages, TypeOK
    <2>2. CASE session # "none" /\ QueueSave("shutdown", b) /\ at' = "wait" /\ UNCHANGED failed
      <3>1. PICK why \in {"autosave", "exit", "shutdown"} : why = "shutdown" /\ QueueSave(why, b)
        BY <2>2
      <3>2. {at, at'} \cap {"joining", "down", "consume", "collect"} = {}
        BY <2>1, <2>2
      <3>3. UNCHANGED <<session, batch, retries, told>> /\ session # "none"
        BY <2>1, <2>2
      <3>4. /\ SchedulerTypeOK' /\ Numbered' /\ Captured' /\ Counted' /\ Placed' /\ InOrder' /\ Truthful' /\ Owing'
            /\ intent' \in [Requests -> {"none", "autosave", "exit", "shutdown", "checkpoint"}]
            /\ IF why = "autosave"
               THEN UNCHANGED <<saveError, lastExit>>
               ELSE saveError' = FALSE /\ lastExit' \in Requests /\ (at' # "stop" => Exiting')
        BY <1>6, <3>1, <3>2, <3>3
      <3>5. Stages'
        BY <1>1, <2>1, <2>2 DEF Stages
      <3>6. TypeOK'
        <4>1. lastExit' \in 0..LastRequestId /\ saveError' \in BOOLEAN
          <5>1. saveError' = FALSE /\ lastExit' \in Requests
            BY <3>1, <3>4
          <5>2. Requests \subseteq 0..LastRequestId
            BY ConstantFacts DEF Requests
          <5> QED BY <5>1, <5>2
        <4> QED BY <1>1, <2>1, <2>2, <3>4, <4>1 DEF TypeOK
      <3> QED BY <2>2, <3>1, <3>4, <3>5, <3>6 DEF PipelineInv
    <2>3. CASE /\ UNCHANGED <<schedulerVars, intent, saveError, lastExit>>
               /\ \/ session # "none" /\ at' = "stop" /\ failed' = TRUE
                  \/ session = "none" /\ at' = "wait" /\ UNCHANGED failed
      <3>1. /\ UNCHANGED schedulerVars /\ UNCHANGED <<intent, batch, retries, told>>
            /\ at \notin {"joining", "down"} /\ at' \notin {"joining", "down"}
        BY <2>1, <2>3
      <3>2. /\ SchedulerTypeOK' /\ Numbered' /\ Captured' /\ Counted' /\ Placed' /\ InOrder' /\ Truthful' /\ Owing'
        BY <2>1, <3>1, QuietParts
      <3>3. Stages'
        BY <1>1, <2>1, <2>3 DEF Stages
      <3>4. TypeOK'
        BY <1>1, <2>1, <2>3, <3>2 DEF TypeOK
      <3>5. Exiting'
        BY <2>1, <2>3 DEF Exiting, Leaving
      <3> QED BY <3>2, <3>3, <3>4, <3>5 DEF PipelineInv
    <2> QED BY <1>8, <2>2, <2>3 DEF FinalSave
  <1> QED BY <1>5, <1>7, <1>8

LEMMA StopStep ==
  ASSUME PipelineInv, StopScheduler
  PROVE  PipelineInv'
  <1>1. /\ TypeOK /\ Numbered /\ Captured /\ Counted /\ Placed /\ InOrder /\ Truthful /\ Owing
        /\ Exiting /\ Stages
    BY InvFacts
  <1>2. /\ at = "stop" /\ at' = "joining" /\ cancelled' = cancelled \cup active
        /\ app' = "menu" /\ session' = "none"
        /\ UNCHANGED <<request, stage, result, active, reserved, nextId, mailbox, disk>>
        /\ UNCHANGED <<quit, intent, batch, retries, saveError, told, lastExit, failed>>
    BY DEF StopScheduler, CancelAll, worker
  <1>3. /\ Unanswered' = Unanswered /\ \A s : InStage(s)' = InStage(s)
        /\ Positions(mailbox)' = Positions(mailbox) /\ Positions(batch)' = Positions(batch)
        /\ Distinct(mailbox)' = Distinct(mailbox) /\ Distinct(batch)' = Distinct(batch)
        /\ \A k : IsSnapshot(k)' = IsSnapshot(k) /\ Compacts(k)' = Compacts(k)
    BY <1>2 DEF Unanswered, InStage, Positions, Distinct, IsSnapshot, Compacts
  <1>4. TypeOK'
    <2>1. cancelled' \subseteq Requests
      BY <1>1, <1>2 DEF TypeOK, SchedulerTypeOK
    <2> QED BY <1>1, <1>2, <2>1 DEF TypeOK, SchedulerTypeOK
  <1>5. Numbered'
    BY <1>1, <1>2, <1>3 DEF Numbered
  <1>6. Captured'
    BY <1>1, <1>2, <1>3 DEF Captured
  <1>7. Counted'
    BY <1>1, <1>2, ReserveNow, ReserveNext DEF Counted
  <1>8. Placed'
    BY <1>1, <1>2, <1>3 DEF Placed
  <1>9. InOrder'
    BY <1>1, <1>2, <1>3 DEF InOrder
  <1>10. Truthful'
    BY <1>1, <1>2, <1>3 DEF Truthful
  <1>11. Owing'
    BY <1>1, <1>2, <1>3 DEF Owing, Outstanding, Pending
  <1>12. Exiting' /\ Stages'
    <2>1. "none" \notin Roots
      BY DatabasesAssumption
    <2>2. quit = "second"
      BY <1>1, <1>2 DEF Stages, TypeOK
    <2> QED BY <1>2, <2>1, <2>2 DEF Exiting, Leaving, Stages
  <1> QED BY <1>4, <1>5, <1>6, <1>7, <1>8, <1>9, <1>10, <1>11, <1>12 DEF PipelineInv

\* Nothing is reserved for nothing.
LEMMA ReserveEmpty == ASSUME NEW table PROVE Reserve(table, {}) = 0
  <1>1. Units(table, {}) = {}
    BY DEF Units
  <1>2. IsFiniteSet({}) /\ Cardinality({}) = 0
    BY FS_EmptySet
  <1>3. Reserve(table, {}) = Cardinality(Units(table, {}))
    BY <1>2, ReserveIsCount
  <1> QED BY <1>1, <1>2, <1>3

LEMMA StoppedStep ==
  ASSUME PipelineInv, Stopped
  PROVE  PipelineInv'
  <1>1. /\ TypeOK /\ Numbered /\ Captured /\ Placed /\ Truthful /\ Exiting /\ Stages
    BY InvFacts
  <1>2. /\ at = "joining" /\ at' = "down" /\ InStage(Unfinished) = {}
        /\ mailbox' = <<>> /\ active' = {} /\ reserved' = 0
        /\ UNCHANGED <<request, stage, result, cancelled, nextId, disk>>
        /\ UNCHANGED <<quit, app, session, intent, batch, retries, saveError, told, lastExit, failed>>
    BY DEF Stopped, Joined, Discard
  <1>3. batch = <<>>
    BY <1>1, <1>2 DEF Placed
  <1>4. /\ Positions(mailbox)' = {} /\ Positions(batch)' = {} /\ Unanswered' = {}
        /\ Distinct(mailbox)' /\ Distinct(batch)' /\ mailbox' \in Seq(Requests)
    BY <1>2, <1>3, EmptyPositions DEF Positions, Distinct, Unanswered
  <1>5. /\ \A s : InStage(s)' = InStage(s)
        /\ InStage(AtWork) = {} /\ InStage(Busy) = {} /\ InStage({"queued"}) = {}
        /\ InStage({"started"}) = {} /\ InStage({"queued", "started"}) = {}
        /\ InStage({"journalled"}) = {} /\ InStage({"decided"}) = {}
    BY <1>2 DEF InStage, AtWork, Busy, Unfinished
  <1>6. TypeOK'
    <2>1. reserved' \in 0..MaxReservedBytes
      BY <1>2, ConstantFacts
    <2> QED BY <1>1, <1>2, <1>4, <2>1 DEF TypeOK, SchedulerTypeOK
  <1>7. Numbered'
    BY <1>1, <1>2, <1>4 DEF Numbered
  <1>8. Captured'
    BY <1>1, <1>2, <1>4 DEF Captured
  <1>9. Counted'
    <2>1. Bytes(active)' = 0 /\ Cardinality(active') = 0
      BY <1>2, ReserveNext, ReserveEmpty, FS_EmptySet
    <2> QED BY <1>2, <2>1, ConstantFacts DEF Counted
  <1>10. Placed'
    BY <1>2, <1>3, <1>4, <1>5 DEF Placed
  <1>11. InOrder'
    BY <1>2, <1>5 DEF InOrder
  <1>12. Truthful'
    <2>1. \A k \in InStage({"unused", "queued"})' : result'[k].state = "none"
      BY <1>1, <1>2, <1>5 DEF Truthful
    <2> QED BY <1>2, <1>4, <1>5, <2>1 DEF Truthful
  <1>13. Owing'
    BY <1>2, <1>4, <1>5 DEF Owing
  <1>14. Exiting' /\ Stages'
    BY <1>1, <1>2 DEF Exiting, Leaving, Stages
  <1> QED BY <1>6, <1>7, <1>8, <1>9, <1>10, <1>11, <1>12, <1>13, <1>14 DEF PipelineInv

LEMMA InitPipeline == Init => PipelineInv
  <1> SUFFICES ASSUME Init PROVE PipelineInv
    OBVIOUS
  <1> USE DEF Init, SchedulerInit
  <1>1. mailbox = <<>> /\ batch = <<>> /\ active = {} /\ nextId = 1 /\ 1 \in Requests /\ 0 \in 0..LastRequestId
    BY LimitsAssumption DEF Requests
  <1>2. /\ Positions(mailbox) = {} /\ Positions(batch) = {} /\ Unanswered = {}
        /\ Distinct(mailbox) /\ Distinct(batch) /\ <<>> \in Seq(Requests)
    BY <1>1, EmptyPositions DEF Unanswered
  <1>3. \A s : "unused" \notin s => InStage(s) = {}
    BY DEF InStage
  <1>4. /\ InStage(AtWork) = {} /\ InStage(Busy) = {} /\ InStage({"queued"}) = {}
        /\ InStage({"started"}) = {} /\ InStage({"queued", "started"}) = {}
        /\ InStage({"journalled"}) = {} /\ InStage({"decided"}) = {} /\ InStage(Unfinished) = {}
    BY <1>3 DEF AtWork, Busy, Unfinished
  <1>5. TypeOK
    <2>1. /\ reserved \in 0..MaxReservedBytes /\ nextId \in 0..LastRequestId
      BY <1>1, ConstantFacts DEF Requests
    <2>2. SchedulerTypeOK
      BY <1>1, <1>2, <2>1 DEF SchedulerTypeOK, NoRequest, NoResult
    <2>3. retries \in Tables
      BY NoEntryType DEF Tables
    <2> HIDE DEF SchedulerInit
    <2> QED BY <1>1, <1>2, <2>2, <2>3 DEF TypeOK, Tables
  <1>6. Numbered
    BY <1>1, <1>2 DEF Numbered
  <1>7. Captured
    BY <1>2 DEF Captured
  <1>8. Counted
    <2>1. Bytes(active) = 0 /\ Cardinality(active) = 0
      BY <1>1, ReserveNow, ReserveEmpty, FS_EmptySet
    <2> QED BY <2>1, ConstantFacts DEF Counted
  <1>9. Placed
    BY <1>1, <1>2, <1>4 DEF Placed
  <1>10. InOrder
    BY <1>4 DEF InOrder
  <1>11. Truthful
    <2>1. \A k \in Requests : result[k].state = "none"
      BY DEF NoResult
    <2> QED BY <1>2, <1>4, <2>1 DEF Truthful, InStage
  <1>12. Owing
    <2>1. \A r \in Roots : ~Pending(r)
      BY ConstantFacts DEF Pending
    <2> QED BY <1>2, <1>4, <2>1 DEF Owing
  <1>13. Exiting /\ Stages
    BY DEF Exiting, Leaving, Stages
  <1> QED BY <1>5, <1>6, <1>7, <1>8, <1>9, <1>10, <1>11, <1>12, <1>13 DEF PipelineInv

LEMMA NextPipeline == PipelineInv /\ [Next]_vars => PipelineInv'
  <1> SUFFICES ASSUME PipelineInv, [Next]_vars PROVE PipelineInv'
    OBVIOUS
  <1>1. CASE Worker
    BY <1>1, WorkerSteps
  <1>2. CASE Frame
    <2>1. CASE PollPool
      BY <2>1, PoolSteps
    <2>2. CASE PollResults
      BY <2>2, DrainSteps
    <2>3. CASE Consume
      BY <2>3, ConsumeStep
    <2>4. CASE EndConsume \/ StayPut \/ Unload \/ \E r \in Roots : StartSession(r)
      BY <2>4, QuietSteps
    <2>5. CASE SubmitDue \/ \E b \in Sizes : ExitSession(b) \/ Autosave(b)
      BY <2>5, SubmitSteps
    <2> QED BY <1>2, <2>1, <2>2, <2>3, <2>4, <2>5 DEF Frame
  <1>3. CASE BeginShutdown
    BY <1>3, QuietSteps
  <1>4. CASE Shutdown
    <2>1. CASE WaitResults
      BY <2>1, DrainSteps
    <2>2. CASE Collect
      BY <2>2, PoolSteps
    <2>3. CASE EndWait
      BY <2>3, QuietSteps
    <2>4. CASE StopScheduler
      BY <2>4, StopStep
    <2>5. CASE Stopped
      BY <2>5, StoppedStep
    <2>6. CASE \E b \in Sizes : FinalSave(b)
      BY <2>6, SubmitSteps
    <2> QED BY <1>4, <2>1, <2>2, <2>3, <2>4, <2>5, <2>6 DEF Shutdown
  <1>5. CASE UNCHANGED vars
    <2>1. /\ stage' \in [Requests -> StageNames] /\ UNCHANGED <<stage, result, mailbox, disk, told>>
          /\ UNCHANGED ledger
          /\ UNCHANGED <<at, quit, app, session, intent, batch, retries, saveError, lastExit, failed>>
      BY <1>5, InvFacts, StoreFacts DEF vars, ledger
    <2> QED BY <2>1, DoneStep
  <1> QED BY <1>1, <1>2, <1>3, <1>4, <1>5 DEF Next

--------------------------------------------------------------------------------
(* The theorems *)

\* Requests, mailbox, retry queue and application agree at every step: where each request is,
\* what its result says of the disk, and which root is still owed a compaction.
THEOREM PipelineInvariant == Spec => []PipelineInv
  BY InitPipeline, NextPipeline, PTL DEF Spec

\* Every variable keeps its type, whatever the limits: in particular no more bytes are reserved
\* than the configuration allows (SaveScheduler::submit, account_completed).
THEOREM TypeCorrect == Spec => []TypeOK
  <1>1. PipelineInv => TypeOK
    BY DEF PipelineInv
  <1> QED BY <1>1, PipelineInvariant, PTL

\* The reservation is always the sum of what the active requests were measured at, and every
\* request a job works on is active.
THEOREM ReservationHolds == Spec => []ReservationCovers
  <1>1. PipelineInv => ReservationCovers
    BY DEF PipelineInv, Counted, Placed, AtWork, ReservationCovers
  <1> QED BY <1>1, PipelineInvariant, PTL

\* Until the scheduler stops, every request the owner waits for is at work, in the mailbox or in
\* the drained batch: the mailbox never drops a result (SharedState::publish).
THEOREM Answered == Spec => []EveryRequestAnswered
  <1>1. PipelineInv => EveryRequestAnswered
    BY DEF PipelineInv, Captured, Placed, Unanswered, AtWork, EveryRequestAnswered
  <1> QED BY <1>1, PipelineInvariant, PTL

\* An accepted snapshot that is behind has its checkpoint scheduled, in flight, announced by a
\* result on its way, or given up in front of the user (consume_save_results).
THEOREM CheckpointIsOwed == Spec => []CheckpointOwed
  <1>1. ASSUME PipelineInv PROVE CheckpointOwed
    <2> SUFFICES ASSUME at # "down", NEW r \in Roots, Pending(r), retries[r] = NoEntry, r \notin told
                 PROVE  \E i \in Requests : intent[i] \notin {"none", "checkpoint"} /\ request[i].root = r
      BY DEF CheckpointOwed
    <2>1. TypeOK /\ Captured /\ Truthful /\ Owing /\ r \in Databases
      BY <1>1, InvFacts, ConstantFacts
    <2>2. PICK a \in Unanswered : a = disk[r].accepted
      BY <2>1 DEF Owing, Outstanding
    <2>3. a \in Requests /\ IsSnapshot(a) /\ request[a].root = r
      BY <2>1, <2>2, TypeFacts DEF Truthful
    <2>4. intent[a] \notin {"none", "checkpoint"}
      BY <2>1, <2>2, <2>3 DEF Captured
    <2> QED BY <2>3, <2>4
  <1> QED BY <1>1, PipelineInvariant, PTL

\* A step of the worker accepts a newer snapshot or none.
LEMMA AcceptsNewer ==
  ASSUME PipelineInv, [Next]_vars, NEW r \in Databases
  PROVE  disk'[r].accepted >= disk[r].accepted
  <1>1. TypeOK /\ InOrder
    BY InvFacts
  <1>2. disk[r].accepted \in Nat /\ disk \in [Databases -> [accepted : 0..LastRequestId, compacted : 0..LastRequestId]]
    BY <1>1, TypeFacts, StoreFacts
  <1>3. CASE UNCHANGED disk
    BY <1>2, <1>3
  <1>4. CASE \E q \in Databases : Compacted(q)
    BY <1>1, <1>2, <1>4, CompactedFacts
  <1>5. ASSUME NEW i \in Requests, stage[i] = "started", IsSnapshot(i),
               disk' = [disk EXCEPT ![request[i].root].accepted = i]
        PROVE  disk'[r].accepted >= disk[r].accepted
    <2>1. disk[r].accepted < i /\ i \in Nat
      BY <1>1, <1>5, TypeFacts DEF InOrder, InStage
    <2>2. disk'[r].accepted \in {i, disk[r].accepted}
      BY <1>2, <1>5
    <2> QED BY <1>2, <2>1, <2>2
  <1>6. CASE Worker
    <2>1. PICK i \in Requests : WorkerStep(i) \/ JournalStep(i)
      BY <1>6 DEF Worker
    <2>2. CASE JournalStep(i)
      BY <1>3, <1>5, <2>2 DEF JournalStep, Journal, IsSnapshot
    <2>3. CASE CompactAccepted(i) \/ Checkpoint(i)
      <3>1. request[i].root \in Databases
        BY <2>3, AtWorkFacts DEF CompactAccepted, Checkpoint, AtWork, Unfinished
      <3> QED BY <1>3, <1>4, <2>3, <3>1 DEF CompactAccepted, Checkpoint
    <2>4. CASE Start(i) \/ Publish(i) \/ Finish(i, at = "joining")
      BY <1>3, <2>4 DEF Start, Publish, Finish
    <2> QED BY <2>1, <2>2, <2>3, <2>4 DEF WorkerStep
  <1>7. CASE Frame \/ BeginShutdown \/ Shutdown \/ UNCHANGED vars
    <2>1. UNCHANGED disk
      BY <1>7 DEF Frame, Shutdown, BeginShutdown, vars, PollPool, PollResults, Consume, EndConsume,
                  SubmitDue, RetryCheckpoint, StayPut, Unload, StartSession, ExitSession, Autosave,
                  QueueSave, WaitResults, Collect, EndWait, StopScheduler, Stopped, FinalSave,
                  Submit, DrainPool, DrainTyped, Forget, Discard, CancelAll, schedulerVars, worker
    <2> QED BY <1>3, <2>1
  <1> QED BY <1>6, <1>7 DEF Next

\* No root goes back to an older snapshot, however the worker and the owner interleave (the
\* pool's submission order and its single worker).
THEOREM NewestWins == Spec => NewestSnapshotWins
  <1>1. PipelineInv /\ [Next]_vars => \A r \in Databases : disk'[r].accepted >= disk[r].accepted
    BY AcceptsNewer
  <1> QED BY <1>1, PipelineInvariant, PTL DEF Spec, NewestSnapshotWins

LEMMA LeavesSaved ==
  ASSUME PipelineInv, Next, Leaves
  PROVE  disk[session].accepted = lastExit
  <1>1. Placed /\ Exiting /\ Stages /\ TypeOK
    BY InvFacts
  <1>2. CASE Unload
    <2>1. Leaving /\ batch = <<>> /\ active = {}
      BY <1>1, <1>2 DEF Unload, Act, Leaving, Stages, Placed, TypeOK
    <2>2. Unanswered = {}
      BY <2>1, EmptyPositions DEF Unanswered
    <2> QED BY <1>1, <2>1, <2>2 DEF Exiting, Saved, Leaves
  <1>3. CASE StopScheduler
    BY <1>1, <1>3 DEF StopScheduler, Exiting, Saved, Leaves
  <1>4. CASE \E r \in Roots : StartSession(r)
    BY <1>4, DatabasesAssumption DEF StartSession, Leaves
  <1>5. CASE UNCHANGED session
    BY <1>5 DEF Leaves
  <1>6. CASE Worker
    BY <1>5, <1>6 DEF Worker, WorkerStep, JournalStep, owner
  <1>7. CASE \/ PollPool \/ PollResults \/ Consume \/ EndConsume \/ SubmitDue \/ StayPut
             \/ \E b \in Sizes : ExitSession(b) \/ Autosave(b) \/ FinalSave(b)
    BY <1>5, <1>7 DEF PollPool, PollResults, Consume, EndConsume, SubmitDue, StayPut, ExitSession,
                      Autosave, FinalSave
  <1>8. CASE WaitResults \/ Collect \/ EndWait \/ Stopped \/ BeginShutdown
    BY <1>5, <1>8 DEF WaitResults, Collect, EndWait, Stopped, BeginShutdown
  <1> QED BY <1>2, <1>3, <1>4, <1>6, <1>7, <1>8 DEF Next, Frame, Shutdown

\* A session that is left without a save error and without a failed shutdown has its last
\* required save on disk, and nothing newer (session_unloading, shutdown).
THEOREM ExitIsDurable == Spec => ExitSaveDurable
  <1>1. PipelineInv /\ [Next]_vars => [Leaves => disk[session].accepted = lastExit]_vars
    BY LeavesSaved
  <1> QED BY <1>1, PipelineInvariant, PTL DEF Spec, ExitSaveDurable
================================================================================
