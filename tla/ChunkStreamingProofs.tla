-------------------------- MODULE ChunkStreamingProofs --------------------------
(***************************************************************************)
(* Proofs about ChunkStreaming, for any chunks, views and limits: typing,   *)
(* that the controller, its planner and the scheduler never disagree, and   *)
(* that only what the last plan wanted enters the world.                    *)
(***************************************************************************)
EXTENDS ChunkStreaming, FiniteSetTheorems, TLAPS

--------------------------------------------------------------------------------
(* The invariant *)

Flags == [atWork : BOOLEAN, cancelled : BOOLEAN]
Results == [chunk : Chunks, state : {"succeeded", "failed", "cancelled"}]
Speculation == [state : {"submitted", "published", "cancellation_requested"}, invalidated : BOOLEAN]

Typed ==
  /\ Active \subseteq Chunks /\ requests \in [Active -> Flags]
  /\ mailbox \in Seq(Results) /\ ready \in Seq(Results)
  /\ Len(mailbox) <= MaxCompleted
  /\ retiring \in 0..WorkerCount /\ generic \in 0..MaxCompleted
  /\ resident \subseteq Chunks
  /\ phase \in {"publish", "plan", "stopped"} /\ failure \in Failures
  /\ pending \in [DOMAIN pending -> {"required", "speculative"}]
  /\ DOMAIN speculative \subseteq Chunks /\ speculative \in [DOMAIN speculative -> Speculation]

\* Every result is that of an active request, and no request has two.
Answers ==
  /\ \A j \in DOMAIN Collected : Collected[j].chunk \in Active \ AtWork
  /\ \A j, k \in DOMAIN Collected : Collected[j].chunk = Collected[k].chunk => j = k

\* The controller tracks what the scheduler works on.
Tracking ==
  /\ phase # "stopped" => DOMAIN pending = Active
  /\ required \cap DOMAIN speculative = {}
  /\ \A c \in DOMAIN speculative :
       /\ speculative[c].state = "submitted" => c \in DOMAIN pending /\ pending[c] = "speculative"
       /\ speculative[c].state = "cancellation_requested" => speculative[c].invalidated
       /\ speculative[c].state = "published" => c \notin Active

\* A request is for a chunk that is missing, and wanted unless it is cancelled.
Wanted ==
  /\ Active \cap resident = {}
  /\ \A c \in Active : ~requests[c].cancelled => c \in interest

StreamingInv == Typed /\ Cardinality(Active) <= MaxRequests /\ Answers /\ Tracking /\ Wanted
                /\ NeverMismatched

--------------------------------------------------------------------------------
(* Sequences of results *)

LEMMA Concatenated ==
  ASSUME NEW s \in Seq(Results), NEW t \in Seq(Results)
  PROVE  /\ s \o t \in Seq(Results) /\ Len(s \o t) \in Nat /\ DOMAIN (s \o t) = 1..Len(s \o t)
         /\ \A k \in DOMAIN (s \o t) : (s \o t)[k] \in Results
  OBVIOUS

\* A new result comes after all that were collected before.
LEMMA ConcatenatedAppend ==
  ASSUME NEW s \in Seq(Results), NEW t \in Seq(Results), NEW x \in Results
  PROVE  /\ DOMAIN (s \o Append(t, x)) = DOMAIN (s \o t) \cup {Len(s \o t) + 1}
         /\ (s \o Append(t, x))[Len(s \o t) + 1] = x
         /\ \A k \in DOMAIN (s \o t) : (s \o Append(t, x))[k] = (s \o t)[k]
         /\ Len(s \o t) + 1 \notin DOMAIN (s \o t)
  OBVIOUS

\* What is left of the results after the first n.
LEMMA Remaining ==
  ASSUME NEW s \in Seq(Results), NEW n \in 0..Len(s)
  PROVE  LET t == SubSeq(s, n + 1, Len(s)) \o <<>>
         IN  /\ SubSeq(s, n + 1, Len(s)) \in Seq(Results)
             /\ \A j \in DOMAIN t : /\ t[j] = s[n + j] /\ n + j \in DOMAIN s
                                    /\ j \in Nat /\ n + j \notin 1..n
  <1> DEFINE u == SubSeq(s, n + 1, Len(s))
  <1>1. Len(s) \in Nat /\ n \in Nat /\ n <= Len(s)
    OBVIOUS
  <1>2. \A j \in (n + 1)..Len(s) : s[j] \in Results
    BY <1>1
  <1>3. u \in Seq(Results) /\ Len(u) = Len(s) - n
    BY <1>1, <1>2
  <1>4. \A j \in 1..Len(s) - n : u[j] = s[n + j]
    BY <1>1, <1>2
  <1>5. DOMAIN (u \o <<>>) = 1..Len(s) - n /\ \A j \in 1..Len(s) - n : (u \o <<>>)[j] = u[j]
    <2> HIDE DEF u
    <2> QED BY <1>1, <1>3
  <1> HIDE DEF u
  <1>6. \A j \in 1..Len(s) - n : n + j \in DOMAIN s /\ j \in Nat /\ n + j \notin 1..n
    BY <1>1
  <1> QED BY <1>3, <1>4, <1>5, <1>6 DEF u

--------------------------------------------------------------------------------
(* The steps of the workers and of the command handler *)

LEMMA ConstantFacts ==
  /\ WorkerCount \in Nat /\ MaxRequests \in Nat /\ MaxPublications \in Nat /\ MaxCompleted \in Nat
  /\ MaxSubmissions \in Nat /\ MaxSpeculative \in Nat /\ Reserved \in Nat /\ MaxEvictions \in Nat
  /\ Target \in Nat /\ IsFiniteSet(Chunks)
  BY ChunksAssumption, SchedulerConfigValid, PolicyValid

LEMMA InvFacts ==
  ASSUME StreamingInv
  PROVE  /\ Typed /\ Cardinality(Active) <= MaxRequests /\ Answers /\ Tracking /\ Wanted
         /\ NeverMismatched
  BY DEF StreamingInv

LEMMA ActiveFacts ==
  ASSUME Typed
  PROVE  /\ \A c \in Active : requests[c].atWork \in BOOLEAN /\ requests[c].cancelled \in BOOLEAN
         /\ \A c \in AtWork : c \in Active
         /\ Collected \in Seq(Results) /\ \A k \in DOMAIN Collected : Collected[k] \in Results
  BY Concatenated DEF Typed, Flags, AtWork, Collected

LEMMA InitStreaming == Init => StreamingInv
  <1> SUFFICES ASSUME Init PROVE StreamingInv
    OBVIOUS
  <1> USE DEF Init, SchedulerInit
  <1>1. Active = {} /\ DOMAIN pending = {} /\ DOMAIN speculative = {} /\ <<>> \in Seq(Results)
        /\ Len(mailbox) = 0
    BY DEF Active
  <1>2. Collected = <<>>
    BY DEF Collected
  <1>3. requests \in [Active -> Flags] /\ pending \in [DOMAIN pending -> {"required", "speculative"}]
        /\ speculative \in [DOMAIN speculative -> Speculation]
    BY <1>1 DEF Active
  <1>4. Typed
    BY <1>1, <1>3, ConstantFacts DEF Typed, Failures
  <1>5. Cardinality(Active) <= MaxRequests
    BY <1>1, FS_EmptySet, ConstantFacts
  <1>6. Answers
    BY <1>2 DEF Answers
  <1> QED BY <1>1, <1>4, <1>5, <1>6 DEF StreamingInv, Tracking, Wanted, NeverMismatched

LEMMA DeliverStep ==
  ASSUME StreamingInv, NEW c \in Chunks, Deliver(c), UNCHANGED controllerVars
  PROVE  StreamingInv'
  <1>1. Typed /\ Cardinality(Active) <= MaxRequests /\ Answers /\ Tracking /\ Wanted /\ NeverMismatched
    BY InvFacts
  <1>2. PICK x \in Results :
          /\ x.chunk = c
          /\ mailbox' = IF Len(mailbox) < MaxCompleted THEN Append(mailbox, x) ELSE mailbox
    BY DEF Deliver, Results
  <1>3. /\ c \in AtWork /\ retiring < WorkerCount /\ retiring' = retiring + 1
        /\ requests' = [requests EXCEPT ![c].atWork = FALSE]
        /\ UNCHANGED <<ready, generic, resident>>
        /\ UNCHANGED <<phase, failure, pending, speculative, required, edited, interest>>
    BY DEF Deliver, controllerVars
  <1>4. /\ Active' = Active /\ requests' \in [Active -> Flags]
        /\ ~requests'[c].atWork /\ requests'[c].cancelled = requests[c].cancelled
        /\ \A k \in Active : k # c => requests'[k] = requests[k]
    <2>1. c \in Active /\ requests \in [Active -> Flags] /\ DOMAIN requests = Active
      BY <1>1, <1>3, ActiveFacts DEF Typed, Active
    <2>2. requests[c] \in Flags
      BY <2>1
    <2>3. [requests[c] EXCEPT !.atWork = FALSE] \in Flags
      BY <2>2 DEF Flags
    <2>4. requests' = [requests EXCEPT ![c] = [requests[c] EXCEPT !.atWork = FALSE]]
      BY <1>3, <2>1
    <2> QED BY <2>1, <2>2, <2>3, <2>4 DEF Active, Flags
  <1>5. AtWork' = AtWork \ {c}
    BY <1>3, <1>4 DEF AtWork
  <1>6. mailbox \in Seq(Results) /\ ready \in Seq(Results) /\ Len(mailbox) \in Nat
    BY <1>1 DEF Typed
  <1>7. mailbox' \in Seq(Results) /\ Len(mailbox') <= MaxCompleted
    BY <1>1, <1>2, <1>6, ConstantFacts DEF Typed
  <1>8. retiring' \in 0..WorkerCount
    BY <1>1, <1>3, ConstantFacts DEF Typed
  <1>9. Typed'
    BY <1>1, <1>3, <1>4, <1>7, <1>8 DEF Typed
  <1>10. Answers'
    <2>1. CASE mailbox' = mailbox
      BY <1>1, <1>3, <1>4, <1>5, <2>1 DEF Answers, Collected
    <2>2. CASE mailbox' = Append(mailbox, x)
      <3>a. Collected' = ready \o Append(mailbox, x) /\ Collected = ready \o mailbox
        BY <1>3, <2>2 DEF Collected
      <3>b. /\ DOMAIN (ready \o Append(mailbox, x))
                 = DOMAIN (ready \o mailbox) \cup {Len(ready \o mailbox) + 1}
            /\ (ready \o Append(mailbox, x))[Len(ready \o mailbox) + 1] = x
            /\ \A k \in DOMAIN (ready \o mailbox) :
                 (ready \o Append(mailbox, x))[k] = (ready \o mailbox)[k]
            /\ Len(ready \o mailbox) + 1 \notin DOMAIN (ready \o mailbox)
        BY <1>6, ConcatenatedAppend
      <3>1. /\ DOMAIN Collected' = DOMAIN Collected \cup {Len(Collected) + 1}
            /\ Collected'[Len(Collected) + 1] = x
            /\ \A k \in DOMAIN Collected : Collected'[k] = Collected[k]
            /\ Len(Collected) + 1 \notin DOMAIN Collected
        BY <3>a, <3>b, Zenon
      <3> DEFINE last == Len(Collected) + 1
      <3>2. \A k \in DOMAIN Collected : Collected[k].chunk \in Active \ AtWork /\ Collected[k].chunk # c
        BY <1>1, <1>3 DEF Answers
      <3>3. c \in Active' \ AtWork'
        BY <1>1, <1>3, <1>4, <1>5, ActiveFacts
      <3> HIDE DEF last
      <3>4. \A j \in DOMAIN Collected' : Collected'[j].chunk \in Active' \ AtWork'
        BY <1>2, <1>4, <1>5, <3>1, <3>2, <3>3 DEF last
      <3>5. \A j, k \in DOMAIN Collected' : Collected'[j].chunk = Collected'[k].chunk => j = k
        BY <1>1, <1>2, <3>1, <3>2 DEF Answers, last
      <3> QED BY <3>4, <3>5 DEF Answers
    <2> QED BY <1>2, <2>1, <2>2
  <1>11. Tracking' /\ Wanted' /\ NeverMismatched'
    BY <1>1, <1>3, <1>4 DEF Tracking, Wanted, NeverMismatched
  <1> QED BY <1>1, <1>4, <1>9, <1>10, <1>11 DEF StreamingInv

\* Steps that touch neither the requests nor their results.
LEMMA QuietStep ==
  ASSUME StreamingInv, UNCHANGED <<requests, mailbox, ready, resident, phase, failure, pending,
                                   speculative, required, interest>>,
         retiring' \in 0..WorkerCount, generic' \in 0..MaxCompleted
  PROVE  StreamingInv'
  <1>1. Typed /\ Cardinality(Active) <= MaxRequests /\ Answers /\ Tracking /\ Wanted /\ NeverMismatched
    BY InvFacts
  <1>2. Active' = Active /\ AtWork' = AtWork /\ Collected' = Collected
    BY DEF Active, AtWork, Collected
  <1> QED BY <1>1, <1>2 DEF StreamingInv, Typed, Answers, Tracking, Wanted, NeverMismatched

LEMMA StopStep ==
  ASSUME StreamingInv, Stop
  PROVE  StreamingInv'
  <1>1. Typed /\ Answers /\ Tracking /\ Wanted /\ NeverMismatched
    BY InvFacts
  <1>2. /\ requests' = <<>> /\ mailbox' = <<>> /\ ready' = <<>> /\ retiring' = 0 /\ generic' = 0
        /\ phase' = "stopped"
        /\ UNCHANGED <<resident, failure, pending, speculative, required, edited, interest>>
    BY DEF Stop, ShutdownScheduler
  <1>3. /\ Active' = {} /\ <<>> \in Seq(Results) /\ Len(mailbox') = 0 /\ Collected' = <<>>
        /\ requests' \in [Active' -> Flags]
    BY <1>2 DEF Active, Collected
  <1>4. Typed'
    BY <1>1, <1>2, <1>3, ConstantFacts DEF Typed
  <1>5. Cardinality(Active') <= MaxRequests
    BY <1>3, FS_EmptySet, ConstantFacts
  <1>6. Answers'
    BY <1>3 DEF Answers
  <1>7. Tracking' /\ Wanted' /\ NeverMismatched'
    BY <1>1, <1>2, <1>3 DEF Tracking, Wanted, NeverMismatched
  <1> QED BY <1>4, <1>5, <1>6, <1>7 DEF StreamingInv

--------------------------------------------------------------------------------
(* The publication half of update *)

\* The results an update processes are there, and belong to active requests.
LEMMA ProcessedFacts ==
  ASSUME Typed, Answers, NEW n \in Processable
  PROVE  /\ n \in 0..Len(Collected)
         /\ \A k \in 1..n : k \in DOMAIN Collected /\ Collected[k] \in Results
         /\ Processed(n) \subseteq Active \ AtWork
  <1>1. Collected \in Seq(Results) /\ \A k \in DOMAIN Collected : Collected[k] \in Results
    BY ActiveFacts
  <1>2. Len(Collected) \in Nat /\ DOMAIN Collected = 1..Len(Collected)
    BY <1>1
  <1>3. n \in 0..Len(Collected)
    <2> HIDE DEF Collected
    <2>1. CASE n = 0
      BY <1>2, <2>1
    <2>2. CASE n \in 1..Smaller(MaxPublications, Len(Collected))
      BY <1>2, <2>2, ConstantFacts DEF Smaller
    <2> QED BY <2>1, <2>2 DEF Processable
  <1>4. \A k \in 1..n : k \in DOMAIN Collected
    <2> HIDE DEF Collected
    <2> QED BY <1>2, <1>3
  <1> HIDE DEF Collected
  <1>5. \A c \in Processed(n) : \E k \in 1..n : c = Collected[k].chunk
    BY DEF Processed
  <1> QED BY <1>1, <1>3, <1>4, <1>5 DEF Answers

\* A published chunk was wanted and is new; no result is stale.
LEMMA VerdictFacts ==
  ASSUME Typed, Answers, Wanted, NEW n \in Processable
  PROVE  /\ \A c \in With("published", n) : c \in Processed(n) /\ c \notin resident /\ c \in interest
         /\ With("stale", n) = {}
  <1>1. /\ \A k \in 1..n : k \in DOMAIN Collected /\ Collected[k] \in Results
        /\ Processed(n) \subseteq Active
    BY ProcessedFacts
  <1> HIDE DEF Collected
  <1>2. \A k \in 1..n : Collected[k].chunk \in Processed(n)
    BY DEF Processed
  <1>3. \A k \in 1..n : Collected[k].state \in {"succeeded", "failed", "cancelled"}
    BY <1>1 DEF Results
  <1>4. \A k \in 1..n : Verdict(Collected[k]) = "published"
                          => ~requests[Collected[k].chunk].cancelled /\ Collected[k].chunk \notin resident
    BY <1>3 DEF Verdict, VerdictUnchecked
  <1>5. \A k \in 1..n : Verdict(Collected[k]) = "stale" => Collected[k].chunk \in resident
    BY <1>3 DEF Verdict, VerdictUnchecked
  <1>6. \A verdict, c : c \in With(verdict, n)
                          => \E k \in 1..n : c = Collected[k].chunk /\ Verdict(Collected[k]) = verdict
    BY DEF With
  <1>7. With("stale", n) = {}
    BY <1>1, <1>2, <1>5, <1>6 DEF Wanted
  <1>8. ASSUME NEW c \in With("published", n)
        PROVE  c \in Processed(n) /\ c \notin resident /\ c \in interest
    <2>1. PICK k \in 1..n : c = Collected[k].chunk /\ Verdict(Collected[k]) = "published"
      BY <1>6
    <2> QED BY <1>1, <1>2, <1>4, <2>1 DEF Wanted
  <1> QED BY <1>7, <1>8

\* Neither an untracked result, nor a chunk published twice, nor a stale result.
LEMMA PublicationMatches ==
  ASSUME StreamingInv, phase # "stopped", NEW n \in Processable
  PROVE  PublicationFailure(n) \in {"none", "load_failed"}
  <1>1. Typed /\ Answers /\ Tracking /\ Wanted
    BY InvFacts
  <1>2. Processed(n) \subseteq DOMAIN pending
    BY <1>1, ProcessedFacts DEF Tracking
  <1>3. \A c \in With("published", n) \cap DOMAIN speculative : speculative[c].state # "published"
    BY <1>1, ProcessedFacts, VerdictFacts DEF Tracking
  <1>4. With("stale", n) = {}
    BY <1>1, VerdictFacts
  <1> QED BY <1>2, <1>3, <1>4 DEF PublicationFailure

\* The records after the publications.
LEMMA NotedFacts ==
  ASSUME Typed, NEW n
  PROVE  /\ DOMAIN Noted(n) \subseteq DOMAIN speculative
         /\ Noted(n) \in [DOMAIN Noted(n) -> Speculation]
         /\ \A c \in DOMAIN Noted(n) :
              IF c \in Processed(n)
              THEN Noted(n)[c].state = "published"
              ELSE Noted(n)[c] = speculative[c]
  <1> DEFINE D == DOMAIN speculative \ (Processed(n) \ With("published", n))
             r(c) == IF c \in Processed(n) THEN [speculative[c] EXCEPT !.state = "published"]
                     ELSE speculative[c]
  <1>1. \A c \in D : speculative[c] \in Speculation
    BY DEF Typed
  <1>2. \A c \in D : /\ r(c) \in Speculation
                     /\ c \in Processed(n) => r(c).state = "published"
                     /\ c \notin Processed(n) => r(c) = speculative[c]
    BY <1>1 DEF Speculation
  <1>3. Noted(n) = [c \in D |-> r(c)]
    BY DEF Noted
  <1> HIDE DEF D, r
  <1>4. DOMAIN Noted(n) = D /\ \A c \in D : Noted(n)[c] = r(c)
    BY <1>3
  <1>5. Noted(n) \in [D -> Speculation]
    BY <1>2, <1>3
  <1>6. D \subseteq DOMAIN speculative
    BY DEF D
  <1> QED BY <1>2, <1>4, <1>5, <1>6

LEMMA PublishStep ==
  ASSUME StreamingInv, Publish
  PROVE  StreamingInv'
  <1>1. Typed /\ Cardinality(Active) <= MaxRequests /\ Answers /\ Tracking /\ Wanted
    BY InvFacts
  <1>2. PICK n \in Processable :
          /\ PublishResults(n)
          /\ speculative' = Noted(n)
          /\ pending' = Restrict(pending, DOMAIN pending \ Processed(n))
          /\ failure' = PublicationFailure(n)
    BY DEF Publish
  <1>3. /\ phase # "stopped" /\ phase' = "plan" /\ UNCHANGED <<required, edited, interest, retiring>>
        /\ requests' = Restrict(requests, Active \ Processed(n))
        /\ resident' = resident \cup With("published", n)
        /\ ready' = SubSeq(Collected, n + 1, Len(Collected)) /\ mailbox' = <<>> /\ generic' = 0
    BY <1>2 DEF Publish, PublishResults, Running
  <1>4. /\ n \in 0..Len(Collected) /\ Processed(n) \subseteq Active \ AtWork
        /\ Collected \in Seq(Results)
    BY <1>1, ProcessedFacts, ActiveFacts
  <1>5. /\ Active' = Active \ Processed(n)
        /\ \A c \in Active' : requests'[c] = requests[c]
        /\ requests' \in [Active' -> Flags]
    <2>1. requests' = [c \in Active \ Processed(n) |-> requests[c]]
      BY <1>3 DEF Restrict
    <2>2. \A c \in Active : requests[c] \in Flags
      BY <1>1 DEF Typed
    <2>3. Active' = Active \ Processed(n)
      BY <2>1 DEF Active
    <2> QED BY <2>1, <2>2, <2>3
  <1>6. AtWork' = AtWork
    BY <1>4, <1>5 DEF AtWork
  <1>7. /\ ready' \in Seq(Results)
        /\ \A j \in DOMAIN Collected' : /\ Collected'[j] = Collected[n + j] /\ n + j \in DOMAIN Collected
                                        /\ j \in Nat /\ n + j \notin 1..n
    <2>1. Collected' = SubSeq(Collected, n + 1, Len(Collected)) \o <<>>
      BY <1>3 DEF Collected
    <2> HIDE DEF Collected
    <2>2. LET t == SubSeq(Collected, n + 1, Len(Collected)) \o <<>>
          IN  /\ SubSeq(Collected, n + 1, Len(Collected)) \in Seq(Results)
              /\ \A j \in DOMAIN t : /\ t[j] = Collected[n + j] /\ n + j \in DOMAIN Collected
                                     /\ j \in Nat /\ n + j \notin 1..n
      BY <1>4, Remaining
    <2> QED BY <1>3, <2>1, <2>2, Zenon
  <1> HIDE DEF Collected
  <1>8. Answers'
    <2>1. ASSUME NEW j \in DOMAIN Collected' PROVE Collected'[j].chunk \in Active' \ AtWork'
      <3>1. \A i \in 1..n : i \in DOMAIN Collected
        BY <1>1, ProcessedFacts
      <3>2. \A i \in 1..n : Collected[i].chunk = Collected[n + j].chunk => FALSE
        BY <1>1, <1>7, <3>1 DEF Answers
      <3>3. Collected[n + j].chunk \notin Processed(n)
        BY <3>2 DEF Processed
      <3>4. Collected[n + j].chunk \in Active \ AtWork
        BY <1>1, <1>7 DEF Answers
      <3> QED BY <1>5, <1>6, <1>7, <3>3, <3>4
    <2>2. ASSUME NEW j \in DOMAIN Collected', NEW k \in DOMAIN Collected',
                 Collected'[j].chunk = Collected'[k].chunk
          PROVE  j = k
      <3>1. n + j = n + k
        BY <1>1, <1>7, <2>2 DEF Answers
      <3>2. n \in Int /\ j \in Int /\ k \in Int
        BY <1>4, <1>7
      <3> QED BY <3>1, <3>2
    <2> QED BY <2>1, <2>2 DEF Answers
  <1>9. Cardinality(Active') <= MaxRequests
    <2>1. IsFiniteSet(Active) /\ Active' \subseteq Active
      BY <1>1, <1>5, ConstantFacts, FS_Subset DEF Typed
    <2>2. Cardinality(Active') <= Cardinality(Active) /\ IsFiniteSet(Active')
      BY <2>1, FS_Subset
    <2>3. Cardinality(Active) \in Nat /\ Cardinality(Active') \in Nat
      BY <2>1, <2>2, FS_CardinalityType
    <2> QED BY <1>1, <2>2, <2>3, ConstantFacts
  <1>10. /\ pending' \in [DOMAIN pending' -> {"required", "speculative"}]
         /\ DOMAIN pending' = DOMAIN pending \ Processed(n)
         /\ \A c \in DOMAIN pending' : pending'[c] = pending[c]
    <2>1. pending' = [c \in DOMAIN pending \ Processed(n) |-> pending[c]]
      BY <1>2 DEF Restrict
    <2> QED BY <1>1, <2>1 DEF Typed
  <1>11. /\ DOMAIN speculative' \subseteq DOMAIN speculative
         /\ speculative' \in [DOMAIN speculative' -> Speculation]
         /\ \A c \in DOMAIN speculative' :
              /\ c \in Processed(n) => speculative'[c].state = "published"
              /\ c \notin Processed(n) => speculative'[c] = speculative[c]
    BY <1>1, <1>2, NotedFacts
  <1>12. failure' \in {"none", "load_failed"}
    BY <1>2, <1>3, PublicationMatches
  <1>13. \A c \in With("published", n) : c \in Processed(n) /\ c \notin resident /\ c \in interest
    BY <1>1, VerdictFacts
  <1>14. Typed'
    <2>1. Active' \subseteq Chunks /\ resident' \subseteq Chunks
      BY <1>1, <1>3, <1>4, <1>5, <1>13 DEF Typed
    <2>2. mailbox' \in Seq(Results) /\ Len(mailbox') <= MaxCompleted /\ generic' \in 0..MaxCompleted
      <3>1. <<>> \in Seq(Results) /\ Len(<<>>) = 0
        OBVIOUS
      <3> QED BY <1>3, <3>1, ConstantFacts
    <2>3. retiring' \in 0..WorkerCount /\ failure' \in Failures
      BY <1>1, <1>3, <1>12 DEF Typed, Failures
    <2> QED BY <1>1, <1>3, <1>5, <1>7, <1>10, <1>11, <2>1, <2>2, <2>3 DEF Typed
  <1>15. Tracking'
    <2>1. DOMAIN pending' = Active'
      BY <1>1, <1>3, <1>5, <1>10 DEF Tracking
    <2>2. required' \cap DOMAIN speculative' = {}
      BY <1>1, <1>3, <1>11 DEF Tracking
    <2>3. ASSUME NEW c \in DOMAIN speculative'
          PROVE  /\ speculative'[c].state = "submitted" => c \in DOMAIN pending' /\ pending'[c] = "speculative"
                 /\ speculative'[c].state = "cancellation_requested" => speculative'[c].invalidated
                 /\ speculative'[c].state = "published" => c \notin Active'
      BY <1>1, <1>5, <1>10, <1>11 DEF Tracking
    <2> QED BY <2>1, <2>2, <2>3 DEF Tracking
  <1>16. Wanted'
    BY <1>1, <1>3, <1>5, <1>13 DEF Wanted
  <1> QED BY <1>8, <1>9, <1>12, <1>14, <1>15, <1>16 DEF StreamingInv, NeverMismatched

--------------------------------------------------------------------------------
(* The planning half of update *)

\* What the planner keeps tracking is not required, and a record only turns
\* invalid; a cancellation names a speculative request of the controller.
LEMMA TrackedFacts ==
  ASSUME Typed, Tracking, NEW v \in Views, NEW expired
  PROVE  /\ DOMAIN Tracked(v, expired) \subseteq DOMAIN speculative \ v.required
         /\ Tracked(v, expired) \in [DOMAIN Tracked(v, expired) -> Speculation]
         /\ \A c \in DOMAIN Tracked(v, expired) :
              /\ Tracked(v, expired)[c].state = "submitted" => speculative[c].state = "submitted"
              /\ Tracked(v, expired)[c].state = "published" => speculative[c].state = "published"
              /\ Tracked(v, expired)[c].state = "cancellation_requested"
                   => Tracked(v, expired)[c].invalidated
         /\ \A c \in Cancellations(v, expired) : c \in DOMAIN pending /\ pending[c] = "speculative"
  <1> DEFINE D == DOMAIN speculative \ (v.required \ required)
             T == D \ Forgotten(v)
             r(c) == IF c \in NewlyInvalid(v, expired) THEN Invalidate(speculative[c]) ELSE speculative[c]
  <1>1. DOMAIN Undemanded(v) = D /\ \A c \in D : Undemanded(v)[c] = speculative[c]
    BY DEF Undemanded, Restrict
  <1>2. D \subseteq DOMAIN speculative \ v.required
    BY DEF Tracking
  <1>3. \A c \in D : /\ speculative[c] \in Speculation
                     /\ speculative[c].state = "cancellation_requested" => speculative[c].invalidated
                     /\ speculative[c].state = "submitted"
                          => c \in DOMAIN pending /\ pending[c] = "speculative"
    BY <1>2 DEF Typed, Tracking
  <1>4. \A c \in NewlyInvalid(v, expired) : c \in D /\ ~speculative[c].invalidated
    BY <1>1 DEF NewlyInvalid
  <1>5. \A c \in D : /\ r(c) \in Speculation
                     /\ r(c).state = "submitted" => speculative[c].state = "submitted"
                     /\ r(c).state = "published" => speculative[c].state = "published"
                     /\ r(c).state = "cancellation_requested" => r(c).invalidated
    BY <1>3 DEF Invalidate, Speculation
  <1>6. Tracked(v, expired) = [c \in T |-> r(c)]
    <2>1. \A c \in T : (IF c \in NewlyInvalid(v, expired) THEN Invalidate(Undemanded(v)[c])
                        ELSE Undemanded(v)[c]) = r(c)
      BY <1>1
    <2>2. Tracked(v, expired)
            = [c \in T |-> IF c \in NewlyInvalid(v, expired) THEN Invalidate(Undemanded(v)[c])
                           ELSE Undemanded(v)[c]]
      BY <1>1 DEF Tracked
    <2> HIDE DEF T, r
    <2> QED BY <2>1, <2>2
  <1>7. \A c \in Cancellations(v, expired) : c \in DOMAIN pending /\ pending[c] = "speculative"
    BY <1>1, <1>3, <1>4 DEF Cancellations, Speculation
  <1>8. T \subseteq D
    OBVIOUS
  <1> HIDE DEF D, T, r
  <1>9. /\ DOMAIN Tracked(v, expired) = T /\ \A c \in T : Tracked(v, expired)[c] = r(c)
        /\ Tracked(v, expired) \in [T -> Speculation]
    BY <1>5, <1>6, <1>8
  <1> QED BY <1>2, <1>5, <1>7, <1>8, <1>9

\* The accepted loads fit in the scheduler, whatever the pool accepts of them.
LEMMA AcceptedFit ==
  ASSUME NEW w \in Nat, NEW slots \in Nat, NEW offered \in Int, NEW reserved \in Nat, NEW room \in Int,
         NEW first, first = Smaller(w, slots),
         NEW second,
         second = IF first < w THEN 0 ELSE Smaller(offered, Excess(slots - first, reserved)),
         NEW accepted, accepted = 0 \/ accepted = Smaller(first + second, room)
  PROVE  Smaller(first, accepted) + Excess(accepted, first) <= slots
  <1>1. first \in Nat /\ first <= slots
    BY DEF Smaller
  <1>2. second \in Int /\ first + second <= slots
    <2>1. Excess(slots - first, reserved) \in Nat /\ first + Excess(slots - first, reserved) <= slots
      BY <1>1 DEF Excess
    <2> QED BY <1>1, <2>1 DEF Smaller
  <1>3. accepted \in Int /\ accepted <= slots
    BY <1>1, <1>2 DEF Smaller
  <1> QED BY <1>1, <1>3 DEF Smaller, Excess

\* What a plan submits: required chunks that are missing, then predicted ones,
\* none of which the controller or the scheduler has, and no more than fit.
LEMMA SubmissionFacts ==
  ASSUME StreamingInv, phase # "stopped", NEW v \in Views, NEW expired, NEW mismatch,
         Submit(v, expired, mismatch)
  PROVE  \E s \in SUBSET (v.required \ (resident \cup DOMAIN pending)),
            p \in SUBSET Candidates(v, expired) :
           /\ CancelAndSubmit(Cancelled(v, expired), s \cup p)
           /\ pending' = Requested(s, p)
           /\ speculative' = Speculated(Tracked(v, expired), p)
           /\ Cardinality(Active \cup s \cup p) <= MaxRequests
           /\ failure' \in {mismatch, "pool_full", "none"} /\ (mismatch # "none" => failure' = mismatch)
  <1> DEFINE wanted == v.required \ (resident \cup DOMAIN pending)
             first == Smaller(Cardinality(wanted), AvailableSlots)
             second == IF first < Cardinality(wanted) THEN 0
                       ELSE Smaller(Offered(v, expired), Excess(AvailableSlots - first, Reserved))
             accepted == IF mismatch # "none" THEN 0 ELSE Smaller(first + second, PoolRoom)
  <1>1. Typed /\ Cardinality(Active) <= MaxRequests /\ Tracking
    BY InvFacts
  <1>2. PICK s \in Subsets(wanted, Smaller(first, accepted)),
             p \in Subsets(Candidates(v, expired), Excess(accepted, first)) :
          /\ CancelAndSubmit(Cancelled(v, expired), s \cup p)
          /\ pending' = Requested(s, p)
          /\ speculative' = Speculated(Tracked(v, expired), p)
          /\ failure' = IF mismatch # "none" THEN mismatch
                        ELSE IF accepted < first + second THEN "pool_full" ELSE "none"
    BY DEF Submit
  <1>3. /\ v.required \subseteq Chunks /\ v.predicted \subseteq Chunks
        /\ Candidates(v, expired) \subseteq v.predicted
    BY ViewsAssumption DEF Candidates, Predicted
  <1>4. /\ IsFiniteSet(wanted) /\ IsFiniteSet(Candidates(v, expired)) /\ IsFiniteSet(Active)
        /\ IsFiniteSet(AtWork) /\ IsFiniteSet(DOMAIN Tracked(v, expired))
    <2>1. \A S \in SUBSET Chunks : IsFiniteSet(S)
      BY ConstantFacts, FS_Subset
    <2>2. DOMAIN Tracked(v, expired) \subseteq Chunks
      BY <1>1, TrackedFacts DEF Typed
    <2>3. AtWork \subseteq Chunks /\ Active \subseteq Chunks
      BY <1>1, ActiveFacts DEF Typed
    <2> QED BY <1>3, <2>1, <2>2, <2>3
  <1>5. /\ Cardinality(wanted) \in Nat /\ Cardinality(Candidates(v, expired)) \in Nat
        /\ Cardinality(Active) \in Nat /\ Cardinality(AtWork) \in Nat
        /\ Cardinality(DOMAIN Tracked(v, expired)) \in Nat
    BY <1>4, FS_CardinalityType
  <1>6. AvailableSlots \in Nat /\ AvailableSlots = MaxRequests - Cardinality(Active)
    BY <1>1, <1>5, ConstantFacts DEF AvailableSlots
  <1>7. Offered(v, expired) \in Int
    BY <1>5, ConstantFacts DEF Offered, Smaller, Excess
  <1>8. PoolRoom \in Int
    <2>1. retiring \in Int
      BY <1>1 DEF Typed
    <2> HIDE DEF wanted, first, second, accepted
    <2>2. MaxRequests - Cardinality(AtWork) - retiring \in Int
      BY <1>5, <2>1, ConstantFacts
    <2> QED BY <2>2 DEF PoolRoom
  <1>9. accepted = 0 \/ accepted = Smaller(first + second, PoolRoom)
    OBVIOUS
  <1>10. /\ s \in SUBSET wanted /\ Cardinality(s) = Smaller(first, accepted)
         /\ p \in SUBSET Candidates(v, expired) /\ Cardinality(p) = Excess(accepted, first)
    <2> HIDE DEF wanted, first, accepted
    <2> QED BY <1>2 DEF Subsets
  <1>11. Cardinality(s) + Cardinality(p) <= AvailableSlots
    <2>1. Smaller(first, accepted) + Excess(accepted, first) <= AvailableSlots
      <3> DEFINE w == Cardinality(wanted)
      <3>1. /\ w \in Nat /\ first = Smaller(w, AvailableSlots)
            /\ second = IF first < w THEN 0
                        ELSE Smaller(Offered(v, expired), Excess(AvailableSlots - first, Reserved))
        BY <1>5
      <3> HIDE DEF w, first, second, accepted
      <3> QED BY <1>6, <1>7, <1>8, <1>9, <3>1, ConstantFacts, AcceptedFit
    <2> HIDE DEF first, accepted
    <2> QED BY <1>10, <2>1
  <1>12. Cardinality(Active \cup s \cup p) <= MaxRequests
    <2> HIDE DEF wanted, first, second, accepted
    <2>1. IsFiniteSet(s) /\ IsFiniteSet(p)
      BY <1>4, <1>10, FS_Subset
    <2>2. /\ IsFiniteSet(s \cup p)
          /\ Cardinality(s \cup p) = Cardinality(s) + Cardinality(p) - Cardinality(s \cap p)
      BY <2>1, FS_Union
    <2>3. Cardinality(Active \cup (s \cup p))
            = Cardinality(Active) + Cardinality(s \cup p) - Cardinality(Active \cap (s \cup p))
      BY <1>4, <2>2, FS_Union
    <2>4. /\ Cardinality(s) \in Nat /\ Cardinality(p) \in Nat /\ Cardinality(s \cap p) \in Nat
          /\ Cardinality(Active \cap (s \cup p)) \in Nat /\ Cardinality(s \cup p) \in Nat
      <3>1. IsFiniteSet(s \cap p) /\ IsFiniteSet(Active \cap (s \cup p))
        BY <1>4, <2>1, FS_Subset
      <3> QED BY <2>1, <2>2, <3>1, FS_CardinalityType
    <2>5. Active \cup (s \cup p) = Active \cup s \cup p
      OBVIOUS
    <2> DEFINE a == Cardinality(Active)
               x == Cardinality(s)
               y == Cardinality(p)
               z == Cardinality(s \cap p)
               u == Cardinality(Active \cap (s \cup p))
               all == Cardinality(Active \cup (s \cup p))
    <2>6. x + y <= MaxRequests - a /\ all = a + (x + y - z) - u
      BY <1>6, <1>11, <2>2, <2>3
    <2>7. a \in Nat /\ x \in Nat /\ y \in Nat /\ z \in Nat /\ u \in Nat
      BY <1>5, <2>4
    <2>8. all <= MaxRequests
      <3> HIDE DEF a, x, y, z, u, all
      <3> QED BY <2>6, <2>7, ConstantFacts
    <2> QED BY <2>5, <2>8
  <1>13. failure' \in {mismatch, "pool_full", "none"} /\ (mismatch # "none" => failure' = mismatch)
    <2> HIDE DEF first, second, accepted
    <2> QED BY <1>2
  <1> QED BY <1>2, <1>10, <1>12, <1>13

\* The policy cancels only what is a speculative request and evicts nothing dirty.
LEMMA PlanMatches ==
  ASSUME Typed, Tracking, NEW v \in Views, NEW expired, NEW kept, NEW evicted \in Evictions(v, expired, kept)
  PROVE  Mismatch(v, expired, evicted) = "none"
  <1>1. evicted \subseteq Evictable(v)
    BY DEF Evictions
  <1>2. evicted \cap edited = {}
    BY <1>1 DEF Evictable
  <1>3. \A c \in Cancellations(v, expired) : c \in DOMAIN pending /\ pending[c] = "speculative"
    BY TrackedFacts
  <1> QED BY <1>2, <1>3 DEF Mismatch

LEMMA PlanStep ==
  ASSUME StreamingInv, Plan
  PROVE  StreamingInv'
  <1>1. Typed /\ Answers /\ Tracking /\ Wanted
    BY InvFacts
  <1>2. PICK v \in Views, expired \in SUBSET DOMAIN speculative, kept \in SUBSET resident :
          \E evicted \in Evictions(v, expired, kept) :
            /\ required' = v.required
            /\ interest' = v.required \cup v.predicted
            /\ resident' = resident \ (evicted \ edited)
            /\ Submit(v, expired, Mismatch(v, expired, evicted))
    BY DEF Plan
  <1>3. /\ phase # "stopped" /\ phase' = "publish"
        /\ UNCHANGED <<mailbox, ready, retiring, generic, edited>>
    BY DEF Plan, Running
  <1>4. /\ required' = v.required /\ interest' = v.required \cup v.predicted
        /\ resident' \subseteq resident /\ Submit(v, expired, "none")
    BY <1>1, <1>2, PlanMatches
  <1>5. PICK s \in SUBSET (v.required \ (resident \cup DOMAIN pending)),
             p \in SUBSET Candidates(v, expired) :
          /\ CancelAndSubmit(Cancelled(v, expired), s \cup p)
          /\ pending' = Requested(s, p)
          /\ speculative' = Speculated(Tracked(v, expired), p)
          /\ Cardinality(Active \cup s \cup p) <= MaxRequests
          /\ failure' \in {"none", "pool_full"}
    BY <1>3, <1>4, SubmissionFacts
  <1>6. /\ s \subseteq v.required /\ s \cap resident = {} /\ s \cap DOMAIN pending = {}
        /\ p \subseteq v.predicted /\ p \cap v.required = {} /\ p \cap resident = {}
        /\ p \cap DOMAIN pending = {} /\ p \cap DOMAIN Tracked(v, expired) = {}
        /\ v.required \subseteq Chunks /\ v.predicted \subseteq Chunks
    BY ViewsAssumption DEF Candidates, Predicted
  <1>7. DOMAIN pending = Active
    BY <1>1, <1>3 DEF Tracking
  <1> DEFINE T == Tracked(v, expired)
             C == Cancelled(v, expired)
  <1>8. /\ DOMAIN T \subseteq DOMAIN speculative \ v.required
        /\ T \in [DOMAIN T -> Speculation]
        /\ \A c \in DOMAIN T : /\ T[c].state = "submitted" => speculative[c].state = "submitted"
                               /\ T[c].state = "published" => speculative[c].state = "published"
                               /\ T[c].state = "cancellation_requested" => T[c].invalidated
    BY <1>1, TrackedFacts
  <1> HIDE DEF T
  <1>9. /\ Active' = Active \cup s \cup p
        /\ requests' \in [Active' -> Flags]
        /\ \A c \in Active : /\ requests'[c].atWork = requests[c].atWork
                             /\ requests'[c].cancelled = (requests[c].cancelled \/ c \in C)
    <2> DEFINE q(c) == IF c \in Active THEN [requests[c] EXCEPT !.cancelled = @ \/ c \in C]
                       ELSE [atWork |-> TRUE, cancelled |-> FALSE]
    <2>1. requests' = [c \in Active \cup s \cup p |-> q(c)]
      BY <1>5 DEF CancelAndSubmit
    <2>2. \A c \in Active : requests[c] \in Flags
      BY <1>1 DEF Typed
    <2>3. \A c \in Active : /\ q(c) \in Flags /\ q(c).atWork = requests[c].atWork
                            /\ q(c).cancelled = (requests[c].cancelled \/ c \in C)
      BY <2>2 DEF Flags
    <2>4. \A c \in (s \cup p) \ Active : q(c) \in Flags
      BY DEF Flags
    <2> HIDE DEF q
    <2>5. DOMAIN requests' = Active \cup s \cup p /\ \A c \in Active : requests'[c] = q(c)
      BY <2>1
    <2> QED BY <2>1, <2>3, <2>4, <2>5 DEF Active
  <1>10. /\ Active \cap s = {} /\ Active \cap p = {} /\ s \cap p = {}
    BY <1>6, <1>7
  <1>11. \A c \in Active \ AtWork : c \in Active' \ AtWork'
    BY <1>9 DEF AtWork
  <1>12. Collected' = Collected
    BY <1>3 DEF Collected
  <1>13. Answers'
    BY <1>1, <1>11, <1>12 DEF Answers
  <1>14. Wanted'
    <2>1. Active' \cap resident' = {}
      BY <1>1, <1>4, <1>6, <1>9 DEF Wanted
    <2>2. ASSUME NEW c \in Active', ~requests'[c].cancelled PROVE c \in interest'
      <3>1. CASE c \in Active
        <4>1. c \notin C
          BY <1>9, <2>2, <3>1
        <4> QED BY <1>4, <3>1, <4>1 DEF Cancelled
      <3>2. CASE c \in s \cup p
        BY <1>4, <1>6, <3>2
      <3> QED BY <1>9, <2>2, <3>1, <3>2
    <2> QED BY <2>1, <2>2 DEF Wanted
  <1>15. /\ DOMAIN pending' = Active'
         /\ \A c \in DOMAIN pending : pending'[c] = pending[c]
         /\ \A c \in p : pending'[c] = "speculative"
         /\ pending' \in [DOMAIN pending' -> {"required", "speculative"}]
    <2> DEFINE e(c) == IF c \in DOMAIN pending THEN pending[c] ELSE IF c \in s THEN "required" ELSE "speculative"
    <2>1. pending' = [c \in DOMAIN pending \cup s \cup p |-> e(c)]
      BY <1>5 DEF Requested
    <2>2. /\ \A c \in DOMAIN pending : e(c) = pending[c]
          /\ \A c \in p : e(c) = "speculative"
          /\ \A c : e(c) \in {"required", "speculative"}
      BY <1>1, <1>7, <1>10 DEF Typed
    <2> HIDE DEF e
    <2> QED BY <1>7, <1>9, <2>1, <2>2
  <1>16. /\ DOMAIN speculative' = DOMAIN T \cup p
         /\ \A c \in DOMAIN T : speculative'[c] = T[c]
         /\ \A c \in p : speculative'[c].state = "submitted"
         /\ speculative' \in [DOMAIN speculative' -> Speculation]
    <2> DEFINE e(c) == IF c \in DOMAIN T THEN T[c] ELSE [state |-> "submitted", invalidated |-> FALSE]
    <2>1. speculative' = [c \in DOMAIN T \cup p |-> e(c)]
      BY <1>5 DEF Speculated, T
    <2>2. /\ \A c \in DOMAIN T : e(c) = T[c] /\ e(c) \in Speculation
          /\ \A c \in p : e(c).state = "submitted" /\ e(c) \in Speculation
      BY <1>6, <1>8 DEF Speculation, T
    <2> HIDE DEF e
    <2> QED BY <2>1, <2>2
  <1>17. Tracking'
    <2>1. required' \cap DOMAIN speculative' = {}
      BY <1>4, <1>6, <1>8, <1>16
    <2>2. ASSUME NEW c \in DOMAIN speculative'
          PROVE  /\ speculative'[c].state = "submitted" => c \in DOMAIN pending' /\ pending'[c] = "speculative"
                 /\ speculative'[c].state = "cancellation_requested" => speculative'[c].invalidated
                 /\ speculative'[c].state = "published" => c \notin Active'
      <3>1. CASE c \in DOMAIN T
        <4>1. c \in DOMAIN speculative /\ c \notin s /\ c \notin p
          BY <1>6, <1>8, <3>1 DEF T
        <4>2. /\ speculative[c].state = "submitted" => c \in DOMAIN pending /\ pending[c] = "speculative"
              /\ speculative[c].state = "published" => c \notin Active
          BY <1>1, <4>1 DEF Tracking
        <4> QED BY <1>7, <1>8, <1>9, <1>15, <1>16, <3>1, <4>1, <4>2
      <3>2. CASE c \in p
        BY <1>9, <1>15, <1>16, <3>2
      <3> QED BY <1>16, <2>2, <3>1, <3>2
    <2> QED BY <1>15, <2>1, <2>2 DEF Tracking
  <1>18. Typed'
    <2>1. Active' \subseteq Chunks /\ resident' \subseteq Chunks
      BY <1>1, <1>4, <1>6, <1>9 DEF Typed
    <2>2. DOMAIN speculative' \subseteq Chunks
      BY <1>1, <1>6, <1>8, <1>16 DEF Typed
    <2>3. failure' \in Failures
      BY <1>5 DEF Failures
    <2> QED BY <1>1, <1>3, <1>9, <1>15, <1>16, <2>1, <2>2, <2>3 DEF Typed
  <1> QED BY <1>5, <1>9, <1>13, <1>14, <1>17, <1>18 DEF StreamingInv, NeverMismatched

--------------------------------------------------------------------------------
(* The theorems *)

LEMMA StreamingStep == StreamingInv /\ [Next]_vars => StreamingInv'
  <1> SUFFICES ASSUME StreamingInv, [Next]_vars PROVE StreamingInv'
    OBVIOUS
  <1>1. Typed
    BY InvFacts
  <1>2. CASE Publish
    BY <1>2, PublishStep
  <1>3. CASE Plan
    BY <1>3, PlanStep
  <1>4. CASE Workers
    <2>1. CASE Retire
      <3>1. retiring' \in 0..WorkerCount /\ generic' \in 0..MaxCompleted
        BY <1>1, <2>1, ConstantFacts DEF Retire, Typed
      <3> QED BY <1>4, <2>1, <3>1, QuietStep DEF Retire, Workers, controllerVars
    <2>2. CASE \E c \in Chunks : Deliver(c)
      BY <1>4, <2>2, DeliverStep DEF Workers
    <2> QED BY <1>4, <2>1, <2>2 DEF Workers
  <1>5. CASE Stop
    BY <1>5, StopStep
  <1>6. ASSUME NEW c \in Chunks, Edit(c) PROVE StreamingInv'
    BY <1>1, <1>6, QuietStep DEF Edit, schedulerVars, Typed
  <1>7. CASE UNCHANGED vars
    BY <1>1, <1>7, QuietStep DEF vars, schedulerVars, controllerVars, Typed
  <1> QED BY <1>2, <1>3, <1>4, <1>5, <1>6, <1>7 DEF Next

\* The inductive invariant of chunk streaming: the tables of the controller, of its
\* planner and of the scheduler name the same chunks in compatible states.
THEOREM StreamingInvariant == Spec => []StreamingInv
  BY InitStreaming, StreamingStep, PTL DEF Spec

\* The variables of the scheduler and of the controller keep their types, requests
\* stay within the limit of concurrent requests and mailboxes within theirs.
THEOREM TypeCorrect == Spec => []TypeOK
  <1>1. StreamingInv => TypeOK
    <2> SUFFICES ASSUME StreamingInv PROVE TypeOK
      OBVIOUS
    <2>1. Typed /\ Cardinality(Active) <= MaxRequests
      BY InvFacts
    <2>2. \A c \in Active : requests[c] \in Flags
      BY <2>1 DEF Typed
    <2>3. \A c \in DOMAIN speculative : speculative[c] \in Speculation
      BY <2>1 DEF Typed
    <2>4. \A c \in DOMAIN pending : pending[c] \in {"required", "speculative"}
      BY <2>1 DEF Typed
    <2> QED BY <2>1, <2>2, <2>3, <2>4 DEF Typed, TypeOK, Flags, Speculation
  <1> QED BY <1>1, StreamingInvariant, PTL

\* No result is untracked, stale or published twice, no cancellation names a request
\* that is not speculative and no eviction a dirty chunk: update of the controller
\* fails only because a load failed or the pool is full.
THEOREM PolicyAndControllerAgree == Spec => []NeverMismatched
  <1>1. StreamingInv => NeverMismatched
    BY InvFacts
  <1> QED BY <1>1, StreamingInvariant, PTL

\* Only chunks the last plan wanted enter the world, however late their results are.
THEOREM ObsoleteNeverEnters == Spec => OnlyWantedPublished
  <1>1. StreamingInv /\ [Next]_vars => [resident' \ resident \subseteq interest]_vars
    <2> SUFFICES ASSUME StreamingInv, [Next]_vars, vars' # vars PROVE resident' \ resident \subseteq interest
      BY Zenon
    <2>1. Typed /\ Answers /\ Wanted
      BY InvFacts
    <2>2. CASE Publish
      <3>1. PICK n \in Processable : resident' = resident \cup With("published", n)
        BY <2>2 DEF Publish, PublishResults
      <3> QED BY <2>1, <3>1, VerdictFacts
    <2>3. CASE Plan
      BY <2>3 DEF Plan
    <2>4. CASE Workers
      BY <2>4 DEF Workers, Retire, Deliver
    <2>5. CASE Stop
      BY <2>5 DEF Stop
    <2>6. ASSUME NEW c \in Chunks, Edit(c) PROVE resident' \ resident \subseteq interest
      BY <2>6 DEF Edit
    <2> QED BY <2>2, <2>3, <2>4, <2>5, <2>6 DEF Next
  <1> QED BY <1>1, StreamingInvariant, PTL DEF Spec, OnlyWantedPublished
================================================================================
