-------------------------- MODULE RemoteSessionProofs --------------------------
(***************************************************************************)
(* Proofs about RemoteSession, for any number of commands and sessions and  *)
(* any limits, over a network that loses, duplicates and reorders: limits,  *)
(* the custody of commands and of results, and exactly-once execution in    *)
(* the order of issue.                                                      *)
(***************************************************************************)
EXTENDS RemoteSession, FiniteSetTheorems, WellFoundedInduction, TLAPS

--------------------------------------------------------------------------------
(* The invariant *)

Trackers(keys, received) ==
  [pending : UNION {[some -> 1..MaxAttempts] : some \in SUBSET keys}, received : Seq(received)]
Sequencers == [next : Nat \ {0}, buffer : SUBSET Commands]
Sessions == [connected : BOOLEAN, tracker : Trackers(DownKeys, UpKeys), sequencer : Sequencers,
             outbox : Seq({Result(n) : n \in Commands})]

Typed ==
  /\ link \in [state : {"idle", "connecting", "connected", "closed"}, session : Nat,
               tracker : Trackers(UpKeys, DownKeys)]
  /\ view \in [welcomed : BOOLEAN, faulted : BOOLEAN, next : 1..(LastCommand + 1),
               awaiting : SUBSET Commands, results : SUBSET Commands]
  /\ sessions \in Seq(Sessions)
  /\ inbox \in Seq(Nat \X Commands) /\ log \in Seq(Nat \X Commands)
  /\ phase \in {"poll", "drain", "dispatch", "failed"}
  /\ givenUp \subseteq Commands

Fits(t) == Cardinality(Pending(t)) <= MaxInFlight /\ Len(t.received) <= MaxTracked

Limits ==
  /\ link.session \in 0..Len(sessions) /\ Len(sessions) <= LastSession
  /\ Fits(link.tracker)
  /\ \A s \in DOMAIN sessions : /\ Fits(sessions[s].tracker)
                                /\ Cardinality(sessions[s].sequencer.buffer) <= MaxInFlight
                                /\ Len(sessions[s].outbox) <= MaxBacklog
  /\ greet \cup gone \subseteq DOMAIN sessions /\ gone \cap Live = {}
  /\ dropped \subseteq (DOMAIN sessions) \X DownKeys

\* One connection in the life of the client, and no command before it was welcomed.
Joining ==
  /\ link.state \in {"idle", "connecting"} => link.session = 0
  /\ link.session = 0 => link.state # "connected" /\ ~view.welcomed
  /\ ~view.welcomed => view.next = 1

Issued(n) == n \in 1..(view.next - 1)

\* The server executed, is to execute or holds the command.
Arrived(n) == \/ <<link.session, n>> \in Range(log) \cup Range(inbox)
              \/ n \in sessions[link.session].sequencer.buffer

\* What the server executed, and then what waits in the inbox, is the stream of the
\* one session the client ever had; the sequencer knows where it goes on.
Streaming ==
  /\ \A i \in DOMAIN log : log[i] = <<link.session, i>> /\ Issued(i)
  /\ \A i \in DOMAIN inbox : inbox[i][1] = link.session /\ Issued(inbox[i][2])
  /\ link.session \in Live =>
       LET q == sessions[link.session].sequencer
       IN  /\ \A i \in DOMAIN inbox : inbox[i][2] = Len(log) + i
           /\ q.next = Len(log) + Len(inbox) + 1
           /\ \A k \in q.buffer : q.next < k /\ Issued(k)
  /\ \A s \in Live : s # link.session => sessions[s].sequencer = NewSequencer

\* Where the datagrams with commands and the memory of their keys come from.
Upward ==
  /\ \A s, n : Message(s, Command(n)) \in network => s = link.session /\ Issued(n)
  /\ \A s, n : Ack(s, Command(n)) \in network =>
       s = link.session /\ Issued(n) /\ (s \in Live => Arrived(n))
  /\ \A s \in Live : \A n : Seen(sessions[s].tracker, Command(n)) => s = link.session /\ Arrived(n)

\* Where the results come from, and what their acknowledgement means.
Downward ==
  /\ \A n \in view.results : n \in DOMAIN log
  /\ \A s, n : Message(s, Result(n)) \in network => <<s, n>> \in Range(log)
  /\ \A s \in DOMAIN sessions : \A n : Result(n) \in Range(sessions[s].outbox) => <<s, n>> \in Range(log)
  /\ \A s, n : Ack(s, Result(n)) \in network => n \in view.results
  /\ \A n : Seen(link.tracker, Result(n)) => n \in view.results
  /\ link.state = "connected" => \A n \in Commands : Issued(n) => n \in view.awaiting \cup view.results

SessionInv == Typed /\ Limits /\ Joining /\ Streaming /\ Upward /\ Downward
              /\ AckedCommandIsHeld /\ AnsweredOrCut

--------------------------------------------------------------------------------
(* Names of messages, and trackers *)

LEMMA Names ==
  /\ \A k, l : Command(k) = Command(l) => k = l
  /\ \A k, l : Result(k) = Result(l) => k = l
  /\ \A k, l : Command(k) # Result(l)
  /\ \A k : Command(k) # Welcome /\ Command(k) # Disconnect
  /\ \A k : Result(k) # Welcome /\ Result(k) # Disconnect
  BY DEF Command, Result, Welcome, Disconnect

LEMMA Datagrammar ==
  /\ \A s, t, k, l : Message(s, k) = Message(t, l) => s = t /\ k = l
  /\ \A s, t, k, l : Ack(s, k) = Ack(t, l) => s = t /\ k = l
  /\ \A s, t, k, l : Message(s, k) # Ack(t, l)
  /\ \A s, t, k : Message(s, k) # Accept(t) /\ Ack(s, k) # Accept(t)
  /\ \A s, k : \A kind \in {"hello", "challenge", "response"} :
       Message(s, k) # Handshake(kind) /\ Ack(s, k) # Handshake(kind)
  BY DEF Message, Ack, Accept, Handshake

LEMMA ConstantFacts ==
  /\ MaxInFlight \in Nat \ {0} /\ MaxAttempts \in Nat \ {0} /\ MaxTracked \in Nat \ {0}
  /\ MaxBacklog \in Nat \ {0} /\ LastCommand \in Nat /\ LastSession \in Nat
  BY LimitsNonZero, BacklogNonZero, BoundsAssumption

LEMMA KeysFinite == IsFiniteSet(UpKeys) /\ IsFiniteSet(DownKeys) /\ IsFiniteSet(Commands)
  <1>1. IsFiniteSet(Commands)
    BY ConstantFacts, FS_Interval DEF Commands
  <1>2. IsFiniteSet({Command(n) : n \in Commands}) /\ IsFiniteSet({Result(n) : n \in Commands})
    <2> DEFINE f == [n \in Commands |-> Command(n)]
               g == [n \in Commands |-> Result(n)]
    <2>1. f \in Surjection(Commands, {Command(n) : n \in Commands})
          /\ g \in Surjection(Commands, {Result(n) : n \in Commands})
      BY DEF Surjection
    <2> HIDE DEF f, g
    <2> QED BY <1>1, <2>1, FS_Surjection
  <1>3. IsFiniteSet({Command(n) : n \in Commands} \cup {Disconnect})
        /\ IsFiniteSet({Result(n) : n \in Commands} \cup {Welcome})
    BY <1>2, FS_AddElement
  <1> QED BY <1>1, <1>3 DEF UpKeys, DownKeys

LEMMA PendingTyped ==
  ASSUME NEW keys, NEW received, NEW t \in Trackers(keys, received)
  PROVE  /\ Pending(t) \subseteq keys /\ t.pending \in [Pending(t) -> 1..MaxAttempts]
         /\ t.received \in Seq(received)
  <1>1. PICK some \in SUBSET keys : t.pending \in [some -> 1..MaxAttempts]
    BY DEF Trackers
  <1> QED BY <1>1 DEF Trackers, Pending

LEMMA MakesTracker ==
  ASSUME NEW keys, NEW received, NEW some \in SUBSET keys, NEW p \in [some -> 1..MaxAttempts],
         NEW r \in Seq(received)
  PROVE  [pending |-> p, received |-> r] \in Trackers(keys, received)
  BY DEF Trackers

LEMMA NewTrackerFacts ==
  ASSUME NEW keys, NEW received
  PROVE  /\ NewTracker \in Trackers(keys, received) /\ Fits(NewTracker)
         /\ Pending(NewTracker) = {} /\ NewTracker.received = <<>>
  <1>1. <<>> \in [{} -> 1..MaxAttempts] /\ {} \in SUBSET keys /\ <<>> \in Seq(received)
        /\ DOMAIN <<>> = {} /\ Len(<<>>) = 0
    OBVIOUS
  <1>2. NewTracker \in Trackers(keys, received)
    BY <1>1, MakesTracker DEF NewTracker
  <1>3. Pending(NewTracker) = {} /\ NewTracker.received = <<>>
    BY <1>1 DEF NewTracker, Pending
  <1>4. Fits(NewTracker)
    BY <1>1, <1>3, FS_EmptySet, ConstantFacts DEF Fits
  <1> QED BY <1>2, <1>3, <1>4

LEMMA UntrackFacts ==
  ASSUME NEW keys, NEW received, NEW t \in Trackers(keys, received), NEW key
  PROVE  /\ Untrack(t, key) \in Trackers(keys, received)
         /\ Pending(Untrack(t, key)) = Pending(t) \ {key}
         /\ Untrack(t, key).received = t.received
         /\ IsFiniteSet(keys) /\ Fits(t) => Fits(Untrack(t, key))
  <1> DEFINE p == [k \in Pending(t) \ {key} |-> t.pending[k]]
  <1>1. t = [pending |-> t.pending, received |-> t.received]
    BY DEF Trackers
  <1>2. Untrack(t, key) = [pending |-> p, received |-> t.received]
    BY <1>1 DEF Untrack, Restrict, Pending
  <1>3. /\ p \in [Pending(t) \ {key} -> 1..MaxAttempts] /\ Pending(t) \ {key} \in SUBSET keys
        /\ t.received \in Seq(received) /\ DOMAIN p = Pending(t) \ {key}
    BY PendingTyped
  <1> HIDE DEF p
  <1>4. Untrack(t, key) \in Trackers(keys, received)
    <2>1. [pending |-> p, received |-> t.received] \in Trackers(keys, received)
      BY <1>3, MakesTracker
    <2> QED BY <1>2, <2>1
  <1>5. Pending(Untrack(t, key)) = Pending(t) \ {key} /\ Untrack(t, key).received = t.received
    BY <1>2, <1>3 DEF Pending
  <1>6. ASSUME IsFiniteSet(keys), Fits(t) PROVE Fits(Untrack(t, key))
    <2>1. IsFiniteSet(Pending(t))
      BY <1>6, PendingTyped, FS_Subset
    <2>2. /\ IsFiniteSet(Pending(t) \ {key}) /\ Cardinality(Pending(t) \ {key}) <= Cardinality(Pending(t))
      BY <2>1, FS_Subset
    <2>3. Cardinality(Pending(t)) \in Nat /\ Cardinality(Pending(t) \ {key}) \in Nat
      BY <2>1, <2>2, FS_CardinalityType
    <2>4. Cardinality(Pending(t) \ {key}) <= MaxInFlight
      BY <1>6, <2>2, <2>3, ConstantFacts DEF Fits
    <2> QED BY <1>5, <1>6, <2>4 DEF Fits
  <1> QED BY <1>4, <1>5, <1>6

LEMMA RetriedFacts ==
  ASSUME NEW keys, NEW received, NEW t \in Trackers(keys, received), NEW key \in Pending(t),
         ~Exhausted(t, key)
  PROVE  /\ Retried(t, key) \in Trackers(keys, received)
         /\ Pending(Retried(t, key)) = Pending(t) /\ Retried(t, key).received = t.received
         /\ Fits(t) => Fits(Retried(t, key))
  <1> DEFINE p == [t.pending EXCEPT ![key] = t.pending[key] + 1]
  <1>1. t = [pending |-> t.pending, received |-> t.received]
    BY DEF Trackers
  <1>2. Retried(t, key) = [pending |-> p, received |-> t.received]
    BY <1>1 DEF Retried
  <1>3. Pending(t) \in SUBSET keys /\ t.pending \in [Pending(t) -> 1..MaxAttempts]
        /\ t.received \in Seq(received)
    BY PendingTyped
  <1>4. t.pending[key] + 1 \in 1..MaxAttempts
    <2>1. t.pending[key] \in 1..MaxAttempts /\ ~(t.pending[key] >= MaxAttempts)
      BY <1>3 DEF Exhausted
    <2> QED BY <2>1, ConstantFacts
  <1>5. p \in [Pending(t) -> 1..MaxAttempts] /\ DOMAIN p = Pending(t)
    BY <1>3, <1>4
  <1> HIDE DEF p
  <1>6. Retried(t, key) \in Trackers(keys, received)
    <2>1. [pending |-> p, received |-> t.received] \in Trackers(keys, received)
      BY <1>3, <1>5, MakesTracker
    <2> QED BY <1>2, <2>1
  <1>7. Pending(Retried(t, key)) = Pending(t) /\ Retried(t, key).received = t.received
    BY <1>2, <1>5 DEF Pending
  <1> QED BY <1>6, <1>7 DEF Fits

LEMMA TrackFacts ==
  ASSUME NEW keys, NEW received, NEW t \in Trackers(keys, received), NEW some \in SUBSET keys
  PROVE  /\ Track(t, some) \in Trackers(keys, received)
         /\ Pending(Track(t, some)) = Pending(t) \cup some
         /\ Track(t, some).received = t.received
  <1> DEFINE p == [k \in Pending(t) \cup some |-> IF k \in some THEN 1 ELSE t.pending[k]]
  <1>1. t = [pending |-> t.pending, received |-> t.received]
    BY DEF Trackers
  <1>2. Track(t, some) = [pending |-> p, received |-> t.received]
    BY <1>1 DEF Track, Pending
  <1>3. Pending(t) \in SUBSET keys /\ t.pending \in [Pending(t) -> 1..MaxAttempts]
        /\ t.received \in Seq(received)
    BY PendingTyped
  <1>4. 1 \in 1..MaxAttempts
    BY ConstantFacts
  <1>5. p \in [Pending(t) \cup some -> 1..MaxAttempts] /\ DOMAIN p = Pending(t) \cup some
        /\ Pending(t) \cup some \in SUBSET keys
    BY <1>3, <1>4
  <1> HIDE DEF p
  <1>6. Track(t, some) \in Trackers(keys, received)
    <2>1. [pending |-> p, received |-> t.received] \in Trackers(keys, received)
      BY <1>3, <1>5, MakesTracker
    <2> QED BY <1>2, <2>1
  <1> QED BY <1>2, <1>5, <1>6 DEF Pending

LEMMA RememberFacts ==
  ASSUME NEW keys, NEW received, NEW t \in Trackers(keys, received), NEW key \in received
  PROVE  /\ Remember(t, key) \in Trackers(keys, received)
         /\ Pending(Remember(t, key)) = Pending(t)
         /\ Range(Remember(t, key).received) \subseteq Range(t.received) \cup {key}
         /\ Fits(t) => Fits(Remember(t, key))
  <1> DEFINE all == Append(t.received, key)
             r == IF Len(all) > MaxTracked THEN Tail(all) ELSE all
  <1>1. t = [pending |-> t.pending, received |-> t.received]
    BY DEF Trackers
  <1>2. Remember(t, key) = [pending |-> t.pending, received |-> r]
    <2>1. Remember(t, key) = [t EXCEPT !.received = r]
      BY DEF Remember
    <2> HIDE DEF r
    <2> QED BY <1>1, <2>1
  <1>3. Pending(t) \in SUBSET keys /\ t.pending \in [Pending(t) -> 1..MaxAttempts]
        /\ t.received \in Seq(received)
    BY PendingTyped
  <1>4. /\ all \in Seq(received) /\ Len(all) = Len(t.received) + 1 /\ Len(t.received) \in Nat
        /\ Range(all) \subseteq Range(t.received) \cup {key}
    BY <1>3 DEF Range
  <1> HIDE DEF all
  <1>5. Len(all) > MaxTracked =>
          Tail(all) \in Seq(received) /\ Len(Tail(all)) = Len(all) - 1 /\ Range(Tail(all)) \subseteq Range(all)
    <2> SUFFICES ASSUME Len(all) > MaxTracked
                 PROVE  Tail(all) \in Seq(received) /\ Len(Tail(all)) = Len(all) - 1
                        /\ Range(Tail(all)) \subseteq Range(all)
      OBVIOUS
    <2>1. all # <<>>
      BY <1>4, ConstantFacts
    <2>2. Tail(all) \in Seq(received) /\ Len(Tail(all)) = Len(all) - 1
      BY <1>4, <2>1
    <2>3. \A i \in 1..Len(Tail(all)) : Tail(all)[i] = all[i + 1] /\ i + 1 \in 1..Len(all)
      BY <1>4, <2>1
    <2> QED BY <1>4, <2>2, <2>3 DEF Range
  <1>6. r \in Seq(received) /\ Range(r) \subseteq Range(t.received) \cup {key}
    BY <1>4, <1>5
  <1>7. Len(t.received) <= MaxTracked => Len(r) <= MaxTracked
    BY <1>4, <1>5, ConstantFacts
  <1> HIDE DEF r
  <1>8. Remember(t, key) \in Trackers(keys, received)
    BY <1>2, <1>3, <1>6, MakesTracker
  <1>9. Pending(Remember(t, key)) = Pending(t) /\ Remember(t, key).received = r
    BY <1>2 DEF Pending
  <1> QED BY <1>6, <1>7, <1>8, <1>9 DEF Fits

--------------------------------------------------------------------------------
(* Steps that bring no new reliable message *)

LEMMA InvFacts ==
  ASSUME SessionInv
  PROVE  /\ Typed /\ Limits /\ Joining /\ Streaming /\ Upward /\ Downward
         /\ AckedCommandIsHeld /\ AnsweredOrCut
  BY DEF SessionInv

LEMMA TypedFacts ==
  ASSUME Typed
  PROVE  /\ link.tracker \in Trackers(UpKeys, DownKeys) /\ link.session \in Nat
         /\ view.next \in 1..(LastCommand + 1) /\ view.awaiting \subseteq Commands
         /\ view.results \subseteq Commands
         /\ DOMAIN sessions = 1..Len(sessions) /\ Len(sessions) \in Nat
         /\ \A s \in DOMAIN sessions :
              /\ s \in Nat /\ sessions[s] \in Sessions
              /\ sessions[s].tracker \in Trackers(DownKeys, UpKeys)
              /\ sessions[s].sequencer \in Sequencers
              /\ sessions[s].outbox \in Seq({Result(n) : n \in Commands})
         /\ \A s \in Live : s \in DOMAIN sessions
  <1>1. sessions \in Seq(Sessions)
    BY DEF Typed
  <1>2. \A s \in DOMAIN sessions : s \in Nat /\ sessions[s] \in Sessions
    BY <1>1
  <1>3. DOMAIN sessions = 1..Len(sessions) /\ Len(sessions) \in Nat
    BY <1>1
  <1>4. \A x \in Sessions : /\ x.tracker \in Trackers(DownKeys, UpKeys) /\ x.sequencer \in Sequencers
                            /\ x.outbox \in Seq({Result(n) : n \in Commands})
    BY DEF Sessions
  <1>5. /\ link.tracker \in Trackers(UpKeys, DownKeys) /\ link.session \in Nat
        /\ view.next \in 1..(LastCommand + 1) /\ view.awaiting \subseteq Commands
        /\ view.results \subseteq Commands
    BY DEF Typed
  <1> QED BY <1>2, <1>3, <1>4, <1>5 DEF Live

\* A session that is replaced.
LEMMA SessionReplaced ==
  ASSUME Typed, NEW s \in DOMAIN sessions, NEW x \in Sessions, sessions' = [sessions EXCEPT ![s] = x]
  PROVE  /\ sessions' \in Seq(Sessions) /\ Len(sessions') = Len(sessions)
         /\ DOMAIN sessions' = DOMAIN sessions /\ sessions'[s] = x
         /\ \A r \in DOMAIN sessions : r # s => sessions'[r] = sessions[r]
  BY DEF Typed

\* No acknowledgement of a reliable message is new, and no message but a result out of
\* a backlog.
SameMail ==
  \A s, n : /\ Message(s, Command(n)) \in network' => Message(s, Command(n)) \in network
            /\ Ack(s, Command(n)) \in network' => Ack(s, Command(n)) \in network
            /\ Message(s, Result(n)) \in network' =>
                 \/ Message(s, Result(n)) \in network
                 \/ s \in DOMAIN sessions /\ Result(n) \in Range(sessions[s].outbox)
            /\ Ack(s, Result(n)) \in network' => Ack(s, Result(n)) \in network

LEMMA QuietSend ==
  ASSUME NEW d, Send(d) \/ network' = network,
         \/ \E kind \in {"hello", "challenge", "response"} : d = Handshake(kind)
         \/ \E s : d = Accept(s) \/ d = Message(s, Disconnect) \/ d = Ack(s, Disconnect)
                   \/ d = Message(s, Welcome) \/ d = Ack(s, Welcome)
  PROVE  SameMail
  <1>1. ASSUME NEW s, NEW n
        PROVE  /\ d # Message(s, Command(n)) /\ d # Ack(s, Command(n))
               /\ d # Message(s, Result(n)) /\ d # Ack(s, Result(n))
    <2>1. CASE \E kind \in {"hello", "challenge", "response"} : d = Handshake(kind)
      BY <2>1, Datagrammar
    <2>2. ASSUME NEW t, d = Accept(t) \/ d = Message(t, Disconnect) \/ d = Ack(t, Disconnect)
                        \/ d = Message(t, Welcome) \/ d = Ack(t, Welcome)
          PROVE  /\ d # Message(s, Command(n)) /\ d # Ack(s, Command(n))
                 /\ d # Message(s, Result(n)) /\ d # Ack(s, Result(n))
      BY <2>2, Datagrammar, Names
    <2> QED BY <2>1, <2>2
  <1> QED BY <1>1 DEF SameMail, Send

\* The stream and the origins of messages survive such a step.
LEMMA QuietStep ==
  ASSUME SessionInv, SameMail, UNCHANGED <<log, inbox>>,
         link'.session = link.session, view'.next = view.next, view'.results = view.results,
         Range(link'.tracker.received) \subseteq Range(link.tracker.received),
         link'.state = "connected" => link.state = "connected" /\ view'.awaiting = view.awaiting,
         DOMAIN sessions' = DOMAIN sessions,
         \A s \in DOMAIN sessions :
           /\ sessions'[s].connected => sessions[s].connected
           /\ sessions'[s].sequencer = sessions[s].sequencer
           /\ sessions'[s].tracker.received = sessions[s].tracker.received
           /\ Range(sessions'[s].outbox) \subseteq Range(sessions[s].outbox)
  PROVE  Streaming' /\ Upward' /\ Downward'
  <1>1. Typed /\ Streaming /\ Upward /\ Downward
    BY InvFacts
  <1>2. /\ \A s \in Live' : s \in Live /\ s \in DOMAIN sessions
        /\ \A n : Issued(n)' <=> Issued(n)
    BY <1>1, TypedFacts DEF Live, Issued
  <1>3. \A n : link.session \in Live' => (Arrived(n) => Arrived(n)')
    BY <1>2 DEF Arrived
  <1>4. Streaming'
    <2>1. link'.session \in Live' =>
            LET q == sessions[link.session].sequencer
            IN  /\ \A i \in DOMAIN inbox : inbox[i][2] = Len(log) + i
                /\ q.next = Len(log) + Len(inbox) + 1
                /\ \A k \in q.buffer : q.next < k /\ Issued(k)
      BY <1>1, <1>2 DEF Streaming
    <2>2. \A s \in Live' : s # link.session => sessions'[s].sequencer = NewSequencer
      BY <1>1, <1>2 DEF Streaming
    <2>3. link.session \in Live' => sessions'[link.session].sequencer = sessions[link.session].sequencer
      BY <1>2
    <2>4. \A i \in DOMAIN log : log[i] = <<link.session, i>> /\ Issued(i)
      BY <1>1 DEF Streaming
    <2>5. \A i \in DOMAIN inbox : inbox[i][1] = link.session /\ Issued(inbox[i][2])
      BY <1>1 DEF Streaming
    <2> QED BY <1>2, <2>1, <2>2, <2>3, <2>4, <2>5 DEF Streaming
  <1>5. Upward'
    <2>1. \A s, n : Message(s, Command(n)) \in network' => s = link.session /\ Issued(n)
      BY <1>1 DEF Upward, SameMail
    <2>2. \A s, n : Ack(s, Command(n)) \in network' =>
            s = link.session /\ Issued(n) /\ (s \in Live' => Arrived(n)')
      BY <1>1, <1>2, <1>3 DEF Upward, SameMail
    <2>3. \A s \in Live' : \A n : Seen(sessions'[s].tracker, Command(n)) => s = link.session /\ Arrived(n)'
      BY <1>1, <1>2, <1>3 DEF Upward, Seen
    <2> QED BY <1>2, <2>1, <2>2, <2>3 DEF Upward
  <1>6. Downward'
    <2>1. \A s \in DOMAIN sessions' : \A n : Result(n) \in Range(sessions'[s].outbox) => <<s, n>> \in Range(log)
      BY <1>1 DEF Downward
    <2>2. \A n : Seen(link'.tracker, Result(n)) => n \in view.results
      BY <1>1 DEF Downward, Seen
    <2>3. /\ \A s, n : Message(s, Result(n)) \in network' => <<s, n>> \in Range(log)
          /\ \A s, n : Ack(s, Result(n)) \in network' => n \in view.results
      BY <1>1 DEF Downward, SameMail
    <2>4. link'.state = "connected" => \A n \in Commands : Issued(n)' => n \in view'.awaiting \cup view'.results
      BY <1>1, <1>2 DEF Downward
    <2> QED BY <1>1, <2>1, <2>2, <2>3, <2>4 DEF Downward
  <1> QED BY <1>4, <1>5, <1>6

LEMMA AckedAs ==
  AckedCommandIsHeld <=>
    (SessionUp => \A n \in 1..(view.next - 1) :
                    n \notin givenUp /\ Command(n) \notin Pending(link.tracker) => Arrived(n))
  BY DEF AckedCommandIsHeld, Arrived

\* A step of the client alone.
LEMMA ClientQuiet ==
  ASSUME SessionInv, SameMail, UNCHANGED <<sessions, greet, gone, inbox, log, phase, dropped>>,
         link' \in [state : {"idle", "connecting", "connected", "closed"}, session : Nat,
                    tracker : Trackers(UpKeys, DownKeys)],
         view' \in [welcomed : BOOLEAN, faulted : BOOLEAN, next : 1..(LastCommand + 1),
                    awaiting : SUBSET Commands, results : SUBSET Commands],
         link'.session = link.session, Fits(link'.tracker),
         Range(link'.tracker.received) \subseteq Range(link.tracker.received),
         link'.state = "connected" => link.state = "connected" /\ view'.awaiting = view.awaiting,
         link'.state \in {"idle", "connecting"} => link.state \in {"idle", "connecting"},
         view'.next = view.next, view'.results = view.results, view'.welcomed = view.welcomed,
         givenUp \subseteq givenUp', givenUp' \subseteq Commands,
         link.session \in Live =>
           \A n \in 1..(view.next - 1) :
             Command(n) \in Pending(link.tracker) /\ link'.state = "connected"
               => Command(n) \in Pending(link'.tracker) \/ n \in givenUp' \/ Arrived(n)
  PROVE  SessionInv'
  <1>1. Typed /\ Limits /\ Joining /\ Streaming /\ Upward /\ Downward /\ AckedCommandIsHeld /\ AnsweredOrCut
    BY InvFacts
  <1>2. Streaming' /\ Upward' /\ Downward'
    BY QuietStep
  <1>3. Typed'
    BY <1>1 DEF Typed
  <1>4. Live' = Live /\ \A n : Arrived(n)' <=> Arrived(n)
    BY DEF Live, Arrived
  <1>5. Limits'
    BY <1>1, <1>4 DEF Limits
  <1>6. Joining'
    BY <1>1 DEF Joining
  <1>7. AckedCommandIsHeld'
    <2>1. ASSUME SessionUp', NEW n \in 1..(view'.next - 1), n \notin givenUp',
                 Command(n) \notin Pending(link'.tracker)
          PROVE  Arrived(n)'
      <3>1. SessionUp /\ link'.state = "connected" /\ link.session \in Live /\ n \in 1..(view.next - 1)
        BY <1>4, <2>1 DEF SessionUp
      <3>2. CASE Command(n) \in Pending(link.tracker)
        BY <1>4, <2>1, <3>1, <3>2
      <3>3. CASE Command(n) \notin Pending(link.tracker)
        BY <1>1, <1>4, <2>1, <3>1, <3>3, AckedAs
      <3> QED BY <3>2, <3>3
    <2>2. AckedCommandIsHeld' <=>
            (SessionUp' => \A n \in 1..(view'.next - 1) :
               n \notin givenUp' /\ Command(n) \notin Pending(link'.tracker) => Arrived(n)')
      BY DEF AckedCommandIsHeld, Arrived, Pending
    <2> QED BY <2>1, <2>2
  <1>8. AnsweredOrCut'
    BY <1>1, <1>4 DEF AnsweredOrCut
  <1> QED BY <1>2, <1>3, <1>5, <1>6, <1>7, <1>8 DEF SessionInv

\* A step of the host transport on one session that takes nothing in.
LEMMA HostQuiet ==
  ASSUME SessionInv, SameMail, UNCHANGED <<link, view, inbox, log, givenUp, phase, greet>>,
         NEW s \in DOMAIN sessions, NEW x \in Sessions, sessions' = [sessions EXCEPT ![s] = x],
         x.connected => sessions[s].connected,
         x.sequencer = sessions[s].sequencer, x.outbox = sessions[s].outbox,
         x.tracker.received = sessions[s].tracker.received, Fits(x.tracker),
         gone' = gone \/ (gone' = gone \cup {s} /\ ~x.connected),
         dropped \subseteq dropped', dropped' \subseteq dropped \cup ({s} \X DownKeys),
         \A n : Result(n) \in Pending(sessions[s].tracker) /\ x.connected
                  => Result(n) \in Pending(x.tracker) \/ n \in view.results \/ <<s, Result(n)>> \in dropped'
  PROVE  SessionInv'
  <1>1. Typed /\ Limits /\ Joining /\ Streaming /\ Upward /\ Downward /\ AckedCommandIsHeld /\ AnsweredOrCut
    BY InvFacts
  <1>2. /\ sessions' \in Seq(Sessions) /\ Len(sessions') = Len(sessions)
        /\ DOMAIN sessions' = DOMAIN sessions /\ sessions'[s] = x
        /\ \A r \in DOMAIN sessions : r # s => sessions'[r] = sessions[r]
    BY <1>1, SessionReplaced
  <1>3. \A r \in DOMAIN sessions :
          /\ sessions'[r].connected => sessions[r].connected
          /\ sessions'[r].sequencer = sessions[r].sequencer
          /\ sessions'[r].tracker.received = sessions[r].tracker.received
          /\ sessions'[r].outbox = sessions[r].outbox
    BY <1>2
  <1>4. Streaming' /\ Upward' /\ Downward'
    BY <1>2, <1>3, QuietStep
  <1>5. Typed'
    BY <1>1, <1>2 DEF Typed
  <1>6. \A r \in Live' : r \in Live /\ r \in DOMAIN sessions
    BY <1>2, <1>3 DEF Live
  <1>7. Limits'
    <2>1. \A r \in DOMAIN sessions' : /\ Fits(sessions'[r].tracker)
                                      /\ Cardinality(sessions'[r].sequencer.buffer) <= MaxInFlight
                                      /\ Len(sessions'[r].outbox) <= MaxBacklog
      BY <1>1, <1>2, <1>3 DEF Limits
    <2>2. gone' \subseteq DOMAIN sessions /\ gone' \cap Live' = {}
      BY <1>1, <1>2, <1>6 DEF Limits, Live
    <2>3. dropped' \subseteq (DOMAIN sessions') \X DownKeys
      BY <1>1, <1>2 DEF Limits
    <2> QED BY <1>1, <1>2, <2>1, <2>2, <2>3 DEF Limits
  <1>8. Joining'
    BY <1>1 DEF Joining
  <1>9. AckedCommandIsHeld'
    BY <1>1, <1>3, <1>6 DEF AckedCommandIsHeld, SessionUp
  <1>10. AnsweredOrCut'
    <2>1. ASSUME NEW entry \in Range(log), entry[1] \in Live'
          PROVE  \/ Result(entry[2]) \in Range(sessions'[entry[1]].outbox) \cup Pending(sessions'[entry[1]].tracker)
                 \/ entry[2] \in view.results
                 \/ <<entry[1], Result(entry[2])>> \in dropped'
      <3>1. \/ Result(entry[2]) \in Range(sessions[entry[1]].outbox) \cup Pending(sessions[entry[1]].tracker)
            \/ entry[2] \in view.results
            \/ <<entry[1], Result(entry[2])>> \in dropped
        BY <1>1, <1>6, <2>1 DEF AnsweredOrCut
      <3>2. CASE entry[1] = s
        <4>1. x.connected
          BY <1>2, <2>1, <3>2 DEF Live
        <4> QED BY <1>2, <3>1, <3>2, <4>1
      <3>3. CASE entry[1] # s
        BY <1>2, <1>6, <2>1, <3>1, <3>3
      <3> QED BY <3>2, <3>3
    <2>2. AnsweredOrCut' <=>
            \A entry \in Range(log') :
              entry[1] \in Live' =>
                \/ Result(entry[2]) \in Range(sessions'[entry[1]].outbox) \cup Pending(sessions'[entry[1]].tracker)
                \/ entry[2] \in view'.results
                \/ <<entry[1], Result(entry[2])>> \in dropped'
      BY DEF AnsweredOrCut, Pending, Range
    <2> QED BY <2>1, <2>2
  <1> QED BY <1>4, <1>5, <1>7, <1>8, <1>9, <1>10 DEF SessionInv

LEMMA NoMail == ASSUME network' = network PROVE SameMail
  BY DEF SameMail

LEMMA LinkTyped ==
  ASSUME Typed
  PROVE  /\ link = [state |-> link.state, session |-> link.session, tracker |-> link.tracker]
         /\ view \in [welcomed : BOOLEAN, faulted : BOOLEAN, next : 1..(LastCommand + 1),
                      awaiting : SUBSET Commands, results : SUBSET Commands]
         /\ link \in [state : {"idle", "connecting", "connected", "closed"}, session : Nat,
                      tracker : Trackers(UpKeys, DownKeys)]
  BY DEF Typed

LEMMA HandshakeSteps ==
  ASSUME SessionInv, Connect \/ AnswerChallenge \/ TakeHello
  PROVE  SessionInv'
  <1>1. Typed /\ Fits(link.tracker)
    BY InvFacts DEF Limits
  <1>2. /\ UNCHANGED <<view, sessions, greet, gone, inbox, phase, log, givenUp, dropped>>
        /\ \E kind \in {"hello", "challenge", "response"} : Send(Handshake(kind))
        /\ link' = link \/ (link.state = "idle" /\ link' = [link EXCEPT !.state = "connecting"])
    BY DEF Connect, AnswerChallenge, TakeHello, clientVars, hostVars, history
  <1>3. SameMail
    BY <1>2, QuietSend
  <1>4. /\ link' \in [state : {"idle", "connecting", "connected", "closed"}, session : Nat,
                      tracker : Trackers(UpKeys, DownKeys)]
        /\ link'.session = link.session /\ link'.tracker = link.tracker
        /\ link'.state = "connected" => link.state = "connected"
        /\ link'.state \in {"idle", "connecting"} => link.state \in {"idle", "connecting"}
    BY <1>1, <1>2, LinkTyped
  <1>5. givenUp' \subseteq Commands
    BY <1>1, <1>2 DEF Typed
  <1> QED BY <1>1, <1>2, <1>3, <1>4, <1>5, LinkTyped, ClientQuiet

\* The farewell and every other end of a connection.
LEMMA CloseSteps ==
  ASSUME SessionInv, Close \/ Leave
  PROVE  SessionInv'
  <1>1. Typed
    BY InvFacts
  <1>2. /\ UNCHANGED <<sessions, greet, gone, inbox, phase, log, givenUp, dropped>>
        /\ link' = [link EXCEPT !.state = "closed", !.tracker = NewTracker]
        /\ network' = network \/ Send(Message(link.session, Disconnect))
        /\ view' = view \/ view' = [view EXCEPT !.awaiting = {}]
    BY DEF Close, Leave, Closed, hostVars, history
  <1>3. SameMail
    BY <1>2, QuietSend
  <1>4. /\ NewTracker \in Trackers(UpKeys, DownKeys) /\ Fits(NewTracker)
        /\ Range(NewTracker.received) = {}
    BY NewTrackerFacts DEF Range
  <1>5. /\ link' \in [state : {"idle", "connecting", "connected", "closed"}, session : Nat,
                      tracker : Trackers(UpKeys, DownKeys)]
        /\ link'.session = link.session /\ link'.tracker = NewTracker /\ link'.state = "closed"
    BY <1>1, <1>2, <1>4, LinkTyped
  <1>6. /\ view' \in [welcomed : BOOLEAN, faulted : BOOLEAN, next : 1..(LastCommand + 1),
                      awaiting : SUBSET Commands, results : SUBSET Commands]
        /\ view'.next = view.next /\ view'.results = view.results /\ view'.welcomed = view.welcomed
    BY <1>1, <1>2, LinkTyped
  <1>7. givenUp' \subseteq Commands
    BY <1>1, <1>2 DEF Typed
  <1> QED BY <1>2, <1>3, <1>4, <1>5, <1>6, <1>7, ClientQuiet

\* An acknowledged command has arrived, one that is given up is noted.
LEMMA CommandSteps ==
  ASSUME SessionInv, NEW n \in Commands, TakeAck(n) \/ Retry(n) \/ GiveUp(n)
  PROVE  SessionInv'
  <1>1. Typed /\ Fits(link.tracker) /\ Upward
    BY InvFacts DEF Limits
  <1>2. /\ UNCHANGED <<view, network, sessions, greet, gone, inbox, phase, log, dropped>>
        /\ link.state = "connected" /\ Command(n) \in Pending(link.tracker)
        /\ \/ /\ link' = [link EXCEPT !.tracker = Untrack(link.tracker, Command(n))]
              /\ Ack(link.session, Command(n)) \in network /\ givenUp' = givenUp
           \/ /\ link' = [link EXCEPT !.tracker = Retried(link.tracker, Command(n))]
              /\ ~Exhausted(link.tracker, Command(n)) /\ givenUp' = givenUp
           \/ /\ link' = [link EXCEPT !.tracker = Untrack(link.tracker, Command(n))]
              /\ givenUp' = givenUp \cup {n}
    BY DEF TakeAck, Retry, GiveUp, ClientRuns, hostVars, history
  <1>3. link.tracker \in Trackers(UpKeys, DownKeys) /\ IsFiniteSet(UpKeys)
    BY <1>1, TypedFacts, KeysFinite
  <1>4. \A u \in Trackers(UpKeys, DownKeys) :
          LET l == [link EXCEPT !.tracker = u]
          IN  /\ l \in [state : {"idle", "connecting", "connected", "closed"}, session : Nat,
                        tracker : Trackers(UpKeys, DownKeys)]
              /\ l.session = link.session /\ l.state = link.state /\ l.tracker = u
    BY <1>1, LinkTyped
  <1>5. givenUp \subseteq givenUp' /\ givenUp' \subseteq Commands
    BY <1>1, <1>2 DEF Typed
  <1>6. CASE /\ link' = [link EXCEPT !.tracker = Untrack(link.tracker, Command(n))]
             /\ Ack(link.session, Command(n)) \in network \/ n \in givenUp'
    <2> DEFINE u == Untrack(link.tracker, Command(n))
    <2>1. /\ u \in Trackers(UpKeys, DownKeys) /\ u.received = link.tracker.received /\ Fits(u)
          /\ Pending(u) = Pending(link.tracker) \ {Command(n)}
      BY <1>1, <1>3, UntrackFacts
    <2> HIDE DEF u
    <2>2. link' = [link EXCEPT !.tracker = u]
      BY <1>6 DEF u
    <2>3. /\ link' \in [state : {"idle", "connecting", "connected", "closed"}, session : Nat,
                        tracker : Trackers(UpKeys, DownKeys)]
          /\ link'.session = link.session /\ link'.state = link.state /\ link'.tracker = u
      BY <1>4, <2>1, <2>2
    <2>4. link.session \in Live => Arrived(n) \/ n \in givenUp'
      BY <1>1, <1>6 DEF Upward
    <2>5. \A k : Command(k) \in Pending(link.tracker) => Command(k) \in Pending(u) \/ k = n
      BY <2>1, Names
    <2> QED BY <1>2, <1>5, <1>1, <2>1, <2>3, <2>4, <2>5, NoMail, LinkTyped, ClientQuiet
  <1>7. CASE /\ link' = [link EXCEPT !.tracker = Retried(link.tracker, Command(n))]
             /\ ~Exhausted(link.tracker, Command(n))
    <2> DEFINE u == Retried(link.tracker, Command(n))
    <2>1. /\ u \in Trackers(UpKeys, DownKeys) /\ u.received = link.tracker.received /\ Fits(u)
          /\ Pending(u) = Pending(link.tracker)
      BY <1>1, <1>2, <1>3, <1>7, RetriedFacts
    <2> HIDE DEF u
    <2>2. link' = [link EXCEPT !.tracker = u]
      BY <1>7 DEF u
    <2>3. /\ link' \in [state : {"idle", "connecting", "connected", "closed"}, session : Nat,
                        tracker : Trackers(UpKeys, DownKeys)]
          /\ link'.session = link.session /\ link'.state = link.state /\ link'.tracker = u
      BY <1>4, <2>1, <2>2
    <2> QED BY <1>2, <1>5, <1>1, <2>1, <2>3, NoMail, LinkTyped, ClientQuiet
  <1> QED BY <1>2, <1>6, <1>7

\* An acknowledged result is with the player, one that is dropped is noted.
LEMMA ResultSteps ==
  ASSUME SessionInv, NEW s \in DOMAIN sessions, NEW key \in DownKeys,
         HostTakesAck(s, key) \/ HostRetry(s, key) \/ HostDrop(s, key)
  PROVE  SessionInv'
  <1>1. Typed /\ Fits(sessions[s].tracker) /\ Downward
    BY InvFacts DEF Limits
  <1>2. /\ UNCHANGED <<link, view, network, greet, gone, inbox, phase, log, givenUp>>
        /\ key \in Pending(sessions[s].tracker)
        /\ \/ /\ sessions' = [sessions EXCEPT ![s] =
                                [sessions[s] EXCEPT !.tracker = Untrack(sessions[s].tracker, key)]]
              /\ \/ Ack(s, key) \in network /\ dropped' = dropped
                 \/ dropped' = dropped \cup {<<s, key>>}
           \/ /\ sessions' = [sessions EXCEPT ![s] =
                                [sessions[s] EXCEPT !.tracker = Retried(sessions[s].tracker, key)]]
              /\ ~Exhausted(sessions[s].tracker, key) /\ dropped' = dropped
    BY DEF HostTakesAck, HostRetry, HostDrop, clientVars, history
  <1>3. /\ sessions[s].tracker \in Trackers(DownKeys, UpKeys) /\ IsFiniteSet(DownKeys)
        /\ sessions[s] \in Sessions
    BY <1>1, TypedFacts, KeysFinite
  <1>4. \A u \in Trackers(DownKeys, UpKeys) :
          LET x == [sessions[s] EXCEPT !.tracker = u]
          IN  /\ x \in Sessions /\ x.connected = sessions[s].connected
              /\ x.sequencer = sessions[s].sequencer /\ x.outbox = sessions[s].outbox /\ x.tracker = u
    BY <1>3 DEF Sessions
  <1>5. dropped \subseteq dropped' /\ dropped' \subseteq dropped \cup ({s} \X DownKeys)
    BY <1>2
  <1>6. CASE /\ sessions' = [sessions EXCEPT ![s] =
                               [sessions[s] EXCEPT !.tracker = Untrack(sessions[s].tracker, key)]]
             /\ Ack(s, key) \in network \/ <<s, key>> \in dropped'
    <2> DEFINE u == Untrack(sessions[s].tracker, key)
               x == [sessions[s] EXCEPT !.tracker = u]
    <2>1. /\ u \in Trackers(DownKeys, UpKeys) /\ u.received = sessions[s].tracker.received /\ Fits(u)
          /\ Pending(u) = Pending(sessions[s].tracker) \ {key}
      BY <1>1, <1>3, UntrackFacts
    <2> HIDE DEF u
    <2>2. /\ x \in Sessions /\ x.connected = sessions[s].connected
          /\ x.sequencer = sessions[s].sequencer /\ x.outbox = sessions[s].outbox /\ x.tracker = u
      BY <1>4, <2>1
    <2>3. sessions' = [sessions EXCEPT ![s] = x]
      BY <1>6 DEF u
    <2> HIDE DEF x
    <2>4. \A n : Result(n) \in Pending(sessions[s].tracker)
                   => Result(n) \in Pending(x.tracker) \/ n \in view.results \/ <<s, Result(n)>> \in dropped'
      BY <1>1, <1>6, <2>1, <2>2 DEF Downward
    <2> QED BY <1>2, <1>5, <2>1, <2>2, <2>3, <2>4, NoMail, HostQuiet
  <1>7. CASE /\ sessions' = [sessions EXCEPT ![s] =
                               [sessions[s] EXCEPT !.tracker = Retried(sessions[s].tracker, key)]]
             /\ ~Exhausted(sessions[s].tracker, key)
    <2> DEFINE u == Retried(sessions[s].tracker, key)
               x == [sessions[s] EXCEPT !.tracker = u]
    <2>1. /\ u \in Trackers(DownKeys, UpKeys) /\ u.received = sessions[s].tracker.received /\ Fits(u)
          /\ Pending(u) = Pending(sessions[s].tracker)
      BY <1>1, <1>2, <1>3, <1>7, RetriedFacts
    <2> HIDE DEF u
    <2>2. /\ x \in Sessions /\ x.connected = sessions[s].connected
          /\ x.sequencer = sessions[s].sequencer /\ x.outbox = sessions[s].outbox /\ x.tracker = u
      BY <1>4, <2>1
    <2>3. sessions' = [sessions EXCEPT ![s] = x]
      BY <1>7 DEF u
    <2> HIDE DEF x
    <2>4. \A n : Result(n) \in Pending(sessions[s].tracker) => Result(n) \in Pending(x.tracker)
      BY <2>1, <2>2
    <2> QED BY <1>2, <1>5, <2>1, <2>2, <2>3, <2>4, NoMail, HostQuiet
  <1> QED BY <1>2, <1>6, <1>7

LEMMA GoneSteps ==
  ASSUME SessionInv, NEW s \in DOMAIN sessions, TakeDisconnect(s) \/ HostIdle(s)
  PROVE  SessionInv'
  <1>1. Typed /\ Fits(sessions[s].tracker)
    BY InvFacts DEF Limits
  <1> DEFINE x == [sessions[s] EXCEPT !.connected = FALSE]
  <1>2. /\ UNCHANGED <<link, view, greet, inbox, phase, log, givenUp, dropped>>
        /\ Send(Ack(s, Disconnect)) \/ network' = network
        /\ sessions' = [sessions EXCEPT ![s] = x] /\ gone' = gone \cup {s}
    BY DEF TakeDisconnect, HostIdle, clientVars, history
  <1>3. sessions[s] \in Sessions
    BY <1>1, TypedFacts
  <1>4. /\ x \in Sessions /\ x.connected = FALSE /\ x.sequencer = sessions[s].sequencer
        /\ x.outbox = sessions[s].outbox /\ x.tracker = sessions[s].tracker
    BY <1>3 DEF Sessions
  <1>5. SameMail
    BY <1>2, QuietSend
  <1> HIDE DEF x
  <1> QED BY <1>1, <1>2, <1>4, <1>5, HostQuiet

\* A failed tick, and a step of the rest of the system.
LEMMA IdleSteps ==
  ASSUME SessionInv, SameMail, UNCHANGED <<clientVars, hostVars, history>>,
         phase' \in {"poll", "drain", "dispatch", "failed"}
  PROVE  SessionInv'
  <1>1. Typed /\ Limits /\ Joining /\ Streaming /\ Upward /\ Downward /\ AckedCommandIsHeld /\ AnsweredOrCut
    BY InvFacts
  <1>2. UNCHANGED <<link, view, sessions, greet, gone, inbox, log, givenUp, dropped>>
    BY DEF clientVars, hostVars, history
  <1>3. Streaming' /\ Upward' /\ Downward'
    BY <1>2, QuietStep
  <1>4. Typed' /\ Limits' /\ Joining'
    BY <1>1, <1>2 DEF Typed, Limits, Joining, Live
  <1>5. AckedCommandIsHeld' /\ AnsweredOrCut'
    BY <1>1, <1>2 DEF AckedCommandIsHeld, AnsweredOrCut, SessionUp, Live
  <1> QED BY <1>3, <1>4, <1>5 DEF SessionInv

--------------------------------------------------------------------------------
(* Joining *)

LEMMA InitSession == Init => SessionInv
  <1> SUFFICES ASSUME Init PROVE SessionInv
    OBVIOUS
  <1>1. /\ network = {} /\ link = [state |-> "idle", session |-> 0, tracker |-> NewTracker]
        /\ view = [welcomed |-> FALSE, faulted |-> FALSE, next |-> 1, awaiting |-> {}, results |-> {}]
        /\ sessions = <<>> /\ greet = {} /\ gone = {} /\ inbox = <<>> /\ phase = "poll"
        /\ log = <<>> /\ givenUp = {} /\ dropped = {}
    BY DEF Init
  <1>2. /\ NewTracker \in Trackers(UpKeys, DownKeys) /\ Fits(NewTracker) /\ NewTracker.received = <<>>
    BY NewTrackerFacts
  <1>3. DOMAIN sessions = {} /\ Live = {} /\ DOMAIN log = {} /\ DOMAIN inbox = {} /\ Len(sessions) = 0
        /\ sessions \in Seq(Sessions)
        /\ inbox \in Seq(Nat \X Commands) /\ log \in Seq(Nat \X Commands) /\ Range(log) = {}
    BY <1>1 DEF Live, Range
  <1>4. Typed
    BY <1>1, <1>2, <1>3, ConstantFacts DEF Typed
  <1>5. Limits
    BY <1>1, <1>2, <1>3, ConstantFacts DEF Limits
  <1>6. Joining
    BY <1>1 DEF Joining
  <1>7. Streaming
    BY <1>1, <1>3 DEF Streaming
  <1>8. Upward
    BY <1>1, <1>3 DEF Upward
  <1>9. \A n : ~Issued(n)
    BY <1>1 DEF Issued
  <1>10. Downward
    BY <1>1, <1>2, <1>3, <1>9 DEF Downward, Seen, Range
  <1>11. AckedCommandIsHeld /\ AnsweredOrCut
    BY <1>1, <1>3 DEF AckedCommandIsHeld, SessionUp, AnsweredOrCut
  <1> QED BY <1>4, <1>5, <1>6, <1>7, <1>8, <1>10, <1>11 DEF SessionInv

LEMMA AcceptStep ==
  ASSUME SessionInv, NEW s \in DOMAIN sessions, TakeAccept(s)
  PROVE  SessionInv'
  <1>1. Typed /\ Limits /\ Joining /\ Streaming /\ Upward /\ Downward /\ AnsweredOrCut
    BY InvFacts
  <1>2. /\ link.state = "connecting"
        /\ link' = [state |-> "connected", session |-> s, tracker |-> NewTracker]
        /\ UNCHANGED <<network, view, sessions, greet, gone, inbox, phase, log, givenUp, dropped>>
    BY DEF TakeAccept, hostVars, history
  <1>3. link.session = 0 /\ view.next = 1 /\ \A n : ~Issued(n)
    BY <1>1, <1>2 DEF Joining, Issued
  <1>4. /\ log = <<>> /\ inbox = <<>> /\ DOMAIN log = {} /\ DOMAIN inbox = {}
        /\ Range(log) = {} /\ Range(inbox) = {} /\ Len(log) = 0 /\ Len(inbox) = 0
    <2>1. DOMAIN log = {} /\ DOMAIN inbox = {}
      BY <1>1, <1>3 DEF Streaming
    <2>2. log \in Seq(Nat \X Commands) /\ inbox \in Seq(Nat \X Commands)
      BY <1>1 DEF Typed
    <2>3. Len(log) = 0 /\ Len(inbox) = 0 /\ log = <<>> /\ inbox = <<>>
      BY <2>1, <2>2
    <2> QED BY <2>1, <2>3 DEF Range
  <1>5. s \in Nat /\ s # 0 /\ s <= Len(sessions) /\ \A r \in Live : r # 0
    BY <1>1, TypedFacts
  <1>6. /\ NewTracker \in Trackers(UpKeys, DownKeys) /\ Fits(NewTracker) /\ NewTracker.received = <<>>
    BY NewTrackerFacts
  <1>7. Live' = Live /\ \A n : ~Issued(n)'
    BY <1>2, <1>3 DEF Live, Issued
  <1>8. Typed'
    BY <1>1, <1>2, <1>5, <1>6 DEF Typed
  <1>9. Limits'
    BY <1>1, <1>2, <1>5, <1>6, <1>7 DEF Limits
  <1>10. Joining'
    BY <1>1, <1>2, <1>5 DEF Joining
  <1>11. Streaming'
    <2>1. s \in Live => sessions[s].sequencer.next = 1 /\ sessions[s].sequencer.buffer = {}
      BY <1>1, <1>3, <1>5 DEF Streaming, NewSequencer
    <2>2. \A r \in Live : sessions[r].sequencer = NewSequencer
      BY <1>1, <1>3, <1>5 DEF Streaming
    <2> QED BY <1>2, <1>4, <1>7, <2>1, <2>2 DEF Streaming
  <1>12. Upward'
    <2>1. \A r, n : Message(r, Command(n)) \notin network /\ Ack(r, Command(n)) \notin network
      BY <1>1, <1>3 DEF Upward
    <2>2. \A r \in Live : \A n : ~Seen(sessions[r].tracker, Command(n))
      BY <1>1, <1>3, <1>5 DEF Upward
    <2> QED BY <1>2, <1>7, <2>1, <2>2 DEF Upward
  <1>13. Downward'
    <2>1. \A n : ~Seen(link'.tracker, Result(n))
      BY <1>2, <1>6 DEF Seen, Range
    <2> QED BY <1>1, <1>2, <1>7, <2>1 DEF Downward
  <1>14. AckedCommandIsHeld'
    BY <1>2, <1>3 DEF AckedCommandIsHeld
  <1>15. AnsweredOrCut'
    BY <1>1, <1>2, <1>7 DEF AnsweredOrCut
  <1> QED BY <1>8, <1>9, <1>10, <1>11, <1>12, <1>13, <1>14, <1>15 DEF SessionInv

LEMMA ResponseStep ==
  ASSUME SessionInv, TakeResponse
  PROVE  SessionInv'
  <1>1. Typed /\ Limits /\ Joining /\ Streaming /\ Upward /\ Downward /\ AckedCommandIsHeld /\ AnsweredOrCut
    BY InvFacts
  <1>2. /\ \E s : Send(Accept(s))
        /\ UNCHANGED <<link, view, gone, inbox, phase, log, givenUp, dropped>>
        /\ \/ UNCHANGED <<sessions, greet>>
           \/ /\ Live = {} /\ Len(sessions) < LastSession
              /\ sessions' = Append(sessions, NewSession)
              /\ greet' = greet \cup {Len(sessions) + 1}
    BY DEF TakeResponse, clientVars, history
  <1>3. SameMail
    BY <1>2, QuietSend
  <1>4. CASE UNCHANGED <<sessions, greet>>
    <2>1. phase' \in {"poll", "drain", "dispatch", "failed"}
      BY <1>1, <1>2 DEF Typed
    <2> QED BY <1>2, <1>3, <1>4, <2>1, IdleSteps DEF clientVars, hostVars, history
  <1>5. CASE /\ Live = {} /\ Len(sessions) < LastSession
             /\ sessions' = Append(sessions, NewSession)
             /\ greet' = greet \cup {Len(sessions) + 1}
    <2> DEFINE new == Len(sessions) + 1
    <2>1. /\ Len(sessions) \in Nat /\ DOMAIN sessions = 1..Len(sessions) /\ link.session \in 0..Len(sessions)
      BY <1>1, TypedFacts DEF Limits
    <2>2. /\ NewTracker \in Trackers(DownKeys, UpKeys) /\ Fits(NewTracker) /\ NewTracker.received = <<>>
      BY NewTrackerFacts
    <2>3. /\ NewSession \in Sessions /\ NewSession.tracker = NewTracker
          /\ NewSession.sequencer = NewSequencer /\ NewSession.sequencer.buffer = {}
          /\ NewSession.outbox = <<>> /\ Range(<<>>) = {} /\ Len(<<>>) = 0
      BY <2>2 DEF NewSession, NewSequencer, Sessions, Sequencers, Range
    <2>4. /\ sessions' \in Seq(Sessions) /\ Len(sessions') = new /\ DOMAIN sessions' = DOMAIN sessions \cup {new}
          /\ sessions'[new] = NewSession /\ \A s \in DOMAIN sessions : sessions'[s] = sessions[s]
          /\ new \notin DOMAIN sessions /\ link.session # new
      <3>1. sessions \in Seq(Sessions)
        BY <1>1 DEF Typed
      <3> QED BY <1>5, <2>1, <2>3, <3>1
    <2>5. Live' \subseteq {new}
      BY <1>5, <2>4 DEF Live
    <2>6. new <= LastSession
      BY <1>5, <2>1, ConstantFacts
    <2> HIDE DEF new
    <2>7. Typed'
      BY <1>1, <1>2, <2>4 DEF Typed
    <2>8. Limits'
      <3>1. \A s \in DOMAIN sessions' : /\ Fits(sessions'[s].tracker)
                                        /\ Cardinality(sessions'[s].sequencer.buffer) <= MaxInFlight
                                        /\ Len(sessions'[s].outbox) <= MaxBacklog
        <4>1. Cardinality({}) = 0 /\ 0 <= MaxInFlight /\ 0 <= MaxBacklog
          BY FS_EmptySet, ConstantFacts
        <4>2. /\ Fits(sessions'[new].tracker)
              /\ Cardinality(sessions'[new].sequencer.buffer) <= MaxInFlight
              /\ Len(sessions'[new].outbox) <= MaxBacklog
          BY <2>2, <2>3, <2>4, <4>1
        <4> QED BY <1>1, <2>4, <4>2 DEF Limits
      <3>2. greet' \cup gone' \subseteq DOMAIN sessions' /\ gone' \cap Live' = {}
        BY <1>1, <1>2, <1>5, <2>4, <2>5 DEF Limits, new
      <3>3. dropped' \subseteq (DOMAIN sessions') \X DownKeys
        BY <1>1, <1>2, <2>4 DEF Limits
      <3>4. link'.session \in 0..Len(sessions') /\ Len(sessions') <= LastSession /\ Fits(link'.tracker)
        BY <1>1, <1>2, <2>1, <2>4, <2>6 DEF Limits, new
      <3> QED BY <3>1, <3>2, <3>3, <3>4 DEF Limits
    <2>9. Joining'
      BY <1>1, <1>2 DEF Joining
    <2>10. \A n : Issued(n)' <=> Issued(n)
      BY <1>2 DEF Issued
    <2>11. Streaming'
      BY <1>1, <1>2, <2>3, <2>4, <2>5, <2>10 DEF Streaming
    <2>12. Upward'
      <3>1. \A s \in Live' : \A n : ~Seen(sessions'[s].tracker, Command(n))
        BY <2>2, <2>3, <2>4, <2>5 DEF Seen
      <3>2. link'.session \notin Live'
        BY <1>2, <2>4, <2>5
      <3> QED BY <1>1, <1>2, <1>3, <2>10, <3>1, <3>2 DEF Upward, SameMail
    <2>13. Downward'
      <3>1. \A s \in DOMAIN sessions' : \A n : Result(n) \in Range(sessions'[s].outbox) => <<s, n>> \in Range(log)
        BY <1>1, <2>3, <2>4 DEF Downward
      <3> QED BY <1>1, <1>2, <1>3, <2>10, <3>1 DEF Downward, SameMail
    <2>14. AckedCommandIsHeld'
      BY <1>2, <2>4, <2>5 DEF AckedCommandIsHeld, SessionUp
    <2>15. AnsweredOrCut'
      <3>1. \A entry \in Range(log') : entry[1] \notin Live'
        <4>1. \A i \in DOMAIN log : log[i][1] = link.session
          BY <1>1 DEF Streaming
        <4> QED BY <1>2, <2>4, <2>5, <4>1 DEF Range
      <3> QED BY <3>1 DEF AnsweredOrCut
    <2> QED BY <2>7, <2>8, <2>9, <2>11, <2>12, <2>13, <2>14, <2>15 DEF SessionInv
  <1> QED BY <1>2, <1>4, <1>5

--------------------------------------------------------------------------------
(* Commands on their way up *)

LEMMA SubmitStep ==
  ASSUME SessionInv, Submit
  PROVE  SessionInv'
  <1>1. Typed /\ Limits /\ Joining /\ Streaming /\ Upward /\ Downward /\ AckedCommandIsHeld /\ AnsweredOrCut
    BY InvFacts
  <1> DEFINE n == view.next
  <1>2. /\ link.state = "connected" /\ view.welcomed /\ n \in Commands
        /\ view' = [view EXCEPT !.next = view.next + 1, !.awaiting = view.awaiting \cup {view.next}]
        /\ UNCHANGED <<sessions, greet, gone, inbox, phase, log, dropped>>
        /\ \/ /\ MayTrack(link.tracker, Command(n))
              /\ link' = [link EXCEPT !.tracker = Track(link.tracker, {Command(n)})]
              /\ network' = network \cup {Message(link.session, Command(n))} /\ givenUp' = givenUp
           \/ givenUp' = givenUp \cup {n} /\ UNCHANGED <<link, network>>
    BY DEF Submit, ClientRuns, CreateCommand, SendToServer, Send, hostVars
  <1>3. n \in 1..LastCommand /\ n + 1 \in 1..(LastCommand + 1)
    BY <1>2, ConstantFacts DEF Commands
  <1>4. /\ view'.next = n + 1 /\ view'.awaiting = view.awaiting \cup {n} /\ view'.results = view.results
        /\ view'.welcomed = view.welcomed
        /\ view' \in [welcomed : BOOLEAN, faulted : BOOLEAN, next : 1..(LastCommand + 1),
                      awaiting : SUBSET Commands, results : SUBSET Commands]
    BY <1>1, <1>2, <1>3, LinkTyped
  <1>5. /\ link' \in [state : {"idle", "connecting", "connected", "closed"}, session : Nat,
                      tracker : Trackers(UpKeys, DownKeys)]
        /\ link'.session = link.session /\ link'.state = link.state
        /\ Fits(link'.tracker) /\ link'.tracker.received = link.tracker.received
        /\ Pending(link.tracker) \subseteq Pending(link'.tracker)
        /\ Command(n) \in Pending(link'.tracker) \/ n \in givenUp'
    <2>1. link.tracker \in Trackers(UpKeys, DownKeys) /\ Fits(link.tracker) /\ Command(n) \in UpKeys
      BY <1>1, <1>2, TypedFacts DEF Limits, UpKeys
    <2>2. CASE link' = link /\ givenUp' = givenUp \cup {n}
      BY <1>1, <2>1, <2>2, LinkTyped
    <2>3. CASE /\ MayTrack(link.tracker, Command(n))
               /\ link' = [link EXCEPT !.tracker = Track(link.tracker, {Command(n)})]
      <3> DEFINE u == Track(link.tracker, {Command(n)})
      <3>1. /\ u \in Trackers(UpKeys, DownKeys) /\ Pending(u) = Pending(link.tracker) \cup {Command(n)}
            /\ u.received = link.tracker.received
        BY <2>1, TrackFacts
      <3> HIDE DEF u
      <3>2. IsFiniteSet(Pending(link.tracker))
        BY <2>1, PendingTyped, KeysFinite, FS_Subset
      <3>3. Cardinality(Pending(link.tracker) \cup {Command(n)}) = Cardinality(Pending(link.tracker)) + 1
            /\ Cardinality(Pending(link.tracker)) \in Nat
        BY <2>3, <3>2, FS_AddElement, FS_CardinalityType DEF MayTrack
      <3>4. Cardinality(Pending(u)) <= MaxInFlight
        BY <2>3, <3>1, <3>3, ConstantFacts DEF MayTrack
      <3>5. Fits(u)
        BY <2>1, <3>1, <3>4 DEF Fits
      <3>6. link' = [link EXCEPT !.tracker = u]
        BY <2>3 DEF u
      <3> QED BY <1>1, <3>1, <3>5, <3>6, LinkTyped
    <2> QED BY <1>2, <2>2, <2>3
  <1>6. Live' = Live /\ \A k : (Issued(k)' <=> Issued(k) \/ k = n) /\ (Arrived(k)' <=> Arrived(k))
    <2>1. \A k : k \in 1..n <=> k \in 1..(n - 1) \/ k = n
      BY <1>3
    <2>2. (n + 1) - 1 = n
      BY <1>3
    <2> QED BY <1>2, <1>4, <1>5, <2>1, <2>2 DEF Live, Issued, Arrived
  <1>7. givenUp \subseteq givenUp' /\ givenUp' \subseteq Commands
    BY <1>1, <1>2 DEF Typed
  <1>8. /\ \A s, k : Message(s, Command(k)) \in network' =>
              Message(s, Command(k)) \in network \/ (s = link.session /\ k = n)
        /\ \A s, k : Ack(s, Command(k)) \in network' => Ack(s, Command(k)) \in network
        /\ \A s, k : Message(s, Result(k)) \in network' => Message(s, Result(k)) \in network
        /\ \A s, k : Ack(s, Result(k)) \in network' => Ack(s, Result(k)) \in network
    <2>1. network' = network \/ network' = network \cup {Message(link.session, Command(n))}
      BY <1>2
    <2> HIDE DEF n
    <2> QED BY <2>1, Names, Datagrammar
  <1> HIDE DEF n
  <1>9. Typed'
    BY <1>1, <1>2, <1>4, <1>5, <1>7 DEF Typed
  <1>10. Limits'
    BY <1>1, <1>2, <1>5, <1>6 DEF Limits
  <1>11. Joining'
    BY <1>1, <1>2, <1>4, <1>5 DEF Joining
  <1>12. Streaming'
    BY <1>1, <1>2, <1>5, <1>6 DEF Streaming
  <1>13. Upward'
    <2>1. \A s, k : Message(s, Command(k)) \in network' => s = link.session /\ Issued(k)'
      BY <1>1, <1>6, <1>8 DEF Upward
    <2>2. \A s, k : Ack(s, Command(k)) \in network' =>
            s = link.session /\ Issued(k)' /\ (s \in Live' => Arrived(k)')
      BY <1>1, <1>6, <1>8 DEF Upward
    <2>3. \A s \in Live' : \A k : Seen(sessions'[s].tracker, Command(k)) => s = link.session /\ Arrived(k)'
      BY <1>1, <1>2, <1>6 DEF Upward
    <2> QED BY <1>5, <2>1, <2>2, <2>3 DEF Upward
  <1>14. Downward'
    <2>1. link'.state = "connected" => \A k \in Commands : Issued(k)' => k \in view'.awaiting \cup view'.results
      BY <1>1, <1>4, <1>5, <1>6 DEF Downward
    <2>2. \A k : Seen(link'.tracker, Result(k)) => k \in view'.results
      BY <1>1, <1>4, <1>5 DEF Downward, Seen
    <2> QED BY <1>1, <1>2, <1>4, <1>5, <1>8, <2>1, <2>2 DEF Downward
  <1>15. AckedCommandIsHeld'
    <2>1. ASSUME SessionUp', NEW k \in 1..(view'.next - 1), k \notin givenUp',
                 Command(k) \notin Pending(link'.tracker)
          PROVE  Arrived(k)'
      <3>1. SessionUp /\ k # n
        BY <1>2, <1>5, <1>6, <2>1 DEF SessionUp
      <3>2. k \in 1..(view.next - 1)
        BY <1>6, <3>1, <2>1 DEF Issued
      <3> QED BY <1>1, <1>5, <1>6, <1>7, <2>1, <3>1, <3>2, AckedAs
    <2>2. AckedCommandIsHeld' <=>
            (SessionUp' => \A k \in 1..(view'.next - 1) :
               k \notin givenUp' /\ Command(k) \notin Pending(link'.tracker) => Arrived(k)')
      BY DEF AckedCommandIsHeld, Arrived, Pending
    <2> QED BY <2>1, <2>2
  <1>16. AnsweredOrCut'
    BY <1>1, <1>2, <1>4, <1>6 DEF AnsweredOrCut
  <1> QED BY <1>9, <1>10, <1>11, <1>12, <1>13, <1>14, <1>15, <1>16 DEF SessionInv

--------------------------------------------------------------------------------
(* Results on their way down *)

\* What the player's session makes of a message: a result is kept once and for all.
LEMMA ReceivedFacts ==
  ASSUME Typed, NEW key \in DownKeys,
         \A n : key = Result(n) => view.welcomed /\ n \in view.awaiting \cup view.results
  PROVE  /\ Received(view, key) \in [welcomed : BOOLEAN, faulted : BOOLEAN, next : 1..(LastCommand + 1),
                                     awaiting : SUBSET Commands, results : SUBSET Commands]
         /\ Received(view, key).next = view.next
         /\ view.welcomed => Received(view, key).welcomed
         /\ view.results \subseteq Received(view, key).results
         /\ view.awaiting \subseteq Received(view, key).awaiting \cup Received(view, key).results
         /\ \A n : n \in Received(view, key).results => n \in view.results \/ key = Result(n)
         /\ \A n : key = Result(n) => n \in Received(view, key).results
  <1>1. view \in [welcomed : BOOLEAN, faulted : BOOLEAN, next : 1..(LastCommand + 1),
                  awaiting : SUBSET Commands, results : SUBSET Commands]
    BY LinkTyped
  <1>3. ASSUME NEW n \in Commands, key = Result(n)
        PROVE  /\ Received(view, key) \in [welcomed : BOOLEAN, faulted : BOOLEAN, next : 1..(LastCommand + 1),
                                           awaiting : SUBSET Commands, results : SUBSET Commands]
               /\ Received(view, key).next = view.next
               /\ view.welcomed => Received(view, key).welcomed
               /\ view.results \subseteq Received(view, key).results
               /\ view.awaiting \subseteq Received(view, key).awaiting \cup Received(view, key).results
               /\ \A m : m \in Received(view, key).results => m \in view.results \/ m = n
               /\ n \in Received(view, key).results
    <2>1. view.welcomed /\ n \in view.awaiting \cup view.results /\ key # Welcome /\ key[2] = n
      BY <1>3, Names DEF Result
    <2>2. Received(view, key) = TakeResult(view, n)
      BY <2>1 DEF Received
    <2>3. CASE n \in view.awaiting
      <3>1. Received(view, key) = [view EXCEPT !.awaiting = view.awaiting \ {n},
                                               !.results = view.results \cup {n}]
        BY <2>2, <2>3 DEF TakeResult
      <3> QED BY <1>1, <3>1
    <2>4. CASE n \notin view.awaiting
      <3>1. Received(view, key) = [view EXCEPT !.faulted = TRUE]
        BY <2>2, <2>4 DEF TakeResult
      <3> QED BY <1>1, <2>1, <2>4, <3>1
    <2> QED BY <2>3, <2>4
  <1>4. key = Welcome \/ \E n \in Commands : key = Result(n)
    BY DEF DownKeys
  <1>5. \A m, n : Result(m) = Result(n) => m = n
    BY Names
  <1>6. CASE \E n \in Commands : key = Result(n)
    <2>1. PICK n \in Commands : key = Result(n)
      BY <1>6
    <2>2. \A m : key = Result(m) <=> m = n
      BY <1>5, <2>1
    <2> QED BY <1>3, <2>1, <2>2
  <1>7. CASE key = Welcome
    <2>1. \A n : key # Result(n)
      BY <1>7, Names
    <2>2. Received(view, key) = [view EXCEPT !.welcomed = TRUE]
          \/ Received(view, key) = [view EXCEPT !.faulted = TRUE]
      BY <1>1, <1>7 DEF Received, Greet
    <2> QED BY <1>1, <2>1, <2>2
  <1> QED BY <1>4, <1>6, <1>7

LEMMA MessageStep ==
  ASSUME SessionInv, NEW key \in DownKeys, TakeMessage(key)
  PROVE  SessionInv'
  <1>1. Typed /\ Limits /\ Joining /\ Streaming /\ Upward /\ Downward /\ AckedCommandIsHeld /\ AnsweredOrCut
    BY InvFacts
  <1>2. /\ link.state = "connected" /\ Message(link.session, key) \in network
        /\ network' = network \cup {Ack(link.session, key)}
        /\ IF Seen(link.tracker, key) THEN UNCHANGED <<link, view>>
           ELSE /\ link' = [link EXCEPT !.tracker = Remember(link.tracker, key)]
                /\ view' = Received(view, key)
        /\ UNCHANGED <<sessions, greet, gone, inbox, phase, log, givenUp, dropped>>
    BY DEF TakeMessage, ClientRuns, Send, clientVars, hostVars, history
  <1>3. ASSUME NEW n, key = Result(n)
        PROVE  /\ view.welcomed /\ n \in view.awaiting \cup view.results /\ n \in DOMAIN log
    <2>1. <<link.session, n>> \in Range(log)
      BY <1>1, <1>2, <1>3 DEF Downward
    <2>2. PICK i \in DOMAIN log : log[i] = <<link.session, n>>
      BY <2>1 DEF Range
    <2>3. n = i /\ Issued(n) /\ n \in Commands
      <3>1. log[i] = <<link.session, i>> /\ Issued(i)
        BY <1>1 DEF Streaming
      <3>2. log[i] \in Nat \X Commands
        BY <1>1 DEF Typed
      <3> QED BY <2>2, <3>1, <3>2
    <2>4. view.next # 1
      BY <2>3 DEF Issued
    <2> QED BY <1>1, <1>2, <2>2, <2>3, <2>4 DEF Downward, Joining
  <1>4. /\ view' \in [welcomed : BOOLEAN, faulted : BOOLEAN, next : 1..(LastCommand + 1),
                      awaiting : SUBSET Commands, results : SUBSET Commands]
        /\ view'.next = view.next /\ (view.welcomed => view'.welcomed)
        /\ view.results \subseteq view'.results
        /\ view.awaiting \subseteq view'.awaiting \cup view'.results
        /\ \A n : n \in view'.results => n \in view.results \/ key = Result(n)
        /\ \A n : key = Result(n) => n \in view'.results
    <2>1. CASE Seen(link.tracker, key)
      BY <1>1, <1>2, <2>1, LinkTyped DEF Downward
    <2>2. CASE ~Seen(link.tracker, key)
      <3>1. view' = Received(view, key)
        BY <1>2, <2>2
      <3> QED BY <1>1, <1>3, <3>1, ReceivedFacts
    <2> QED BY <2>1, <2>2
  <1>5. /\ link' \in [state : {"idle", "connecting", "connected", "closed"}, session : Nat,
                      tracker : Trackers(UpKeys, DownKeys)]
        /\ link'.session = link.session /\ link'.state = link.state
        /\ Fits(link'.tracker) /\ Pending(link'.tracker) = Pending(link.tracker)
        /\ Range(link'.tracker.received) \subseteq Range(link.tracker.received) \cup {key}
    <2>1. link.tracker \in Trackers(UpKeys, DownKeys) /\ Fits(link.tracker)
      BY <1>1, TypedFacts DEF Limits
    <2>2. CASE Seen(link.tracker, key)
      BY <1>1, <1>2, <2>1, <2>2, LinkTyped
    <2>3. CASE ~Seen(link.tracker, key)
      <3> DEFINE u == Remember(link.tracker, key)
      <3>1. /\ u \in Trackers(UpKeys, DownKeys) /\ Pending(u) = Pending(link.tracker) /\ Fits(u)
            /\ Range(u.received) \subseteq Range(link.tracker.received) \cup {key}
        <4>1. /\ Remember(link.tracker, key) \in Trackers(UpKeys, DownKeys)
              /\ Pending(Remember(link.tracker, key)) = Pending(link.tracker)
              /\ Range(Remember(link.tracker, key).received) \subseteq Range(link.tracker.received) \cup {key}
              /\ Fits(link.tracker) => Fits(Remember(link.tracker, key))
          <5>1. key \in DownKeys
            OBVIOUS
          <5> QED BY <2>1, <5>1, RememberFacts, Zenon
        <4> QED BY <2>1, <4>1
      <3> HIDE DEF u
      <3>2. link' = [link EXCEPT !.tracker = u]
        BY <1>2, <2>3 DEF u
      <3> QED BY <1>1, <3>1, <3>2, LinkTyped
    <2> QED BY <2>2, <2>3
  <1>6. Live' = Live /\ \A k : (Issued(k)' <=> Issued(k)) /\ (Arrived(k)' <=> Arrived(k))
    BY <1>2, <1>4, <1>5 DEF Live, Issued, Arrived
  <1>7. /\ \A s, k : Message(s, Command(k)) \in network' => Message(s, Command(k)) \in network
        /\ \A s, k : Ack(s, Command(k)) \in network' => Ack(s, Command(k)) \in network
        /\ \A s, k : Message(s, Result(k)) \in network' => Message(s, Result(k)) \in network
        /\ \A s, k : Ack(s, Result(k)) \in network' => Ack(s, Result(k)) \in network \/ key = Result(k)
    <2>1. \A k : key # Command(k)
      BY Names DEF DownKeys
    <2> QED BY <1>2, <2>1, Datagrammar
  <1>8. Typed'
    BY <1>1, <1>2, <1>4, <1>5 DEF Typed
  <1>9. Limits'
    BY <1>1, <1>2, <1>5, <1>6 DEF Limits
  <1>10. Joining'
    BY <1>1, <1>2, <1>4, <1>5 DEF Joining
  <1>11. Streaming'
    BY <1>1, <1>2, <1>5, <1>6 DEF Streaming
  <1>12. Upward'
    BY <1>1, <1>2, <1>5, <1>6, <1>7 DEF Upward
  <1>13. Downward'
    <2>1. \A n \in view'.results : n \in DOMAIN log'
      BY <1>1, <1>2, <1>3, <1>4 DEF Downward
    <2>2. \A n : Seen(link'.tracker, Result(n)) => n \in view'.results
      BY <1>1, <1>4, <1>5 DEF Downward, Seen
    <2>3. link'.state = "connected" => \A k \in Commands : Issued(k)' => k \in view'.awaiting \cup view'.results
      BY <1>1, <1>4, <1>5, <1>6 DEF Downward
    <2>4. \A s, n : Ack(s, Result(n)) \in network' => n \in view'.results
      BY <1>1, <1>4, <1>7 DEF Downward
    <2>5. /\ \A s, n : Message(s, Result(n)) \in network' => <<s, n>> \in Range(log')
          /\ \A s \in DOMAIN sessions' : \A n : Result(n) \in Range(sessions'[s].outbox) => <<s, n>> \in Range(log')
      BY <1>1, <1>2, <1>7 DEF Downward
    <2> QED BY <2>1, <2>2, <2>3, <2>4, <2>5 DEF Downward
  <1>14. AckedCommandIsHeld'
    <2>1. SessionUp' <=> SessionUp
      BY <1>5, <1>6 DEF SessionUp
    <2>2. AckedCommandIsHeld' <=>
            (SessionUp' => \A k \in 1..(view'.next - 1) :
               k \notin givenUp' /\ Command(k) \notin Pending(link'.tracker) => Arrived(k)')
      BY DEF AckedCommandIsHeld, Arrived, Pending
    <2> QED BY <1>1, <1>2, <1>4, <1>5, <1>6, <2>1, <2>2, AckedAs
  <1>15. AnsweredOrCut'
    BY <1>1, <1>2, <1>4, <1>6 DEF AnsweredOrCut
  <1> QED BY <1>8, <1>9, <1>10, <1>11, <1>12, <1>13, <1>14, <1>15 DEF SessionInv

--------------------------------------------------------------------------------
(* The sequencer *)

LEMMA Smallest ==
  ASSUME NEW S \in SUBSET Nat, S # {}
  PROVE  \E x \in S : \A y \in S : x <= y
  <1> DEFINE below == {ss \in Nat \X Nat : ss[1] < ss[2]}
  <1>1. IsWellFoundedOn(below, Nat)
    BY NatLessThanWellFounded DEF OpToRel
  <1> HIDE DEF below
  <1>2. PICK x \in S : \A y \in S : ~(<<y, x>> \in below)
    BY <1>1, WFMin
  <1>3. \A y \in S : ~(y < x)
    BY <1>2 DEF below
  <1>4. x \in Nat /\ \A y \in S : y \in Nat
    OBVIOUS
  <1> QED BY <1>3, <1>4

\* The first missing number exists: as many numbers as are held cannot fill a longer range.
LEMMA GapFacts ==
  ASSUME NEW q \in Sequencers, NEW n \in Commands
  PROVE  /\ Gap(q, n) \in Nat /\ q.next <= Gap(q, n) /\ Gap(q, n) \notin Held(q, n)
         /\ \A k \in Nat : q.next <= k /\ k < Gap(q, n) => k \in Held(q, n)
  <1> DEFINE h == Held(q, n)
             d == Cardinality(h)
             S == (q.next .. q.next + d) \ h
  <1>1. q.next \in Nat /\ q.buffer \subseteq Commands
    BY DEF Sequencers
  <1>2. h \subseteq Commands
    BY <1>1 DEF Held
  <1> HIDE DEF h
  <1>3. IsFiniteSet(h) /\ d \in Nat
    BY <1>2, KeysFinite, FS_Subset, FS_CardinalityType
  <1>4. S # {}
    <2>1. SUFFICES ASSUME q.next .. q.next + d \subseteq h PROVE FALSE
      OBVIOUS
    <2>2. Cardinality(q.next .. q.next + d) = d + 1
      <3> DEFINE top == q.next + d
                 first == q.next
      <3> HIDE DEF d
      <3>1. top \in Int /\ first \in Int /\ ~(first > top) /\ top - first + 1 = d + 1
        BY <1>1, <1>3
      <3> HIDE DEF top, first
      <3>2. Cardinality(first .. top) = IF first > top THEN 0 ELSE top - first + 1
        BY <3>1, FS_Interval
      <3>3. Cardinality(first .. top) = d + 1
        BY <3>1, <3>2
      <3> QED BY <3>3 DEF top, first
    <2>3. Cardinality(q.next .. q.next + d) <= d
      BY <1>3, <2>1, FS_Subset
    <2> HIDE DEF d
    <2> QED BY <1>3, <2>2, <2>3
  <1>5. S \in SUBSET Nat
    <2> HIDE DEF d
    <2> QED BY <1>1, <1>3
  <1>6. PICK g \in S : \A y \in S : g <= y
    BY <1>4, <1>5, Smallest
  <1> HIDE DEF d
  <1>7. g \in q.next .. q.next + d /\ g \in Nat /\ q.next <= g /\ g \notin h
    BY <1>1, <1>3, <1>6
  <1>8. q.next .. (g - 1) \subseteq h
    <2>1. SUFFICES ASSUME NEW k \in q.next .. (g - 1), k \notin h PROVE FALSE
      OBVIOUS
    <2>2. k \in q.next .. q.next + d /\ k < g
      BY <1>1, <1>3, <1>7
    <2>3. g <= k
      BY <1>6, <2>1, <2>2
    <2> QED BY <1>1, <1>7, <2>2, <2>3
  <1>9. Gap(q, n) = CHOOSE k \in q.next .. q.next + d : k \notin h /\ q.next .. (k - 1) \subseteq h
    BY DEF Gap, h, d
  <1>10. /\ Gap(q, n) \in q.next .. q.next + d /\ Gap(q, n) \notin h
         /\ q.next .. (Gap(q, n) - 1) \subseteq h
    BY <1>7, <1>8, <1>9
  <1>11. Gap(q, n) \in Nat /\ q.next <= Gap(q, n)
    BY <1>1, <1>3, <1>10
  <1>12. \A k \in Nat : q.next <= k /\ k < Gap(q, n) => k \in q.next .. (Gap(q, n) - 1)
    BY <1>1, <1>11
  <1> QED BY <1>10, <1>11, <1>12 DEF h

\* What the sequencer makes of a command: it releases up to the gap, keeps what is
\* beyond it and nothing else.
LEMMA AcceptedFacts ==
  ASSUME NEW q \in Sequencers, NEW n \in Commands, Preflight(q, n),
         Cardinality(q.buffer) <= MaxInFlight, \A k \in q.buffer : q.next < k
  PROVE  /\ Accepted(q, n) \in Sequencers
         /\ Accepted(q, n).next = Gap(q, n) /\ Gap(q, n) \in Nat /\ q.next <= Gap(q, n)
         /\ Cardinality(Accepted(q, n).buffer) <= MaxInFlight
         /\ \A k \in Accepted(q, n).buffer : Gap(q, n) < k /\ (k \in q.buffer \/ k = n)
         /\ \A k \in Nat : q.next <= k /\ k < Gap(q, n) => k \in Commands /\ (k \in q.buffer \/ k = n)
         /\ \A k : k \in q.buffer \/ (k = n /\ q.next <= n)
                     => (k < Gap(q, n) /\ q.next <= k /\ k \in Nat) \/ k \in Accepted(q, n).buffer
  <1> DEFINE g == Gap(q, n)
             rest == {k \in Held(q, n) : k >= g}
  <1>1. /\ g \in Nat /\ q.next <= g /\ g \notin Held(q, n)
        /\ \A k \in Nat : q.next <= k /\ k < g => k \in Held(q, n)
    BY GapFacts
  <1>2. /\ q.next \in Nat \ {0} /\ q.buffer \subseteq Commands /\ Commands \subseteq Nat
        /\ Accepted(q, n) = [next |-> g, buffer |-> rest]
    BY DEF Sequencers, Accepted, Commands
  <1> HIDE DEF g
  <1>3. \A k : k \in Held(q, n) <=> k \in q.buffer \/ (k = n /\ ~(n < q.next))
    BY DEF Held
  <1>4. Held(q, n) \subseteq Commands /\ n \in Nat
    BY <1>2, <1>3
  <1>5. rest \subseteq Commands /\ \A k \in rest : g < k
    <2>1. \A k \in rest : k \in Held(q, n) /\ k >= g /\ k \in Commands /\ k # g
      BY <1>1, <1>4
    <2> HIDE DEF rest
    <2>2. ASSUME NEW k \in rest PROVE k \in Commands /\ g < k
      <3>1. k \in Nat /\ k >= g /\ k # g /\ k \in Commands
        BY <1>2, <2>1
      <3> QED BY <1>1, <3>1
    <2> QED BY <2>2
  <1>6. Cardinality(rest) <= MaxInFlight
    <2>1. IsFiniteSet(q.buffer)
      BY <1>2, KeysFinite, FS_Subset
    <2>2. Cardinality(q.buffer) \in Nat
      BY <2>1, FS_CardinalityType
    <2>3. CASE n <= q.next \/ n \in q.buffer
      <3>1. rest \subseteq q.buffer
        <4>1. SUFFICES ASSUME NEW k \in rest, k \notin q.buffer PROVE FALSE
          OBVIOUS
        <4>2. k = n /\ ~(n < q.next) /\ g < k /\ n \in Held(q, n)
          BY <1>3, <1>5, <4>1
        <4>3. n = q.next
          BY <1>2, <1>4, <2>3, <4>1, <4>2
        <4> QED BY <1>1, <1>2, <1>4, <4>2, <4>3
      <3> HIDE DEF rest
      <3>2. Cardinality(rest) <= Cardinality(q.buffer) /\ IsFiniteSet(rest)
        BY <2>1, <3>1, FS_Subset
      <3>3. Cardinality(rest) \in Nat
        BY <3>2, FS_CardinalityType
      <3> QED BY <2>2, <3>2, <3>3, ConstantFacts
    <2>4. CASE ~(n <= q.next \/ n \in q.buffer)
      <3>1. Cardinality(q.buffer) < MaxInFlight
        BY <2>4 DEF Preflight
      <3>2. rest \subseteq q.buffer \cup {n}
        BY <1>3
      <3> HIDE DEF rest
      <3>3. IsFiniteSet(q.buffer \cup {n}) /\ Cardinality(q.buffer \cup {n}) = Cardinality(q.buffer) + 1
        BY <2>1, <2>4, FS_AddElement
      <3>4. Cardinality(rest) <= Cardinality(q.buffer \cup {n}) /\ IsFiniteSet(rest)
        BY <3>2, <3>3, FS_Subset
      <3>5. Cardinality(rest) \in Nat
        BY <3>4, FS_CardinalityType
      <3> QED BY <2>2, <3>1, <3>3, <3>4, <3>5, ConstantFacts
    <2> QED BY <2>3, <2>4
  <1>7. \A k : k \in q.buffer \/ (k = n /\ q.next <= n) => (k < g /\ q.next <= k /\ k \in Nat) \/ k \in rest
    <2>1. SUFFICES ASSUME NEW k, k \in q.buffer \/ (k = n /\ q.next <= n)
                   PROVE  (k < g /\ q.next <= k /\ k \in Nat) \/ k \in rest
      OBVIOUS
    <2>2. k \in Nat /\ q.next <= k /\ k \in Held(q, n)
      <3>1. CASE k \in q.buffer
        <4>1. q.next < k /\ k \in Nat /\ k \in Held(q, n)
          BY <1>2, <1>3, <3>1
        <4> QED BY <1>2, <4>1
      <3>2. CASE k = n /\ q.next <= n
        <4>1. ~(n < q.next)
          BY <1>2, <1>4, <3>2
        <4> QED BY <1>3, <1>4, <3>2, <4>1
      <3> QED BY <2>1, <3>1, <3>2
    <2> QED BY <1>1, <2>2
  <1>8. Accepted(q, n) \in Sequencers
    <2>1. g \in Nat \ {0}
      BY <1>1, <1>2
    <2> HIDE DEF rest
    <2> QED BY <1>2, <1>5, <2>1 DEF Sequencers
  <1>9. /\ \A k \in rest : k \in q.buffer \/ k = n
        /\ \A k \in Nat : q.next <= k /\ k < g => k \in Commands /\ (k \in q.buffer \/ k = n)
    BY <1>1, <1>3, <1>4
  <1> HIDE DEF rest
  <1>10. Accepted(q, n).next = g /\ Accepted(q, n).buffer = rest
    BY <1>2
  <1> QED BY <1>1, <1>5, <1>6, <1>7, <1>8, <1>9, <1>10 DEF g

LEMMA Joined ==
  ASSUME NEW T, NEW b \in Seq(T), NEW r \in Seq(T)
  PROVE  /\ b \o r \in Seq(T) /\ Len(b \o r) = Len(b) + Len(r)
         /\ \A i \in 1..Len(b) : (b \o r)[i] = b[i]
         /\ \A i \in Len(b) + 1 .. Len(b) + Len(r) : (b \o r)[i] = r[i - Len(b)]
  OBVIOUS

\* Numbered pairs put after a sequence of pairs.
LEMMA Numbered ==
  ASSUME NEW b \in Seq(Nat \X Commands), NEW s \in Nat, NEW next \in Nat, NEW g \in Nat, next <= g,
         \A k \in Nat : next <= k /\ k < g => k \in Commands
  PROVE  LET r == [i \in 1 .. g - next |-> <<s, next + i - 1>>]
         IN  /\ b \o r \in Seq(Nat \X Commands) /\ Len(b \o r) = Len(b) + (g - next)
             /\ DOMAIN (b \o r) = 1 .. Len(b) + (g - next)
             /\ \A i \in 1..Len(b) : (b \o r)[i] = b[i]
             /\ \A i \in Len(b) + 1 .. Len(b) + (g - next) :
                  (b \o r)[i] = <<s, next + (i - Len(b)) - 1>>
  <1> DEFINE d == g - next
             r == [i \in 1 .. d |-> <<s, next + i - 1>>]
  <1>1. d \in Nat /\ Len(b) \in Nat
    OBVIOUS
  <1>2. \A i \in 1 .. d : next + i - 1 \in Commands
    <2>1. \A i \in 1 .. d : next + i - 1 \in Nat /\ next <= next + i - 1 /\ next + i - 1 < g
      OBVIOUS
    <2> QED BY <2>1
  <1> HIDE DEF d
  <1>3. \A i \in 1 .. d : <<s, next + i - 1>> \in Nat \X Commands
    BY <1>2
  <1> DEFINE T == Nat \X Commands
  <1>4. r \in Seq(T) /\ Len(r) = d /\ b \in Seq(T)
    <2> SUFFICES r \in Seq(T) /\ Len(r) = d
      OBVIOUS
    <2>1. \A i \in 1 .. d : <<s, next + i - 1>> \in T
      BY <1>3
    <2> HIDE DEF T
    <2>2. r \in [1 .. d -> T]
      BY <2>1
    <2> HIDE DEF r
    <2> QED BY <1>1, <2>2
  <1> HIDE DEF T
  <1>5. \A i \in 1 .. d : r[i] = <<s, next + i - 1>>
    OBVIOUS
  <1> HIDE DEF r
  <1>6. b \o r \in Seq(T) /\ Len(b \o r) = Len(b) + d
    BY <1>4, Joined
  <1>11. DOMAIN (b \o r) = 1 .. Len(b) + d
    BY <1>6
  <1>7. \A i \in 1..Len(b) : (b \o r)[i] = b[i]
    BY <1>1, <1>4
  <1>8. \A i \in Len(b) + 1 .. Len(b) + d : (b \o r)[i] = r[i - Len(b)]
    BY <1>1, <1>4
  <1>9. \A i \in Len(b) + 1 .. Len(b) + d : i - Len(b) \in 1 .. d
    BY <1>1
  <1>10. \A i \in Len(b) + 1 .. Len(b) + d : (b \o r)[i] = <<s, next + (i - Len(b)) - 1>>
    BY <1>5, <1>8, <1>9
  <1> QED BY <1>6, <1>7, <1>10, <1>11 DEF r, d, T

\* A command taken from the network: what the sequencer releases goes on where the
\* inbox ends, and what it does not release it holds.
LEMMA CommandTaken ==
  ASSUME SessionInv, NEW s \in Live, NEW n \in Commands, TakeCommand(s, n)
  PROVE  SessionInv'
  <1>1. Typed /\ Limits /\ Joining /\ Streaming /\ Upward /\ Downward /\ AckedCommandIsHeld /\ AnsweredOrCut
    BY InvFacts
  <1> DEFINE q == sessions[s].sequencer
             next == q.next
             g == Gap(q, n)
  <1>2. /\ Message(s, Command(n)) \in network /\ Preflight(q, n)
        /\ network' = network \cup {Ack(s, Command(n))}
        /\ UNCHANGED <<link, view, greet, gone, phase, log, givenUp, dropped>>
        /\ IF Seen(sessions[s].tracker, Command(n)) THEN UNCHANGED <<sessions, inbox>>
           ELSE /\ sessions' = [sessions EXCEPT ![s].tracker = Remember(@, Command(n)),
                                                ![s].sequencer = Accepted(@, n)]
                /\ inbox' = inbox \o [i \in DOMAIN Released(sessions[s].sequencer, n) |->
                                        <<s, Released(sessions[s].sequencer, n)[i]>>]
    BY DEF TakeCommand, Send, clientVars, history
  <1>3. s = link.session /\ Issued(n) /\ s \in DOMAIN sessions /\ s \in Nat
    BY <1>1, <1>2, TypedFacts DEF Upward
  <1>4. sessions[s] \in Sessions /\ sessions[s].tracker \in Trackers(DownKeys, UpKeys)
        /\ q \in Sequencers /\ sessions[s].connected /\ Command(n) \in UpKeys
    BY <1>1, <1>3, TypedFacts DEF Live, UpKeys
  <1>5. /\ Cardinality(q.buffer) <= MaxInFlight /\ Fits(sessions[s].tracker)
        /\ \A i \in DOMAIN inbox : inbox[i][2] = Len(log) + i
        /\ q.next = Len(log) + Len(inbox) + 1
        /\ \A k \in q.buffer : q.next < k /\ Issued(k)
    BY <1>1, <1>3 DEF Limits, Streaming
  <1>6. /\ \A r, k : Message(r, Command(k)) \in network' => Message(r, Command(k)) \in network
        /\ \A r, k : Ack(r, Command(k)) \in network' => Ack(r, Command(k)) \in network \/ (r = s /\ k = n)
        /\ \A r, k : Message(r, Result(k)) \in network' => Message(r, Result(k)) \in network
        /\ \A r, k : Ack(r, Result(k)) \in network' => Ack(r, Result(k)) \in network
    BY <1>2, Names, Datagrammar
  <1>7. CASE Seen(sessions[s].tracker, Command(n))
    <2>1. UNCHANGED <<sessions, inbox>>
      BY <1>2, <1>7
    <2>2. Live' = Live /\ \A k : (Issued(k)' <=> Issued(k)) /\ (Arrived(k)' <=> Arrived(k))
      BY <1>2, <2>1 DEF Live, Issued, Arrived
    <2>3. Arrived(n)
      BY <1>1, <1>7 DEF Upward
    <2>4. Typed' /\ Limits' /\ Joining' /\ Streaming'
      BY <1>1, <1>2, <2>1, <2>2 DEF Typed, Limits, Joining, Streaming
    <2>5. Upward'
      BY <1>1, <1>2, <1>3, <1>6, <2>1, <2>2, <2>3 DEF Upward
    <2>6. Downward'
      BY <1>1, <1>2, <1>6, <2>1, <2>2 DEF Downward
    <2>7. AckedCommandIsHeld' /\ AnsweredOrCut'
      BY <1>1, <1>2, <2>1, <2>2 DEF AckedCommandIsHeld, AnsweredOrCut, SessionUp
    <2> QED BY <2>4, <2>5, <2>6, <2>7 DEF SessionInv
  <1>8. CASE ~Seen(sessions[s].tracker, Command(n))
    <2> DEFINE a == Accepted(q, n)
               u == Remember(sessions[s].tracker, Command(n))
               x == [sessions[s] EXCEPT !.tracker = u, !.sequencer = a]
               m == Len(inbox)
    <2>1. /\ a \in Sequencers /\ a.next = g /\ g \in Nat /\ next <= g
          /\ Cardinality(a.buffer) <= MaxInFlight
          /\ \A k \in a.buffer : g < k /\ (k \in q.buffer \/ k = n)
          /\ \A k \in Nat : next <= k /\ k < g => k \in Commands /\ (k \in q.buffer \/ k = n)
          /\ \A k : k \in q.buffer \/ (k = n /\ next <= n)
                      => (k < g /\ next <= k /\ k \in Nat) \/ k \in a.buffer
      BY <1>2, <1>4, <1>5, AcceptedFacts
    <2>2. /\ u \in Trackers(DownKeys, UpKeys) /\ Pending(u) = Pending(sessions[s].tracker) /\ Fits(u)
          /\ Range(u.received) \subseteq Range(sessions[s].tracker.received) \cup {Command(n)}
      <3>1. /\ Remember(sessions[s].tracker, Command(n)) \in Trackers(DownKeys, UpKeys)
            /\ Pending(Remember(sessions[s].tracker, Command(n))) = Pending(sessions[s].tracker)
            /\ Range(Remember(sessions[s].tracker, Command(n)).received)
                 \subseteq Range(sessions[s].tracker.received) \cup {Command(n)}
            /\ Fits(sessions[s].tracker) => Fits(Remember(sessions[s].tracker, Command(n)))
        <4>1. sessions[s].tracker \in Trackers(DownKeys, UpKeys) /\ Command(n) \in UpKeys
          BY <1>4
        <4> HIDE DEF q, next, g, a, u, x, m
        <4>2. ASSUME NEW t \in Trackers(DownKeys, UpKeys), NEW key \in UpKeys
              PROVE  /\ Remember(t, key) \in Trackers(DownKeys, UpKeys)
                     /\ Pending(Remember(t, key)) = Pending(t)
                     /\ Range(Remember(t, key).received) \subseteq Range(t.received) \cup {key}
                     /\ Fits(t) => Fits(Remember(t, key))
          BY RememberFacts, Zenon
        <4> QED BY <4>1, <4>2, Zenon
      <3> QED BY <1>5, <3>1
    <2>3. inbox \in Seq(Nat \X Commands) /\ next \in Nat /\ log \in Seq(Nat \X Commands)
          /\ m \in Nat /\ Len(log) \in Nat
      BY <1>1, <1>4 DEF Typed, Sequencers
    <2>4. sessions' = [sessions EXCEPT ![s] = x]
      BY <1>2, <1>8
    <2>5. inbox' = inbox \o [i \in 1 .. g - next |-> <<s, next + i - 1>>]
      <3>1. DOMAIN Released(q, n) = 1 .. g - next
            /\ \A i \in 1 .. g - next : Released(q, n)[i] = next + i - 1
        BY DEF Released
      <3>2. [i \in DOMAIN Released(q, n) |-> <<s, Released(q, n)[i]>>]
              = [i \in 1 .. g - next |-> <<s, next + i - 1>>]
        BY <3>1
      <3> QED BY <1>2, <1>8, <3>2
    <2>6. /\ x \in Sessions /\ x.connected /\ x.tracker = u /\ x.sequencer = a
          /\ x.outbox = sessions[s].outbox
      BY <1>4, <2>1, <2>2 DEF Sessions
    <2> HIDE DEF a, u, x
    <2>7. /\ sessions' \in Seq(Sessions) /\ Len(sessions') = Len(sessions)
          /\ DOMAIN sessions' = DOMAIN sessions /\ sessions'[s] = x
          /\ \A r \in DOMAIN sessions : r # s => sessions'[r] = sessions[r]
      BY <1>1, <1>3, <2>4, <2>6, SessionReplaced
    <2> HIDE DEF q, next, g
    <2>8. /\ inbox' \in Seq(Nat \X Commands) /\ Len(inbox') = m + (g - next)
          /\ DOMAIN inbox' = 1 .. m + (g - next)
          /\ \A i \in 1 .. m : inbox'[i] = inbox[i]
          /\ \A i \in m + 1 .. m + (g - next) : inbox'[i] = <<s, next + (i - m) - 1>>
      BY <1>3, <2>1, <2>3, <2>5, Numbered
    <2>9. next = Len(log) + m + 1
      BY <1>5 DEF q, next
    <2> HIDE DEF m
    <2>10. /\ \A i \in DOMAIN inbox' : i \in DOMAIN inbox \/ i \in m + 1 .. m + (g - next)
           /\ DOMAIN inbox = 1 .. m /\ DOMAIN inbox \subseteq DOMAIN inbox'
      BY <2>1, <2>3, <2>8 DEF m
    <2>11. \A i \in m + 1 .. m + (g - next) :
             /\ inbox'[i] = <<s, Len(log) + i>>
             /\ Len(log) + i \in Nat /\ next <= Len(log) + i /\ Len(log) + i < g
      BY <2>1, <2>3, <2>8, <2>9
    <2>12. Live' = Live /\ \A k : Issued(k)' <=> Issued(k)
      BY <1>2, <1>3, <1>4, <2>6, <2>7 DEF Live, Issued
    <2>13. /\ \A r \in DOMAIN log : r \in Nat /\ r >= 1 /\ r <= Len(log)
           /\ \A k \in Nat : k >= 1 /\ k <= Len(log) => k \in DOMAIN log
      BY <2>3
    <2>14. \A k \in Nat : k >= 1 /\ k < g => <<s, k>> \in Range(log) \cup Range(inbox')
      <3>1. SUFFICES ASSUME NEW k \in Nat, k >= 1, k < g
                     PROVE  <<s, k>> \in Range(log) \cup Range(inbox')
        OBVIOUS
      <3>2. CASE k <= Len(log)
        BY <1>1, <1>3, <2>13, <3>1, <3>2 DEF Streaming, Range
      <3>3. CASE k > Len(log)
        <4> DEFINE i == k - Len(log)
        <4>1. i \in 1 .. m + (g - next) /\ Len(log) + i = k
          BY <2>1, <2>3, <2>9, <3>1, <3>3
        <4> HIDE DEF i
        <4>2. CASE i \in 1 .. m
          <5>1. inbox'[i] = inbox[i] /\ inbox[i][2] = k /\ inbox[i][1] = s
            BY <1>1, <1>3, <1>5, <2>8, <2>10, <4>1, <4>2 DEF Streaming
          <5>2. inbox[i] \in Nat \X Commands
            BY <2>3, <2>10, <4>2
          <5>3. inbox'[i] = <<s, k>>
            BY <5>1, <5>2
          <5> QED BY <2>8, <4>1, <5>3 DEF Range
        <4>3. CASE i \notin 1 .. m
          <5>1. i \in m + 1 .. m + (g - next)
            BY <2>1, <2>3, <4>1, <4>3
          <5> QED BY <2>8, <2>11, <4>1, <5>1 DEF Range
        <4> QED BY <4>2, <4>3
      <3> QED BY <2>3, <3>2, <3>3
    <2>15. /\ Range(inbox) \subseteq Range(inbox')
      BY <2>8, <2>10 DEF Range
    <2>16. \A k : Arrived(k) => Arrived(k)'
      <3>1. SUFFICES ASSUME NEW k, k \in q.buffer PROVE Arrived(k)'
        BY <1>2, <1>3, <2>15 DEF Arrived, q
      <3>2. q.buffer \subseteq Commands /\ Commands \subseteq Nat \ {0}
        BY <1>4 DEF Sequencers, Commands, q
      <3>3. (k < g /\ k \in Nat) \/ k \in a.buffer
        BY <2>1, <3>1 DEF q
      <3>4. k \in Nat /\ k >= 1
        <4>1. k \in Nat \ {0}
          BY <3>1, <3>2
        <4> QED BY <4>1
      <3> QED BY <1>2, <1>3, <2>6, <2>7, <2>14, <3>3, <3>4 DEF Arrived
    <2>17. Arrived(n)'
      <3>1. n \in Nat /\ n >= 1
        BY DEF Commands
      <3>2. CASE n < next
        <4>1. n < g
          BY <2>1, <2>3, <3>1, <3>2
        <4> QED BY <1>2, <1>3, <2>14, <3>1, <4>1 DEF Arrived
      <3>3. CASE next <= n
        <4>1. n < g \/ n \in a.buffer
          BY <2>1, <3>3
        <4> QED BY <1>2, <1>3, <2>6, <2>7, <2>14, <3>1, <4>1 DEF Arrived
      <3> QED BY <2>3, <3>1, <3>2, <3>3
    <2>18. \A k \in Nat : next <= k /\ k < g => Issued(k)
      BY <1>3, <1>5, <2>1 DEF q
    <2>19. Typed'
      BY <1>1, <1>2, <2>7, <2>8 DEF Typed
    <2>20. Limits'
      BY <1>1, <1>2, <2>1, <2>2, <2>6, <2>7, <2>12 DEF Limits
    <2>21. Joining'
      BY <1>1, <1>2 DEF Joining
    <2>22. Streaming'
      <3>1. \A i \in DOMAIN log' : log'[i] = <<link'.session, i>> /\ Issued(i)'
        BY <1>1, <1>2, <2>12 DEF Streaming
      <3>2. \A i \in DOMAIN inbox' : inbox'[i][1] = s /\ Issued(inbox'[i][2]) /\ inbox'[i][2] = Len(log) + i
        <4>1. ASSUME NEW i \in DOMAIN inbox
              PROVE  inbox'[i][1] = s /\ Issued(inbox'[i][2]) /\ inbox'[i][2] = Len(log) + i
          <5>1. inbox'[i] = inbox[i]
            BY <2>8, <2>10
          <5> QED BY <1>1, <1>3, <1>5, <5>1 DEF Streaming
        <4>2. ASSUME NEW i \in m + 1 .. m + (g - next)
              PROVE  inbox'[i][1] = s /\ Issued(inbox'[i][2]) /\ inbox'[i][2] = Len(log) + i
          <5> DEFINE k == Len(log) + i
          <5>1. inbox'[i] = <<s, k>> /\ k \in Nat /\ next <= k /\ k < g
            BY <2>11
          <5> HIDE DEF k
          <5>2. Issued(k)
            BY <2>18, <5>1
          <5>3. inbox'[i][1] = s /\ inbox'[i][2] = k
            BY <5>1
          <5>4. Issued(inbox'[i][2])
            BY <5>2, <5>3
          <5> QED BY <5>3, <5>4 DEF k
        <4> QED BY <2>10, <4>1, <4>2
      <3>3. a.next = Len(log) + Len(inbox') + 1
        BY <2>1, <2>3, <2>8, <2>9
      <3>4. \A k \in a.buffer : a.next < k /\ Issued(k)
        BY <1>3, <1>5, <2>1 DEF q
      <3>5. \A r \in Live' : r # link'.session => sessions'[r].sequencer = NewSequencer
        BY <1>1, <1>2, <1>3, <2>7, <2>12, TypedFacts DEF Streaming
      <3>6. sessions'[link'.session].sequencer = a /\ link'.session = s /\ log' = log
        BY <1>2, <1>3, <2>6, <2>7
      <3>7. \A k : Issued(k)' <=> Issued(k)
        BY <2>12
      <3>8. \A i \in DOMAIN inbox' : Issued(inbox[i][2])'
        BY <1>2, <3>2 DEF Issued
      <3>9. \A k \in sessions'[link'.session].sequencer.buffer :
              sessions'[link'.session].sequencer.next < k /\ Issued(k)'
        BY <3>4, <3>6, <3>7
      <3> QED BY <3>1, <3>2, <3>3, <3>5, <3>6, <3>8, <3>9 DEF Streaming
    <2>23. Upward'
      <3>1. \A r, k : Message(r, Command(k)) \in network' => r = link.session /\ Issued(k)'
        BY <1>1, <1>6, <2>12 DEF Upward
      <3>2. \A r, k : Ack(r, Command(k)) \in network' =>
              r = link.session /\ Issued(k)' /\ (r \in Live' => Arrived(k)')
        BY <1>1, <1>3, <1>6, <2>12, <2>16, <2>17 DEF Upward
      <3>3. \A r \in Live' : \A k : Seen(sessions'[r].tracker, Command(k)) => r = link.session /\ Arrived(k)'
        <4>1. SUFFICES ASSUME NEW r \in Live, NEW k, Seen(sessions'[r].tracker, Command(k))
                       PROVE  r = link.session /\ Arrived(k)'
          BY <2>12
        <4>2. CASE r # s
          BY <1>1, <2>7, <2>16, <4>1, <4>2, TypedFacts DEF Upward
        <4>3. CASE r = s
          <5>1. Command(k) \in Range(sessions[s].tracker.received) \/ k = n
            BY <2>2, <2>6, <2>7, <4>1, <4>3, Names DEF Seen
          <5> QED BY <1>1, <1>3, <2>16, <2>17, <4>3, <5>1 DEF Upward, Seen
        <4> QED BY <4>2, <4>3
      <3> QED BY <1>2, <3>1, <3>2, <3>3 DEF Upward
    <2>24. Downward'
      <3>1. \A r \in DOMAIN sessions : sessions'[r].outbox = sessions[r].outbox
        BY <2>6, <2>7
      <3>2. \A k : Issued(k)' <=> Issued(k)
        BY <2>12
      <3> QED BY <1>1, <1>2, <1>6, <2>7, <3>1, <3>2 DEF Downward
    <2>25. AckedCommandIsHeld'
      <3>1. SessionUp' <=> SessionUp
        BY <1>2, <2>12 DEF SessionUp
      <3>2. AckedCommandIsHeld' <=>
              (SessionUp' => \A k \in 1..(view'.next - 1) :
                 k \notin givenUp' /\ Command(k) \notin Pending(link'.tracker) => Arrived(k)')
        BY DEF AckedCommandIsHeld, Arrived, Pending
      <3> QED BY <1>1, <1>2, <2>16, <3>1, <3>2, AckedAs
    <2>26. AnsweredOrCut'
      <3>1. \A r \in Live : /\ sessions'[r].outbox = sessions[r].outbox
                            /\ Pending(sessions'[r].tracker) = Pending(sessions[r].tracker)
        BY <1>1, <2>2, <2>6, <2>7, TypedFacts
      <3>2. AnsweredOrCut' <=>
              \A entry \in Range(log') :
                entry[1] \in Live' =>
                  \/ Result(entry[2]) \in Range(sessions'[entry[1]].outbox) \cup Pending(sessions'[entry[1]].tracker)
                  \/ entry[2] \in view'.results
                  \/ <<entry[1], Result(entry[2])>> \in dropped'
        BY DEF AnsweredOrCut, Pending, Range
      <3> QED BY <1>1, <1>2, <2>12, <3>1, <3>2 DEF AnsweredOrCut
    <2> QED BY <2>19, <2>20, <2>21, <2>22, <2>23, <2>24, <2>25, <2>26 DEF SessionInv
  <1> QED BY <1>7, <1>8

--------------------------------------------------------------------------------
(* The ticks of the server *)

\* A session once the first n messages of its backlog are sent.
Sent(x, n) == [x EXCEPT !.tracker = Track(x.tracker, Range(SubSeq(x.outbox, 1, n))),
                        !.outbox = SubSeq(x.outbox, n + 1, Len(x.outbox))]

LEMMA Split ==
  ASSUME NEW T, NEW b \in Seq(T), NEW n \in 0..Len(b)
  PROVE  /\ SubSeq(b, 1, n) \in Seq(T) /\ Len(SubSeq(b, 1, n)) = n
         /\ SubSeq(b, n + 1, Len(b)) \in Seq(T) /\ Len(SubSeq(b, n + 1, Len(b))) <= Len(b)
         /\ Range(SubSeq(b, 1, n)) \subseteq Range(b)
         /\ Range(SubSeq(b, n + 1, Len(b))) \subseteq Range(b)
         /\ Range(b) \subseteq Range(SubSeq(b, 1, n)) \cup Range(SubSeq(b, n + 1, Len(b)))
  <1> DEFINE first == SubSeq(b, 1, n)
             rest == SubSeq(b, n + 1, Len(b))
             m == Len(b)
             l == m - n
  <1>1. m \in Nat /\ l \in Nat /\ n \in Nat /\ n + l = m
    OBVIOUS
  <1>2. /\ first \in Seq(T) /\ Len(first) = n
        /\ \A i \in 1..n : first[i] = b[i] /\ i \in 1..m
    OBVIOUS
  <1>3. /\ rest \in Seq(T) /\ Len(rest) = l
        /\ \A i \in 1..l : rest[i] = b[n + i] /\ n + i \in 1..m
    OBVIOUS
  <1> HIDE DEF first, rest, l
  <1>4. /\ DOMAIN first = 1..n /\ DOMAIN rest = 1..l /\ DOMAIN b = 1..m
    BY <1>2, <1>3
  <1> HIDE DEF m
  <1>5. \A i \in 1..m : i \in 1..n \/ (i - n \in 1..l /\ n + (i - n) = i)
    BY <1>1
  <1>6. Range(first) \subseteq Range(b) /\ Range(rest) \subseteq Range(b)
    BY <1>2, <1>3, <1>4 DEF Range
  <1>7. Range(b) \subseteq Range(first) \cup Range(rest)
    <2>1. SUFFICES ASSUME NEW i \in 1..m PROVE b[i] \in Range(first) \cup Range(rest)
      BY <1>4 DEF Range
    <2>2. CASE i \in 1..n
      BY <1>2, <1>4, <2>2 DEF Range
    <2>3. CASE i - n \in 1..l /\ n + (i - n) = i
      BY <1>3, <1>4, <2>3 DEF Range
    <2> QED BY <1>5, <2>2, <2>3
  <1>8. l <= m
    BY <1>1
  <1> QED BY <1>2, <1>3, <1>6, <1>7, <1>8 DEF first, rest, m

LEMMA SmallRange ==
  ASSUME NEW T, NEW b \in Seq(T)
  PROVE  IsFiniteSet(Range(b)) /\ Cardinality(Range(b)) <= Len(b)
  <1>1. b \in Surjection(1..Len(b), Range(b))
    BY DEF Surjection, Range
  <1>2. IsFiniteSet(1..Len(b)) /\ Cardinality(1..Len(b)) = Len(b)
    <2> DEFINE m == Len(b)
    <2>1. m \in Nat
      OBVIOUS
    <2> HIDE DEF m
    <2>2. 1 \in Int /\ m \in Int /\ (IF 1 > m THEN 0 ELSE m - 1 + 1) = m
      BY <2>1
    <2>3. IsFiniteSet(1..m) /\ Cardinality(1..m) = IF 1 > m THEN 0 ELSE m - 1 + 1
      BY <2>2, FS_Interval
    <2>4. IsFiniteSet(1..m) /\ Cardinality(1..m) = m
      BY <2>2, <2>3
    <2> QED BY <2>4 DEF m
  <1> QED BY <1>1, <1>2, FS_Surjection

LEMMA SentFacts ==
  ASSUME NEW x \in Sessions, NEW n \in Nat, n <= Len(x.outbox), Len(x.outbox) <= MaxBacklog,
         n + Cardinality(Pending(x.tracker)) <= MaxInFlight, Len(x.tracker.received) <= MaxTracked
  PROVE  /\ Sent(x, n) \in Sessions /\ Sent(x, n).connected = x.connected
         /\ Sent(x, n).sequencer = x.sequencer
         /\ Sent(x, n).tracker.received = x.tracker.received
         /\ Fits(Sent(x, n).tracker) /\ Len(Sent(x, n).outbox) <= MaxBacklog
         /\ Range(Sent(x, n).outbox) \subseteq Range(x.outbox)
         /\ Range(x.outbox) \cup Pending(x.tracker)
              \subseteq Range(Sent(x, n).outbox) \cup Pending(Sent(x, n).tracker)
         /\ Range(SubSeq(x.outbox, 1, n)) \subseteq Range(x.outbox)
  <1> DEFINE first == SubSeq(x.outbox, 1, n)
             rest == SubSeq(x.outbox, n + 1, Len(x.outbox))
             t == x.tracker
             u == Track(t, Range(first))
             T == {Result(k) : k \in Commands}
  <1>1. /\ t \in Trackers(DownKeys, UpKeys) /\ x.outbox \in Seq(T)
        /\ x = [connected |-> x.connected, tracker |-> x.tracker, sequencer |-> x.sequencer,
                outbox |-> x.outbox]
    BY DEF Sessions
  <1>2. T \subseteq DownKeys
    BY DEF DownKeys
  <1> HIDE DEF T
  <1>3. Len(x.outbox) \in Nat /\ n \in 0..Len(x.outbox)
    BY <1>1
  <1>4. /\ first \in Seq(T) /\ Len(first) = n
        /\ rest \in Seq(T) /\ Len(rest) <= Len(x.outbox) /\ Len(rest) \in Nat
        /\ Range(first) \subseteq Range(x.outbox) /\ Range(rest) \subseteq Range(x.outbox)
        /\ Range(x.outbox) \subseteq Range(first) \cup Range(rest)
    <2>1. \A b \in Seq(T) : \A k \in 0..Len(b) :
            /\ SubSeq(b, 1, k) \in Seq(T) /\ Len(SubSeq(b, 1, k)) = k
            /\ SubSeq(b, k + 1, Len(b)) \in Seq(T) /\ Len(SubSeq(b, k + 1, Len(b))) <= Len(b)
            /\ Range(SubSeq(b, 1, k)) \subseteq Range(b)
            /\ Range(SubSeq(b, k + 1, Len(b))) \subseteq Range(b)
            /\ Range(b) \subseteq Range(SubSeq(b, 1, k)) \cup Range(SubSeq(b, k + 1, Len(b)))
      BY Split, Zenon
    <2>2. /\ first \in Seq(T) /\ Len(first) = n
          /\ rest \in Seq(T) /\ Len(rest) <= Len(x.outbox)
          /\ Range(first) \subseteq Range(x.outbox) /\ Range(rest) \subseteq Range(x.outbox)
          /\ Range(x.outbox) \subseteq Range(first) \cup Range(rest)
      BY <1>1, <1>3, <2>1
    <2> HIDE DEF rest
    <2> QED BY <2>2
  <1> HIDE DEF first, rest
  <1>5. IsFiniteSet(Range(first)) /\ Cardinality(Range(first)) <= n
    BY <1>4, SmallRange
  <1>6. Range(first) \in SUBSET DownKeys
    BY <1>2, <1>4 DEF Range
  <1>7. /\ u \in Trackers(DownKeys, UpKeys) /\ u.received = t.received
        /\ Pending(u) = Pending(t) \cup Range(first)
    <2>1. \A some \in SUBSET DownKeys :
            /\ Track(t, some) \in Trackers(DownKeys, UpKeys)
            /\ Pending(Track(t, some)) = Pending(t) \cup some
            /\ Track(t, some).received = t.received
      BY <1>1, TrackFacts
    <2> QED BY <1>6, <2>1
  <1> HIDE DEF u
  <1>8. Fits(u)
    <2>1. IsFiniteSet(Pending(t))
      BY <1>1, PendingTyped, KeysFinite, FS_Subset
    <2>2. /\ Cardinality(Pending(t) \cup Range(first))
               = Cardinality(Pending(t)) + Cardinality(Range(first)) - Cardinality(Pending(t) \cap Range(first))
          /\ IsFiniteSet(Pending(t) \cap Range(first))
      BY <1>5, <2>1, FS_Union, FS_Intersection
    <2>3. /\ Cardinality(Pending(t)) \in Nat /\ Cardinality(Range(first)) \in Nat
          /\ Cardinality(Pending(t) \cap Range(first)) \in Nat
      BY <1>5, <2>1, <2>2, FS_CardinalityType
    <2>4. Cardinality(Pending(u)) <= MaxInFlight
      BY <1>5, <1>7, <2>2, <2>3, ConstantFacts
    <2> QED BY <1>7, <2>4 DEF Fits
  <1>9. Sent(x, n) = [connected |-> x.connected, tracker |-> u, sequencer |-> x.sequencer, outbox |-> rest]
    <2>1. Sent(x, n) = [x EXCEPT !.tracker = u, !.outbox = rest]
      BY DEF Sent, u, first, rest
    <2> QED BY <1>1, <2>1
  <1>10. Sent(x, n) \in Sessions
    BY <1>4, <1>7, <1>9 DEF Sessions, T
  <1>11. Len(rest) <= MaxBacklog
    BY <1>3, <1>4, ConstantFacts
  <1>12. Range(first) \subseteq Range(x.outbox)
    BY <1>4
  <1> QED BY <1>4, <1>7, <1>8, <1>9, <1>10, <1>11, <1>12 DEF first

\* What a flush makes of the sessions it finds, which may have been greeted before.
LEMMA FlushStep ==
  ASSUME SessionInv, UNCHANGED <<link, view, inbox, log, givenUp, dropped>>,
         NEW S, DOMAIN S = DOMAIN sessions,
         \A s \in DOMAIN sessions :
           /\ S[s] \in Sessions /\ S[s].connected = sessions[s].connected
           /\ S[s].sequencer = sessions[s].sequencer
           /\ S[s].tracker.received = sessions[s].tracker.received
           /\ Pending(sessions[s].tracker) \subseteq Pending(S[s].tracker)
           /\ Len(S[s].outbox) <= MaxBacklog /\ Range(S[s].outbox) \subseteq Range(sessions[s].outbox)
           /\ s \in Live => S[s].outbox = sessions[s].outbox,
         NEW sent \in Counts, MayFlush(S, sent), sessions' = Flushed(S, sent),
         network' \subseteq network \cup {Message(s, Welcome) : s \in greet} \cup Datagrams(S, sent),
         greet' \subseteq greet, gone' \subseteq gone,
         phase' \in {"poll", "drain", "dispatch", "failed"}
  PROVE  SessionInv'
  <1>1. Typed /\ Limits /\ Joining /\ Streaming /\ Upward /\ Downward /\ AckedCommandIsHeld /\ AnsweredOrCut
    BY InvFacts
  <1>2. DOMAIN sessions = 1..Len(sessions) /\ Len(sessions) \in Nat
    BY <1>1, TypedFacts
  <1>3. DOMAIN sessions' = DOMAIN sessions
        /\ \A s \in DOMAIN sessions : sessions'[s] = Sent(S[s], sent[s])
    BY DEF Flushed, First, Sent
  <1>4. \A s \in DOMAIN sessions :
          /\ sessions'[s] \in Sessions /\ sessions'[s].connected = sessions[s].connected
          /\ sessions'[s].sequencer = sessions[s].sequencer
          /\ sessions'[s].tracker.received = sessions[s].tracker.received
          /\ Fits(sessions'[s].tracker) /\ Len(sessions'[s].outbox) <= MaxBacklog
          /\ Range(sessions'[s].outbox) \subseteq Range(sessions[s].outbox)
          /\ Range(S[s].outbox) \cup Pending(sessions[s].tracker)
               \subseteq Range(sessions'[s].outbox) \cup Pending(sessions'[s].tracker)
          /\ Range(First(S, s, sent[s])) \subseteq Range(sessions[s].outbox)
    <2>1. SUFFICES ASSUME NEW s \in DOMAIN sessions
                   PROVE  /\ Sent(S[s], sent[s]) \in Sessions
                          /\ Sent(S[s], sent[s]).connected = sessions[s].connected
                          /\ Sent(S[s], sent[s]).sequencer = sessions[s].sequencer
                          /\ Sent(S[s], sent[s]).tracker.received = sessions[s].tracker.received
                          /\ Fits(Sent(S[s], sent[s]).tracker)
                          /\ Len(Sent(S[s], sent[s]).outbox) <= MaxBacklog
                          /\ Range(Sent(S[s], sent[s]).outbox) \subseteq Range(sessions[s].outbox)
                          /\ Range(S[s].outbox) \cup Pending(sessions[s].tracker)
                               \subseteq Range(Sent(S[s], sent[s]).outbox)
                                           \cup Pending(Sent(S[s], sent[s]).tracker)
                          /\ Range(First(S, s, sent[s])) \subseteq Range(sessions[s].outbox)
      BY <1>3
    <2> DEFINE x == S[s]
               n == sent[s]
    <2>2. /\ x \in Sessions /\ x.connected = sessions[s].connected
          /\ x.sequencer = sessions[s].sequencer
          /\ x.tracker.received = sessions[s].tracker.received
          /\ Pending(sessions[s].tracker) \subseteq Pending(x.tracker)
          /\ Len(x.outbox) <= MaxBacklog /\ Range(x.outbox) \subseteq Range(sessions[s].outbox)
      OBVIOUS
    <2>3. n \in Nat /\ n <= Len(x.outbox) /\ n + Cardinality(Pending(x.tracker)) <= MaxInFlight
      <3>1. n \in 0..MaxBacklog
        BY DEF Counts
      <3>2. n \in Nat
        BY <3>1, ConstantFacts
      <3> QED BY <3>2 DEF MayFlush
    <2>4. Len(x.tracker.received) <= MaxTracked
      BY <1>1, <2>2 DEF Limits, Fits
    <2>5. First(S, s, sent[s]) = SubSeq(x.outbox, 1, n)
      BY DEF First
    <2> HIDE DEF x, n
    <2>6. /\ Sent(x, n) \in Sessions /\ Sent(x, n).connected = x.connected
          /\ Sent(x, n).sequencer = x.sequencer
          /\ Sent(x, n).tracker.received = x.tracker.received
          /\ Fits(Sent(x, n).tracker) /\ Len(Sent(x, n).outbox) <= MaxBacklog
          /\ Range(Sent(x, n).outbox) \subseteq Range(x.outbox)
          /\ Range(x.outbox) \cup Pending(x.tracker)
               \subseteq Range(Sent(x, n).outbox) \cup Pending(Sent(x, n).tracker)
          /\ Range(SubSeq(x.outbox, 1, n)) \subseteq Range(x.outbox)
      BY <2>2, <2>3, <2>4, SentFacts
    <2>7. /\ Sent(x, n) \in Sessions /\ Sent(x, n).connected = sessions[s].connected
          /\ Sent(x, n).sequencer = sessions[s].sequencer
          /\ Sent(x, n).tracker.received = sessions[s].tracker.received
          /\ Fits(Sent(x, n).tracker) /\ Len(Sent(x, n).outbox) <= MaxBacklog
          /\ Range(Sent(x, n).outbox) \subseteq Range(sessions[s].outbox)
          /\ Range(x.outbox) \cup Pending(sessions[s].tracker)
               \subseteq Range(Sent(x, n).outbox) \cup Pending(Sent(x, n).tracker)
          /\ Range(First(S, s, sent[s])) \subseteq Range(sessions[s].outbox)
      BY <2>2, <2>5, <2>6
    <2> QED BY <2>7 DEF x, n
  <1>5. SameMail
    <2>1. \A s, k : k # Welcome /\ Message(s, k) \in network' =>
            Message(s, k) \in network
            \/ (s \in DOMAIN sessions /\ k \in Range(sessions[s].outbox))
      <3>1. SUFFICES ASSUME NEW s, NEW k, k # Welcome, Message(s, k) \in network',
                            Message(s, k) \notin network
                     PROVE  s \in DOMAIN sessions /\ k \in Range(sessions[s].outbox)
        OBVIOUS
      <3>2. Message(s, k) \in Datagrams(S, sent)
        BY <3>1, Datagrammar
      <3>3. PICK r \in DOMAIN S : \E l \in Range(First(S, r, sent[r])) : Message(s, k) = Message(r, l)
        BY <3>2 DEF Datagrams
      <3> QED BY <1>4, <3>3, Datagrammar
    <2>2. \A s, k : Ack(s, k) \in network' => Ack(s, k) \in network
      <3>1. SUFFICES ASSUME NEW s, NEW k, Ack(s, k) \in network', Ack(s, k) \notin network
                     PROVE  FALSE
        OBVIOUS
      <3>2. Ack(s, k) \in Datagrams(S, sent)
        BY <3>1, Datagrammar
      <3>3. PICK r \in DOMAIN S : \E l \in Range(First(S, r, sent[r])) : Ack(s, k) = Message(r, l)
        BY <3>2 DEF Datagrams
      <3> QED BY <3>3, Datagrammar
    <2>3. \A s \in DOMAIN sessions : \A n : Command(n) \notin Range(sessions[s].outbox)
      <3>1. \A s \in DOMAIN sessions : sessions[s].outbox \in Seq({Result(k) : k \in Commands})
        BY <1>1, TypedFacts
      <3>2. \A b \in Seq({Result(k) : k \in Commands}) : Range(b) \subseteq {Result(k) : k \in Commands}
        BY DEF Range
      <3>3. \A n : Command(n) \notin {Result(k) : k \in Commands}
        BY Names
      <3>4. \A s \in DOMAIN sessions : Range(sessions[s].outbox) \subseteq {Result(k) : k \in Commands}
        BY <3>1, <3>2
      <3> QED BY <3>3, <3>4
    <2> QED BY <2>1, <2>2, <2>3, Names DEF SameMail
  <1>6. Live' = Live
    BY <1>3, <1>4 DEF Live
  <1>7. Streaming' /\ Upward' /\ Downward'
    BY <1>1, <1>3, <1>4, <1>5, QuietStep
  <1>8. Typed'
    <2>1. sessions' \in Seq(Sessions)
      <3>1. sessions' = [s \in DOMAIN sessions |-> Sent(S[s], sent[s])]
        BY DEF Flushed, First, Sent
      <3>2. sessions' \in [1..Len(sessions) -> Sessions]
        BY <1>2, <1>3, <1>4, <3>1
      <3> QED BY <1>2, <3>2
    <2> QED BY <1>1, <2>1 DEF Typed
  <1>9. Limits'
    <2>1. Len(sessions') = Len(sessions)
      <3>1. sessions' = [s \in 1..Len(sessions) |-> Sent(S[s], sent[s])]
        BY <1>2 DEF Flushed, First, Sent
      <3> QED BY <1>2, <3>1
    <2>2. \A s \in DOMAIN sessions' : /\ Fits(sessions'[s].tracker)
                                      /\ Cardinality(sessions'[s].sequencer.buffer) <= MaxInFlight
                                      /\ Len(sessions'[s].outbox) <= MaxBacklog
      BY <1>1, <1>3, <1>4 DEF Limits
    <2>3. greet' \cup gone' \subseteq DOMAIN sessions' /\ gone' \cap Live' = {}
      BY <1>1, <1>3, <1>6 DEF Limits
    <2> QED BY <1>1, <1>3, <2>1, <2>2, <2>3 DEF Limits
  <1>10. Joining'
    BY <1>1 DEF Joining
  <1>11. AckedCommandIsHeld'
    BY <1>1, <1>4, <1>6, TypedFacts DEF AckedCommandIsHeld, SessionUp
  <1>12. AnsweredOrCut'
    <2>1. ASSUME NEW entry \in Range(log), entry[1] \in Live
          PROVE  \/ Result(entry[2]) \in Range(sessions'[entry[1]].outbox) \cup Pending(sessions'[entry[1]].tracker)
                 \/ entry[2] \in view.results
                 \/ <<entry[1], Result(entry[2])>> \in dropped
      <3>1. entry[1] \in DOMAIN sessions
        BY <1>1, <2>1, TypedFacts
      <3>2. \/ Result(entry[2]) \in Range(S[entry[1]].outbox) \cup Pending(sessions[entry[1]].tracker)
            \/ entry[2] \in view.results
            \/ <<entry[1], Result(entry[2])>> \in dropped
        BY <1>1, <2>1, <3>1 DEF AnsweredOrCut
      <3> QED BY <1>4, <3>1, <3>2
    <2>2. AnsweredOrCut' <=>
            \A entry \in Range(log') :
              entry[1] \in Live' =>
                \/ Result(entry[2]) \in Range(sessions'[entry[1]].outbox) \cup Pending(sessions'[entry[1]].tracker)
                \/ entry[2] \in view'.results
                \/ <<entry[1], Result(entry[2])>> \in dropped'
      BY DEF AnsweredOrCut, Pending, Range
    <2> QED BY <1>6, <2>1, <2>2
  <1> QED BY <1>7, <1>8, <1>9, <1>10, <1>11, <1>12 DEF SessionInv

LEMMA TickSteps ==
  ASSUME SessionInv, BeginTick \/ EndTick(FALSE)
  PROVE  SessionInv'
  <1>1. Typed /\ Limits
    BY InvFacts
  <1>2. \A s \in DOMAIN sessions : /\ sessions[s] \in Sessions /\ Len(sessions[s].outbox) <= MaxBacklog
                                   /\ sessions[s].tracker \in Trackers(DownKeys, UpKeys)
    BY <1>1, TypedFacts DEF Limits
  <1>3. CASE BeginTick
    <2>1. PICK sent \in Counts :
            /\ MayFlush(Greeted, sent) /\ sessions' = Flushed(Greeted, sent)
            /\ network' = network \cup {Message(s, Welcome) : s \in greet} \cup Datagrams(Greeted, sent)
      BY <1>3 DEF BeginTick
    <2>2. UNCHANGED <<link, view, inbox, log, givenUp, dropped>> /\ greet' = {} /\ gone' = {} /\ phase' = "drain"
      BY <1>3 DEF BeginTick, clientVars, history
    <2>3. DOMAIN Greeted = DOMAIN sessions
      BY DEF Greeted
    <2>4. \A s \in DOMAIN sessions :
            /\ Greeted[s] \in Sessions /\ Greeted[s].connected = sessions[s].connected
            /\ Greeted[s].sequencer = sessions[s].sequencer
            /\ Greeted[s].tracker.received = sessions[s].tracker.received
            /\ Pending(sessions[s].tracker) \subseteq Pending(Greeted[s].tracker)
            /\ Len(Greeted[s].outbox) <= MaxBacklog
            /\ Range(Greeted[s].outbox) \subseteq Range(sessions[s].outbox)
            /\ s \in Live => Greeted[s].outbox = sessions[s].outbox
      <3>1. SUFFICES ASSUME NEW s \in DOMAIN sessions
                     PROVE  /\ Greeted[s] \in Sessions /\ Greeted[s].connected = sessions[s].connected
                            /\ Greeted[s].sequencer = sessions[s].sequencer
                            /\ Greeted[s].tracker.received = sessions[s].tracker.received
                            /\ Pending(sessions[s].tracker) \subseteq Pending(Greeted[s].tracker)
                            /\ Len(Greeted[s].outbox) <= MaxBacklog
                            /\ Range(Greeted[s].outbox) \subseteq Range(sessions[s].outbox)
                            /\ s \in Live => Greeted[s].outbox = sessions[s].outbox
        OBVIOUS
      <3> DEFINE t == sessions[s].tracker
                 u == IF s \in greet THEN Track(t, {Welcome}) ELSE t
                 b == IF s \in gone THEN <<>> ELSE sessions[s].outbox
      <3>2. Greeted[s] = [sessions[s] EXCEPT !.tracker = u, !.outbox = b]
        BY DEF Greeted
      <3>3. u \in Trackers(DownKeys, UpKeys) /\ u.received = t.received /\ Pending(t) \subseteq Pending(u)
        <4>1. {Welcome} \in SUBSET DownKeys
          BY DEF DownKeys
        <4>2. /\ Track(t, {Welcome}) \in Trackers(DownKeys, UpKeys)
              /\ Track(t, {Welcome}).received = t.received
              /\ Pending(Track(t, {Welcome})) = Pending(t) \cup {Welcome}
          BY <1>2, <4>1, TrackFacts
        <4> QED BY <1>2, <4>2
      <3>4. /\ b \in Seq({Result(n) : n \in Commands}) /\ Len(b) <= MaxBacklog
            /\ Range(b) \subseteq Range(sessions[s].outbox) /\ (s \in Live => b = sessions[s].outbox)
        <4>1. sessions[s].outbox \in Seq({Result(n) : n \in Commands})
          BY <1>1, TypedFacts
        <4>2. s \in Live => s \notin gone
          BY <1>1 DEF Limits
        <4>3. <<>> \in Seq({Result(n) : n \in Commands}) /\ Len(<<>>) = 0 /\ Range(<<>>) = {}
          BY DEF Range
        <4> QED BY <1>2, <4>1, <4>2, <4>3, ConstantFacts
      <3> HIDE DEF t, u, b
      <3>5. /\ Greeted[s] \in Sessions /\ Greeted[s].connected = sessions[s].connected
            /\ Greeted[s].sequencer = sessions[s].sequencer
            /\ Greeted[s].tracker = u /\ Greeted[s].outbox = b
        BY <1>2, <3>2, <3>3, <3>4 DEF Sessions
      <3> QED BY <3>3, <3>4, <3>5 DEF t
    <2> HIDE DEF Greeted
    <2> QED BY <2>1, <2>2, <2>3, <2>4, FlushStep
  <1>4. CASE EndTick(FALSE)
    <2>1. PICK sent \in Counts :
            /\ MayFlush(sessions, sent) /\ sessions' = Flushed(sessions, sent)
            /\ network' = network \cup Datagrams(sessions, sent)
      BY <1>4 DEF EndTick
    <2>2. UNCHANGED <<link, view, inbox, log, givenUp, dropped, greet, gone>> /\ phase' = "poll"
      BY <1>4 DEF EndTick, clientVars, history
    <2> QED BY <1>2, <2>1, <2>2, FlushStep
  <1> QED BY <1>3, <1>4

\* A tick that fails, and no step at all.
LEMMA StillSteps ==
  ASSUME SessionInv, FailTick \/ UNCHANGED vars
  PROVE  SessionInv'
  <1>1. UNCHANGED <<link, view, sessions, greet, gone, inbox, log, givenUp, dropped, network>>
    BY DEF FailTick, vars, clientVars, hostVars, history
  <1>2. phase' \in {"poll", "drain", "dispatch", "failed"}
    BY InvFacts DEF FailTick, vars, Typed
  <1> QED BY <1>1, <1>2, NoMail, IdleSteps DEF clientVars, hostVars, history

LEMMA Shift ==
  ASSUME NEW T, NEW b \in Seq(T), b # <<>>
  PROVE  /\ Tail(b) \in Seq(T) /\ Len(b) \in Nat /\ Len(b) >= 1 /\ Len(Tail(b)) = Len(b) - 1
         /\ 1 \in DOMAIN b /\ b[1] \in T
         /\ \A i \in DOMAIN Tail(b) : i \in Nat /\ Tail(b)[i] = b[i + 1] /\ i + 1 \in DOMAIN b
         /\ Range(b) \subseteq {b[1]} \cup Range(Tail(b))
  <1>1. /\ Tail(b) \in Seq(T) /\ Len(b) \in Nat /\ Len(b) >= 1 /\ Len(Tail(b)) = Len(b) - 1
        /\ 1 \in DOMAIN b /\ b[1] \in T
    OBVIOUS
  <1>2. \A i \in DOMAIN Tail(b) : i \in Nat /\ Tail(b)[i] = b[i + 1] /\ i + 1 \in DOMAIN b
    OBVIOUS
  <1>3. ASSUME NEW i \in DOMAIN b PROVE b[i] \in {b[1]} \cup Range(Tail(b))
    <2>1. CASE i = 1
      BY <2>1
    <2>2. CASE i # 1
      <3>1. i - 1 \in DOMAIN Tail(b) /\ (i - 1) + 1 = i
        BY <1>1, <2>2
      <3> QED BY <1>2, <3>1 DEF Range
    <2> QED BY <2>1, <2>2
  <1> QED BY <1>1, <1>2, <1>3 DEF Range

LEMMA Put ==
  ASSUME NEW T, NEW b \in Seq(T), NEW e \in T
  PROVE  /\ Append(b, e) \in Seq(T) /\ Len(b) \in Nat /\ Len(Append(b, e)) = Len(b) + 1
         /\ DOMAIN b = 1..Len(b) /\ DOMAIN b \subseteq DOMAIN Append(b, e)
         /\ \A i \in DOMAIN Append(b, e) : i \in DOMAIN b \/ i = Len(b) + 1
         /\ Len(b) + 1 \in DOMAIN Append(b, e)
         /\ \A i \in DOMAIN b : Append(b, e)[i] = b[i]
         /\ Append(b, e)[Len(b) + 1] = e /\ Range(Append(b, e)) = Range(b) \cup {e}
  <1> DEFINE c == Append(b, e)
             l == Len(b)
  <1>1. /\ c \in Seq(T) /\ l \in Nat /\ Len(c) = l + 1
        /\ \A i \in 1..l : c[i] = b[i]
        /\ c[l + 1] = e /\ DOMAIN b = 1..l
    OBVIOUS
  <1> HIDE DEF c, l
  <1>2. DOMAIN c = 1..(l + 1)
    BY <1>1
  <1>3. (\A i \in 1..(l + 1) : i \in 1..l \/ i = l + 1) /\ 1..l \subseteq 1..(l + 1) /\ l + 1 \in 1..(l + 1)
    BY <1>1
  <1>4. Range(c) = Range(b) \cup {e}
    BY <1>1, <1>2, <1>3 DEF Range
  <1>5. /\ \A i \in DOMAIN c : i \in DOMAIN b \/ i = l + 1
        /\ DOMAIN b \subseteq DOMAIN c /\ l + 1 \in DOMAIN c
    BY <1>1, <1>2, <1>3
  <1> QED BY <1>1, <1>4, <1>5 DEF c, l

\* The result is queued, or the session is cut.
LEMMA MandatoryFacts ==
  ASSUME NEW x \in Sessions, NEW n \in Commands, x.connected, Len(x.outbox) <= MaxBacklog,
         Cardinality(x.sequencer.buffer) <= MaxInFlight
  PROVE  LET y == Mandatory(x, Result(n))
         IN  /\ y \in Sessions /\ y.tracker = x.tracker /\ Len(y.outbox) <= MaxBacklog
             /\ Cardinality(y.sequencer.buffer) <= MaxInFlight
             /\ Range(y.outbox) \subseteq Range(x.outbox) \cup {Result(n)}
             /\ y.connected => /\ y.sequencer = x.sequencer
                               /\ Range(x.outbox) \cup {Result(n)} \subseteq Range(y.outbox)
  <1> DEFINE T == {Result(k) : k \in Commands}
             y == Mandatory(x, Result(n))
  <1>1. /\ x.outbox \in Seq(T) /\ Result(n) \in T
        /\ x = [connected |-> x.connected, tracker |-> x.tracker, sequencer |-> x.sequencer,
                outbox |-> x.outbox]
    BY DEF Sessions
  <1>2. CASE HasRoom(x)
    <2> DEFINE b == Append(x.outbox, Result(n))
    <2>1. b \in Seq(T) /\ Len(b) = Len(x.outbox) + 1 /\ Len(x.outbox) \in Nat
          /\ Range(b) = Range(x.outbox) \cup {Result(n)}
      <3> HIDE DEF T
      <3>1. /\ Append(x.outbox, Result(n)) \in Seq(T) /\ Len(x.outbox) \in Nat
            /\ Len(Append(x.outbox, Result(n))) = Len(x.outbox) + 1
            /\ Range(Append(x.outbox, Result(n))) = Range(x.outbox) \cup {Result(n)}
        BY <1>1, Put
      <3> QED BY <3>1
    <2> HIDE DEF b
    <2>2. y = [x EXCEPT !.outbox = b]
      BY <1>2 DEF Mandatory, Queued, b
    <2>3. Len(b) <= MaxBacklog
      BY <1>2, <2>1, ConstantFacts DEF HasRoom
    <2>4. /\ y \in Sessions /\ y.outbox = b /\ y.tracker = x.tracker /\ y.sequencer = x.sequencer
      BY <2>1, <2>2 DEF Sessions
    <2> HIDE DEF y
    <2>5. /\ y \in Sessions /\ y.tracker = x.tracker /\ Len(y.outbox) <= MaxBacklog
          /\ Cardinality(y.sequencer.buffer) <= MaxInFlight
          /\ Range(y.outbox) \subseteq Range(x.outbox) \cup {Result(n)}
          /\ y.connected => /\ y.sequencer = x.sequencer
                            /\ Range(x.outbox) \cup {Result(n)} \subseteq Range(y.outbox)
      BY <2>1, <2>3, <2>4
    <2> QED BY <2>5 DEF y
  <1>3. CASE ~HasRoom(x)
    <2>1. y = [x EXCEPT !.connected = FALSE, !.outbox = <<>>, !.sequencer = NewSequencer]
      BY <1>3 DEF Mandatory, Cut
    <2>2. NewSequencer \in Sequencers /\ Cardinality(NewSequencer.buffer) = 0
      BY FS_EmptySet DEF NewSequencer, Sequencers
    <2>3. <<>> \in Seq(T) /\ Len(<<>>) = 0 /\ Range(<<>>) = {}
      BY DEF Range
    <2>4. /\ y \in Sessions /\ y.outbox = <<>> /\ y.tracker = x.tracker /\ y.sequencer = NewSequencer
          /\ ~y.connected
      BY <2>1, <2>2, <2>3 DEF Sessions
    <2> HIDE DEF y
    <2>5. /\ y \in Sessions /\ y.tracker = x.tracker /\ Len(y.outbox) <= MaxBacklog
          /\ Cardinality(y.sequencer.buffer) <= MaxInFlight
          /\ Range(y.outbox) \subseteq Range(x.outbox) \cup {Result(n)} /\ ~y.connected
      BY <2>2, <2>3, <2>4, ConstantFacts
    <2> QED BY <2>5 DEF y
  <1> QED BY <1>2, <1>3

LEMMA DispatchStep ==
  ASSUME SessionInv, Dispatch
  PROVE  /\ SessionInv'
         /\ log' = log \/ (log' = Append(log, <<link.session, Len(log) + 1>>) /\ Issued(Len(log) + 1))
  <1>1. Typed /\ Limits /\ Joining /\ Streaming /\ Upward /\ Downward /\ AckedCommandIsHeld /\ AnsweredOrCut
    BY InvFacts
  <1> DEFINE s == link.session
             n == inbox[1][2]
             m == Len(inbox)
             l == Len(log)
             P == Nat \X Commands
  <1>2. /\ inbox # <<>> /\ inbox' = Tail(inbox) /\ phase' = "dispatch"
        /\ UNCHANGED <<network, link, view, greet, gone, givenUp, dropped>>
        /\ IF inbox[1][1] \in Live
           THEN /\ log' = Append(log, inbox[1])
                /\ sessions' = [sessions EXCEPT ![inbox[1][1]] =
                                  Mandatory(sessions[inbox[1][1]], Result(inbox[1][2]))]
           ELSE UNCHANGED <<sessions, log>>
    BY DEF Dispatch, clientVars
  <1>3. inbox \in Seq(P) /\ log \in Seq(P)
    BY <1>1 DEF Typed
  <1>4. /\ inbox' \in Seq(P) /\ m \in Nat /\ m >= 1 /\ Len(inbox') = m - 1
        /\ 1 \in DOMAIN inbox /\ inbox[1] \in P
        /\ \A i \in DOMAIN inbox' : i \in Nat /\ inbox'[i] = inbox[i + 1] /\ i + 1 \in DOMAIN inbox
        /\ Range(inbox) \subseteq {inbox[1]} \cup Range(inbox')
    <2> HIDE DEF P
    <2>1. /\ Tail(inbox) \in Seq(P) /\ Len(inbox) \in Nat /\ Len(inbox) >= 1
          /\ Len(Tail(inbox)) = Len(inbox) - 1
          /\ 1 \in DOMAIN inbox /\ inbox[1] \in P
          /\ \A i \in DOMAIN Tail(inbox) : i \in Nat /\ Tail(inbox)[i] = inbox[i + 1] /\ i + 1 \in DOMAIN inbox
          /\ Range(inbox) \subseteq {inbox[1]} \cup Range(Tail(inbox))
      BY <1>2, <1>3, Shift
    <2> QED BY <1>2, <2>1
  <1>5. inbox[1][1] = s /\ Issued(n) /\ n \in Commands /\ inbox[1] = <<s, n>>
    <2>1. inbox[1][1] = s /\ Issued(n)
      BY <1>1, <1>4 DEF Streaming
    <2> QED BY <1>4, <2>1
  <1>6. \A k : Issued(k)' <=> Issued(k)
    BY <1>2 DEF Issued
  <1>7. \A i \in DOMAIN inbox' : inbox'[i][1] = s /\ Issued(inbox'[i][2])
    BY <1>1, <1>4 DEF Streaming
  <1>8. /\ \A r, k : Message(r, Command(k)) \in network' => Message(r, Command(k)) \in network
        /\ \A r, k : Ack(r, Command(k)) \in network' => Ack(r, Command(k)) \in network
    BY <1>2
  <1>9. CASE s \notin Live
    <2>1. UNCHANGED <<sessions, log>>
      BY <1>2, <1>5, <1>9
    <2>2. Live' = Live /\ s \notin Live' /\ link'.session = s
      BY <1>2, <1>9, <2>1 DEF Live
    <2>3. Typed' /\ Limits' /\ Joining'
      BY <1>1, <1>2, <1>4, <2>1, <2>2 DEF Typed, Limits, Joining
    <2>4. Streaming'
      <3>1. \A i \in DOMAIN inbox' : inbox'[i][1] = link'.session /\ Issued(inbox[i][2])'
        BY <1>2, <1>7 DEF Issued
      <3>2. \A i \in DOMAIN log' : log'[i] = <<link'.session, i>> /\ Issued(i)'
        BY <1>1, <1>2, <1>6, <2>1 DEF Streaming
      <3>3. \A r \in Live' : r # link'.session => sessions'[r].sequencer = NewSequencer
        BY <1>1, <2>1, <2>2 DEF Streaming
      <3> QED BY <2>2, <3>1, <3>2, <3>3 DEF Streaming
    <2>5. Upward'
      <3>1. \A r, k : Ack(r, Command(k)) \in network' => r = s /\ Issued(k)' /\ r \notin Live'
        BY <1>1, <1>6, <1>8, <2>2 DEF Upward
      <3>2. \A r \in Live' : \A k : ~Seen(sessions'[r].tracker, Command(k))
        BY <1>1, <2>1, <2>2 DEF Upward
      <3> QED BY <1>1, <1>2, <1>6, <1>8, <3>1, <3>2 DEF Upward
    <2>6. Downward'
      BY <1>1, <1>2, <1>6, <2>1 DEF Downward
    <2>7. AckedCommandIsHeld' /\ AnsweredOrCut'
      BY <1>1, <1>2, <2>1, <2>2 DEF AckedCommandIsHeld, SessionUp, AnsweredOrCut
    <2> QED BY <2>1, <2>3, <2>4, <2>5, <2>6, <2>7 DEF SessionInv
  <1>10. CASE s \in Live
    <2> DEFINE x == sessions[s]
               y == Mandatory(sessions[s], Result(n))
    <2>1. /\ x \in Sessions /\ x.connected /\ s \in DOMAIN sessions
          /\ Len(x.outbox) <= MaxBacklog /\ Cardinality(x.sequencer.buffer) <= MaxInFlight
          /\ Fits(x.tracker)
      BY <1>1, <1>10, TypedFacts DEF Live, Limits
    <2>2. /\ y \in Sessions /\ y.tracker = x.tracker /\ Len(y.outbox) <= MaxBacklog
          /\ Cardinality(y.sequencer.buffer) <= MaxInFlight
          /\ Range(y.outbox) \subseteq Range(x.outbox) \cup {Result(n)}
          /\ y.connected => /\ y.sequencer = x.sequencer
                            /\ Range(x.outbox) \cup {Result(n)} \subseteq Range(y.outbox)
      BY <1>5, <2>1, MandatoryFacts
    <2>3. log' = Append(log, <<s, n>>) /\ sessions' = [sessions EXCEPT ![s] = y]
      BY <1>2, <1>5, <1>10
    <2> HIDE DEF y
    <2>4. /\ sessions' \in Seq(Sessions) /\ Len(sessions') = Len(sessions)
          /\ DOMAIN sessions' = DOMAIN sessions /\ sessions'[s] = y
          /\ \A r \in DOMAIN sessions : r # s => sessions'[r] = sessions[r]
      BY <1>1, <2>1, <2>2, <2>3, SessionReplaced
    <2>5. /\ n = l + 1 /\ x.sequencer.next = l + m + 1
          /\ \A i \in DOMAIN inbox : inbox[i][2] = l + i
          /\ \A k \in x.sequencer.buffer : x.sequencer.next < k /\ Issued(k)
      BY <1>1, <1>4, <1>10 DEF Streaming
    <2>6. /\ log' \in Seq(P) /\ l \in Nat /\ Len(log') = l + 1
          /\ DOMAIN log \subseteq DOMAIN log'
          /\ \A i \in DOMAIN log' : i \in DOMAIN log \/ i = l + 1
          /\ l + 1 \in DOMAIN log'
          /\ \A i \in DOMAIN log : log'[i] = log[i]
          /\ log'[l + 1] = <<s, n>> /\ Range(log') = Range(log) \cup {<<s, n>>}
      <3>1. <<s, n>> \in P
        BY <1>4, <1>5
      <3> DEFINE e == <<s, n>>
      <3>2. e \in P
        BY <3>1
      <3> HIDE DEF P, e
      <3>3. /\ Append(log, e) \in Seq(P) /\ Len(log) \in Nat
            /\ Len(Append(log, e)) = Len(log) + 1
            /\ DOMAIN log \subseteq DOMAIN Append(log, e)
            /\ \A i \in DOMAIN Append(log, e) : i \in DOMAIN log \/ i = Len(log) + 1
            /\ Len(log) + 1 \in DOMAIN Append(log, e)
            /\ \A i \in DOMAIN log : Append(log, e)[i] = log[i]
            /\ Append(log, e)[Len(log) + 1] = e
            /\ Range(Append(log, e)) = Range(log) \cup {e}
        BY <1>3, <3>2, Put
      <3>4. log' = Append(log, e)
        BY <2>3 DEF e
      <3>5. /\ log' \in Seq(P) /\ l \in Nat /\ Len(log') = l + 1
            /\ DOMAIN log \subseteq DOMAIN log'
            /\ \A i \in DOMAIN log' : i \in DOMAIN log \/ i = l + 1
            /\ l + 1 \in DOMAIN log'
            /\ \A i \in DOMAIN log : log'[i] = log[i]
            /\ log'[l + 1] = e /\ Range(log') = Range(log) \cup {e}
        BY <3>3, <3>4
      <3> QED BY <3>5 DEF e
    <2> HIDE DEF x
    <2>7. \A r \in Live' : r \in Live /\ r \in DOMAIN sessions /\ (r = s => y.connected)
      <3>1. \A r \in Live' : r \in DOMAIN sessions /\ sessions'[r].connected
        BY <2>4 DEF Live
      <3> QED BY <1>10, <2>4, <3>1 DEF Live
    <2>8. Range(log) \cup Range(inbox) \subseteq Range(log') \cup Range(inbox')
      BY <1>4, <1>5, <2>6
    <2>9. s \in Live' => \A k : Arrived(k) => Arrived(k)'
      BY <1>2, <2>2, <2>4, <2>7, <2>8 DEF Arrived, x
    <2>10. Typed'
      BY <1>1, <1>2, <1>4, <2>4, <2>6 DEF Typed
    <2>11. Limits'
      <3>1. \A r \in DOMAIN sessions' : /\ Fits(sessions'[r].tracker)
                                        /\ Cardinality(sessions'[r].sequencer.buffer) <= MaxInFlight
                                        /\ Len(sessions'[r].outbox) <= MaxBacklog
        BY <1>1, <2>1, <2>2, <2>4 DEF Limits
      <3>2. gone' \cap Live' = {}
        BY <1>1, <1>2, <2>7 DEF Limits
      <3> QED BY <1>1, <1>2, <2>4, <3>1, <3>2 DEF Limits
    <2>12. Joining'
      BY <1>1, <1>2 DEF Joining
    <2>13. Streaming'
      <3>1. \A i \in DOMAIN log' : log'[i] = <<link'.session, i>> /\ Issued(i)'
        BY <1>1, <1>2, <1>5, <1>6, <2>5, <2>6 DEF Streaming
      <3>2. \A i \in DOMAIN inbox' : inbox'[i][1] = link'.session /\ Issued(inbox[i][2])'
        BY <1>2, <1>7 DEF Issued
      <3>3. s \in Live' => /\ \A i \in DOMAIN inbox' : inbox'[i][2] = Len(log') + i
                           /\ y.sequencer.next = Len(log') + Len(inbox') + 1
                           /\ \A k \in y.sequencer.buffer : y.sequencer.next < k /\ Issued(k)'
        <4>1. \A i \in DOMAIN inbox' : inbox'[i][2] = Len(log') + i
          <5>1. \A i \in DOMAIN inbox' : i \in Nat /\ inbox'[i][2] = l + (i + 1)
            BY <1>4, <2>5
          <5> HIDE DEF l
          <5> QED BY <2>6, <5>1
        <4>2. l + m + 1 = Len(log') + Len(inbox') + 1
          BY <1>4, <2>6
        <4> QED BY <1>6, <2>2, <2>5, <2>7, <4>1, <4>2
      <3>4. \A r \in Live' : r # link'.session => sessions'[r].sequencer = NewSequencer
        BY <1>1, <1>2, <2>4, <2>7 DEF Streaming
      <3>5. link'.session = s /\ sessions'[link'.session] = y
        BY <1>2, <2>4
      <3>6. link'.session \in Live' =>
              LET q == sessions'[link'.session].sequencer
              IN  /\ \A i \in DOMAIN inbox' : inbox'[i][2] = Len(log') + i
                  /\ q.next = Len(log') + Len(inbox') + 1
                  /\ \A k \in q.buffer : q.next < k /\ Issued(k)'
        BY <3>3, <3>5
      <3> QED BY <3>1, <3>2, <3>4, <3>6 DEF Streaming
    <2>14. Upward'
      <3>1. \A r, k : Ack(r, Command(k)) \in network' =>
              r = s /\ Issued(k)' /\ (r \in Live' => Arrived(k)')
        BY <1>1, <1>6, <1>8, <1>10, <2>9 DEF Upward
      <3>2. \A r \in Live' : sessions'[r].tracker = sessions[r].tracker
        BY <2>2, <2>4, <2>7 DEF x
      <3>3. \A r \in Live' : \A k : Seen(sessions'[r].tracker, Command(k)) => r = s /\ Arrived(k)'
        BY <1>1, <2>7, <2>9, <3>2 DEF Upward
      <3> QED BY <1>1, <1>2, <1>6, <1>8, <3>1, <3>3 DEF Upward
    <2>15. Downward'
      <3>1. \A r \in DOMAIN sessions' : \A k : Result(k) \in Range(sessions'[r].outbox) => <<r, k>> \in Range(log')
        <4>1. SUFFICES ASSUME NEW r \in DOMAIN sessions, NEW k, Result(k) \in Range(sessions'[r].outbox)
                       PROVE  <<r, k>> \in Range(log')
          BY <2>4
        <4>2. Result(k) \in Range(sessions[r].outbox) \/ (r = s /\ k = n)
          BY <2>2, <2>4, <4>1, Names DEF x
        <4> QED BY <1>1, <2>6, <4>2 DEF Downward
      <3>2. link'.state = "connected" => \A k \in Commands : Issued(k)' => k \in view'.awaiting \cup view'.results
        BY <1>1, <1>2, <1>6 DEF Downward
      <3> QED BY <1>1, <1>2, <2>6, <3>1, <3>2 DEF Downward
    <2>16. AckedCommandIsHeld'
      <3>1. SessionUp' => SessionUp /\ s \in Live'
        BY <1>2, <2>7 DEF SessionUp
      <3>2. AckedCommandIsHeld' <=>
              (SessionUp' => \A k \in 1..(view'.next - 1) :
                 k \notin givenUp' /\ Command(k) \notin Pending(link'.tracker) => Arrived(k)')
        BY DEF AckedCommandIsHeld, Arrived, Pending
      <3> QED BY <1>1, <1>2, <2>9, <3>1, <3>2, AckedAs
    <2>17. AnsweredOrCut'
      <3>1. ASSUME NEW entry \in Range(log'), entry[1] \in Live'
            PROVE  \/ Result(entry[2]) \in Range(sessions'[entry[1]].outbox) \cup Pending(sessions'[entry[1]].tracker)
                   \/ entry[2] \in view.results
                   \/ <<entry[1], Result(entry[2])>> \in dropped
        <4>1. CASE entry = <<s, n>>
          BY <2>2, <2>4, <2>7, <3>1, <4>1
        <4>2. CASE entry \in Range(log)
          <5>1. \/ Result(entry[2]) \in Range(sessions[entry[1]].outbox) \cup Pending(sessions[entry[1]].tracker)
                \/ entry[2] \in view.results
                \/ <<entry[1], Result(entry[2])>> \in dropped
            BY <1>1, <2>7, <3>1, <4>2 DEF AnsweredOrCut
          <5>2. CASE entry[1] = s
            BY <2>2, <2>4, <2>7, <3>1, <5>1, <5>2 DEF x
          <5>3. CASE entry[1] # s
            BY <2>4, <2>7, <3>1, <5>1, <5>3
          <5> QED BY <5>2, <5>3
        <4> QED BY <2>6, <3>1, <4>1, <4>2
      <3>2. AnsweredOrCut' <=>
              \A entry \in Range(log') :
                entry[1] \in Live' =>
                  \/ Result(entry[2]) \in Range(sessions'[entry[1]].outbox) \cup Pending(sessions'[entry[1]].tracker)
                  \/ entry[2] \in view'.results
                  \/ <<entry[1], Result(entry[2])>> \in dropped'
        BY DEF AnsweredOrCut, Pending, Range
      <3> QED BY <1>2, <3>1, <3>2
    <2>18. log' = Append(log, <<link.session, Len(log) + 1>>) /\ Issued(Len(log) + 1)
      BY <1>5, <2>3, <2>5
    <2> QED BY <2>10, <2>11, <2>12, <2>13, <2>14, <2>15, <2>16, <2>17, <2>18 DEF SessionInv
  <1> QED BY <1>9, <1>10

--------------------------------------------------------------------------------
(* Every step, and the stream as the player sees it *)

LEMMA SessionStep ==
  ASSUME SessionInv, [Next]_vars
  PROVE  SessionInv'
  <1>1. CASE Client
    <2>1. \A s \in DOMAIN sessions : TakeAccept(s) => SessionInv'
      BY AcceptStep
    <2>2. \A n \in Commands : TakeAck(n) \/ Retry(n) \/ GiveUp(n) => SessionInv'
      BY CommandSteps
    <2>3. \A key \in DownKeys : TakeMessage(key) => SessionInv'
      BY MessageStep
    <2> QED BY <1>1, <2>1, <2>2, <2>3, HandshakeSteps, CloseSteps, SubmitStep DEF Client
  <1>2. CASE Host
    <2>1. \A s \in DOMAIN sessions, n \in Commands : TakeCommand(s, n) => SessionInv'
      <3>1. \A s, n : TakeCommand(s, n) => s \in Live
        BY DEF TakeCommand
      <3>2. \A s \in Live : \A n \in Commands : TakeCommand(s, n) => SessionInv'
        BY CommandTaken
      <3> QED BY <3>1, <3>2
    <2>2. \A s \in DOMAIN sessions, key \in DownKeys :
            HostTakesAck(s, key) \/ HostRetry(s, key) \/ HostDrop(s, key) => SessionInv'
      BY ResultSteps
    <2>3. \A s \in DOMAIN sessions : TakeDisconnect(s) \/ HostIdle(s) => SessionInv'
      BY GoneSteps
    <2> QED BY <1>2, <2>1, <2>2, <2>3, HandshakeSteps, ResponseStep DEF Host
  <1>3. CASE Server
    BY <1>3, TickSteps, StillSteps, DispatchStep DEF Server
  <1>4. CASE UNCHANGED vars
    BY <1>4, StillSteps
  <1> QED BY <1>1, <1>2, <1>3, <1>4 DEF Next

\* The commands of the log, without the session.
LEMMA Projected ==
  ASSUME NEW b \in Seq(Nat \X Commands), NEW s \in Nat, Len(b) + 1 \in Commands
  PROVE  LET c == Append(b, <<s, Len(b) + 1>>)
         IN  [i \in DOMAIN c |-> c[i][2]] = Append([i \in DOMAIN b |-> b[i][2]], Len(b) + 1)
             /\ Len([i \in DOMAIN b |-> b[i][2]]) = Len(b)
  <1> DEFINE e == <<s, Len(b) + 1>>
             c == Append(b, e)
             P == Nat \X Commands
             v == [i \in DOMAIN b |-> b[i][2]]
             w == [i \in DOMAIN c |-> c[i][2]]
             l == Len(b)
  <1>1. e \in P /\ b \in Seq(P) /\ e[2] = l + 1 /\ \A p \in P : p[2] \in Nat
    BY DEF Commands
  <1> HIDE DEF e, P
  <1>2. /\ DOMAIN b = 1..l /\ l \in Nat /\ \A i \in 1..l : b[i] \in P
    BY <1>1
  <1>3. /\ DOMAIN c = 1..(l + 1) /\ (\A i \in 1..l : c[i] = b[i]) /\ c[l + 1] = e
    <2> HIDE DEF l
    <2>1. l = Len(b)
      BY DEF l
    <2>2. /\ Append(b, e) \in Seq(P) /\ Len(Append(b, e)) = l + 1
          /\ \A i \in DOMAIN b : Append(b, e)[i] = b[i]
          /\ Append(b, e)[l + 1] = e
      BY <1>1, <2>1, Put
    <2>3. DOMAIN Append(b, e) = 1..(l + 1)
      BY <2>2
    <2> QED BY <1>2, <2>2, <2>3
  <1> HIDE DEF c, l
  <1>4. v \in Seq(Nat) /\ Len(v) = l /\ \A i \in 1..l : v[i] = b[i][2]
    BY <1>1, <1>2
  <1>5. /\ DOMAIN w = 1..(l + 1) /\ (\A i \in 1..l : w[i] = b[i][2]) /\ w[l + 1] = l + 1
    BY <1>1, <1>2, <1>3
  <1>6. w = [i \in 1..(l + 1) |-> w[i]]
    BY <1>3
  <1> HIDE DEF v, w
  <1>7. /\ Append(v, l + 1) = [i \in 1..(l + 1) |-> Append(v, l + 1)[i]]
        /\ \A i \in 1..l : Append(v, l + 1)[i] = v[i]
        /\ Append(v, l + 1)[l + 1] = l + 1
    BY <1>2, <1>4
  <1>8. \A i \in 1..(l + 1) : i \in 1..l \/ i = l + 1
    BY <1>2
  <1>9. \A i \in 1..(l + 1) : w[i] = Append(v, l + 1)[i]
    BY <1>4, <1>5, <1>7, <1>8
  <1>10. w = Append(v, l + 1)
    BY <1>6, <1>7, <1>9
  <1> QED BY <1>4, <1>10 DEF v, w, c, e, l

\* A submission issues a number, the dispatch for a session that lasts executes the next
\* one, a message that is new answers, and no other step shows.
LEMMA StreamStep ==
  ASSUME SessionInv, SessionInv', [Next]_vars
  PROVE  [Stream!Next]_Stream!vars
  <1>1. Typed /\ Limits /\ Joining /\ Streaming /\ Upward /\ Downward /\ AckedCommandIsHeld /\ AnsweredOrCut
    BY InvFacts
  <1>2. Downward'
    BY DEF SessionInv
  <1>3. ASSUME log' = log, view'.next = view.next, view'.results = view.results
        PROVE  [Stream!Next]_Stream!vars
    BY <1>3 DEF Stream!vars
  <1>4. CASE Submit
    <2>1. /\ view' = [view EXCEPT !.next = view.next + 1, !.awaiting = view.awaiting \cup {view.next}]
          /\ view.next \in Commands /\ log' = log
      BY <1>4 DEF Submit, CreateCommand
    <2>2. view'.next = view.next + 1 /\ view'.results = view.results
      BY <1>1, <2>1, LinkTyped
    <2>3. view.next - 1 < LastCommand /\ view'.next - 1 = (view.next - 1) + 1
      BY <2>1, <2>2, ConstantFacts DEF Commands
    <2>4. Stream!Issue
      BY <2>1, <2>2, <2>3 DEF Stream!Issue
    <2> QED BY <2>4 DEF Stream!Next
  <1>5. ASSUME NEW key \in DownKeys, TakeMessage(key) PROVE [Stream!Next]_Stream!vars
    <2>1. log' = log /\ (view' = view \/ view' = Received(view, key))
      BY <1>5 DEF TakeMessage, history, clientVars
    <2>2. view'.next = view.next /\ (view'.results = view.results \/ view'.results = view.results \cup {key[2]})
      BY <1>1, <2>1, LinkTyped DEF Received, TakeResult, Greet
    <2>3. CASE view'.results = view.results
      BY <1>3, <2>1, <2>2, <2>3
    <2>4. CASE view'.results = view.results \cup {key[2]}
      <3>1. key[2] \in DOMAIN log
        BY <1>2, <2>1, <2>4 DEF Downward
      <3>2. DOMAIN log = 1..Len(log) /\ Len([i \in DOMAIN log |-> log[i][2]]) = Len(log)
        BY <1>1 DEF Typed
      <3>3. key[2] \in 1..Len([i \in DOMAIN log |-> log[i][2]])
        BY <3>1, <3>2
      <3>4. Stream!Answer
        BY <2>1, <2>2, <2>4, <3>3 DEF Stream!Answer
      <3> QED BY <3>4 DEF Stream!Next
    <2> QED BY <2>2, <2>3, <2>4
  <1>6. CASE Dispatch
    <2>1. view' = view /\ (log' = log \/ (log' = Append(log, <<link.session, Len(log) + 1>>)
                                          /\ Issued(Len(log) + 1)))
      BY <1>6, DispatchStep DEF Dispatch, clientVars
    <2>2. CASE log' = log
      BY <1>3, <2>1, <2>2
    <2>3. CASE log' = Append(log, <<link.session, Len(log) + 1>>) /\ Issued(Len(log) + 1)
      <3>1. log \in Seq(Nat \X Commands) /\ link.session \in Nat /\ Len(log) \in Nat
            /\ view.next \in 1..(LastCommand + 1)
        BY <1>1, TypedFacts DEF Typed
      <3>2. Len(log) + 1 \in Commands /\ Len(log) < view.next - 1
        BY <2>3, <3>1, ConstantFacts DEF Issued, Commands
      <3>3. /\ [i \in DOMAIN log' |-> log'[i][2]] = Append([i \in DOMAIN log |-> log[i][2]], Len(log) + 1)
            /\ Len([i \in DOMAIN log |-> log[i][2]]) = Len(log)
        BY <2>3, <3>1, <3>2, Projected
      <3>4. Stream!Execute
        BY <2>1, <3>2, <3>3 DEF Stream!Execute
      <3> QED BY <3>4 DEF Stream!Next
    <2> QED BY <2>1, <2>2, <2>3
  <1>7. CASE Close
    <2>1. log' = log /\ view' = [view EXCEPT !.awaiting = {}]
      BY <1>7 DEF Close, history
    <2>2. view'.next = view.next /\ view'.results = view.results
      BY <1>1, <2>1, LinkTyped
    <2> QED BY <1>3, <2>1, <2>2
  <1>8. CASE Connect \/ AnswerChallenge \/ Leave \/ \E s \in DOMAIN sessions : TakeAccept(s)
    BY <1>3, <1>8 DEF Connect, AnswerChallenge, Leave, TakeAccept, clientVars, history
  <1>9. CASE \E n \in Commands : TakeAck(n) \/ Retry(n) \/ GiveUp(n)
    BY <1>3, <1>9 DEF TakeAck, Retry, GiveUp, history
  <1>10. CASE Host
    <2>1. view' = view /\ log' = log
      BY <1>10 DEF Host, TakeHello, TakeResponse, TakeCommand, HostTakesAck, HostRetry, HostDrop,
                  TakeDisconnect, HostIdle, clientVars, history
    <2> QED BY <1>3, <2>1
  <1>11. CASE BeginTick \/ FailTick \/ EndTick(FALSE) \/ UNCHANGED vars
    <2>1. view' = view /\ log' = log
      BY <1>11 DEF BeginTick, FailTick, EndTick, vars, clientVars, history
    <2> QED BY <1>3, <2>1
  <1> QED BY <1>4, <1>5, <1>6, <1>7, <1>8, <1>9, <1>10, <1>11 DEF Next, Client, Server

LEMMA InvIsTyped == SessionInv => TypeOK
  <1> SUFFICES ASSUME SessionInv PROVE TypeOK
    OBVIOUS
  <1>1. Typed /\ Limits /\ Joining /\ Streaming
    BY InvFacts
  <1>2. \A keys, received : \A t \in Trackers(keys, received) : Fits(t) => TrackerOK(t, keys, received)
    <2>1. SUFFICES ASSUME NEW keys, NEW received, NEW t \in Trackers(keys, received), Fits(t)
                   PROVE  TrackerOK(t, keys, received)
      OBVIOUS
    <2>2. /\ Pending(t) \subseteq keys /\ t.pending \in [Pending(t) -> 1..MaxAttempts]
          /\ t.received \in Seq(received)
      BY PendingTyped
    <2>3. Range(t.received) \subseteq received
      BY <2>2 DEF Range
    <2> QED BY <2>1, <2>2, <2>3 DEF TrackerOK, Fits, Pending
  <1>3. link.session \in 0..LastSession /\ Len(sessions) <= LastSession
    BY <1>1, TypedFacts, ConstantFacts DEF Limits
  <1>4. \A s \in DOMAIN sessions :
          /\ TrackerOK(sessions[s].tracker, DownKeys, UpKeys)
          /\ sessions[s].sequencer.buffer \subseteq Commands
          /\ Cardinality(sessions[s].sequencer.buffer) <= MaxInFlight
          /\ Len(sessions[s].outbox) <= MaxBacklog
    BY <1>1, <1>2, TypedFacts DEF Limits, Sequencers
  <1>5. Range(inbox) \cup Range(log) \subseteq (DOMAIN sessions) \X Commands
    <2>1. ASSUME NEW k, Issued(k) PROVE link.session \in DOMAIN sessions
      <3>1. view.next # 1
        BY <2>1 DEF Issued
      <3>2. link.session # 0 /\ link.session \in 0..Len(sessions)
        BY <1>1, <3>1 DEF Joining, Limits
      <3> QED BY <1>1, <3>2, TypedFacts
    <2>2. /\ \A i \in DOMAIN inbox : inbox[i] \in Nat \X Commands
          /\ \A i \in DOMAIN log : log[i] \in Nat \X Commands
      BY <1>1 DEF Typed
    <2>3. /\ \A i \in DOMAIN inbox : inbox[i][1] \in DOMAIN sessions
          /\ \A i \in DOMAIN log : log[i][1] \in DOMAIN sessions
      BY <1>1, <2>1 DEF Streaming
    <2>4. \A e \in Nat \X Commands : e[1] \in DOMAIN sessions => e \in (DOMAIN sessions) \X Commands
      OBVIOUS
    <2> QED BY <2>2, <2>3, <2>4 DEF Range
  <1>6. TrackerOK(link.tracker, UpKeys, DownKeys)
    BY <1>1, <1>2, TypedFacts DEF Limits
  <1> QED BY <1>1, <1>3, <1>4, <1>5, <1>6 DEF TypeOK, Typed, Limits

\* What the server executed and is to execute is the stream of the one session the client
\* had, gapless from its first command; every datagram and every remembered key has the
\* origin that this stream gives it.
THEOREM SessionInvariant == Spec => []SessionInv
  <1>1. SessionInv /\ [Next]_vars => SessionInv'
    BY SessionStep
  <1> QED BY InitSession, <1>1, PTL DEF Spec

\* Types, and the limits of transport_reliability.cpp and of the backlog: no order of sends,
\* retries, acknowledgements and flushes exceeds the messages in flight, the remembered keys,
\* the reorder buffer or the messages pending for a client.
THEOREM TypeCorrect == Spec => []TypeOK
  BY SessionInvariant, InvIsTyped, PTL

\* An acknowledged command is never lost between the acknowledgement, the reorder buffer and
\* the inbox of the server, however the network lost, repeated or reordered datagrams.
THEOREM AckedCommandIsSafe == Spec => []AckedCommandIsHeld
  <1>1. SessionInv => AckedCommandIsHeld
    BY DEF SessionInv
  <1> QED BY SessionInvariant, <1>1, PTL

\* While its session lasts, the result of an executed command is in the backlog, in flight,
\* with the player or noted as dropped: the backlog at its limit cuts the client instead.
THEOREM ResultsAreKept == Spec => []AnsweredOrCut
  <1>1. SessionInv => AnsweredOrCut
    BY DEF SessionInv
  <1> QED BY SessionInvariant, <1>1, PTL

\* Handshake, reliable channel, sequencer and ticks together execute every command at most
\* once, in the order of issue and without a gap, and answer only executed ones, although the
\* memory that recognises duplicates is bounded and forgets.
THEOREM ImplementsCommandStream == Spec => ImplementsStream
  <1>1. Init => Stream!Init
    <2> SUFFICES ASSUME Init PROVE Stream!Init
      OBVIOUS
    <2>1. view.next = 1 /\ view.results = {} /\ log = <<>>
      BY DEF Init
    <2>2. [i \in DOMAIN log |-> log[i][2]] = <<>>
      BY <2>1
    <2> QED BY <2>1, <2>2 DEF Stream!Init
  <1>2. SessionInv /\ SessionInv' /\ [Next]_vars => [Stream!Next]_Stream!vars
    BY StreamStep
  <1> QED BY SessionInvariant, <1>1, <1>2, PTL DEF Spec, ImplementsStream, Stream!Spec
================================================================================
