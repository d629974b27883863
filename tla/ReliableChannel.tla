---------------------------- MODULE ReliableChannel ----------------------------
(***************************************************************************)
(* TransportReliabilityTracker and TransportReliableCommandSequencer        *)
(* (engine/net/transport_reliability.cpp) as operators on their states. A   *)
(* tracker keeps what this end sent and has no acknowledgement for, with    *)
(* the number of attempts, and the keys it remembers of what it received.   *)
(* A sequencer holds commands that arrived before their predecessors.       *)
(***************************************************************************)
EXTENDS Naturals, Sequences, FiniteSets, Functions

CONSTANTS MaxInFlight,  \* TransportReliabilityConfig.max_in_flight, also the reorder window
          MaxAttempts,  \* .max_attempts
          MaxTracked    \* .max_tracked_received_messages

\* validate_transport_reliability_config refuses a zero limit.
ASSUME LimitsNonZero == /\ MaxInFlight \in Nat \ {0}
                        /\ MaxAttempts \in Nat \ {0}
                        /\ MaxTracked \in Nat \ {0}

NewTracker == [pending |-> <<>>, received |-> <<>>]

Pending(t) == DOMAIN t.pending

\* track_send: a key may be in flight once, and only so many keys at a time.
MayTrack(t, key) == /\ key \notin Pending(t)
                    /\ Cardinality(Pending(t)) < MaxInFlight

\* The first attempt of these keys.
Track(t, keys) ==
  [t EXCEPT !.pending = [key \in DOMAIN @ \cup keys |-> IF key \in keys THEN 1 ELSE @[key]]]

\* An acknowledgement, a drop and a rollback all erase the entry.
Untrack(t, key) == [t EXCEPT !.pending = Restrict(@, DOMAIN @ \ {key})]

\* poll: a due message is sent again until it had its attempts, then dropped.
Exhausted(t, key) == t.pending[key] >= MaxAttempts
Retried(t, key) == [t EXCEPT !.pending[key] = @ + 1]

\* accept_reliable_message and remember_received.
Seen(t, key) == key \in Range(t.received)

\* Mutant: the memory is never trimmed.
RememberAll(t, key) == [t EXCEPT !.received = Append(@, key)]

Remember(t, key) ==
  LET received == Append(t.received, key) IN
  [t EXCEPT !.received = IF Len(received) > MaxTracked THEN Tail(received) ELSE received]

--------------------------------------------------------------------------------
NewSequencer == [next |-> 1, buffer |-> {}]

\* preflight: the window and the buffer bound only what is new and ahead.
Preflight(q, n) == \/ n <= q.next
                   \/ n \in q.buffer
                   \/ /\ n - q.next <= MaxInFlight
                      /\ Cardinality(q.buffer) < MaxInFlight

\* Mutant: the next number itself is taken for a stale one.
HeldAhead(q, n) == IF n <= q.next THEN q.buffer ELSE q.buffer \cup {n}

\* The buffer once n is in it; what is behind the next number is stale.
Held(q, n) == IF n < q.next THEN q.buffer ELSE q.buffer \cup {n}

\* The first number that is still missing.
Gap(q, n) == CHOOSE k \in q.next .. q.next + Cardinality(Held(q, n)) :
               /\ k \notin Held(q, n)
               /\ q.next .. (k - 1) \subseteq Held(q, n)

\* accept: everything up to the gap is released, in order.
Accepted(q, n) == [next |-> Gap(q, n), buffer |-> {k \in Held(q, n) : k >= Gap(q, n)}]

\* Mutant: a command is released as it arrives.
ReleasedAtOnce(q, n) == IF n < q.next THEN <<>> ELSE <<n>>

Released(q, n) == [i \in 1 .. Gap(q, n) - q.next |-> q.next + i - 1]
================================================================================
