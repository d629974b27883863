----------------------------- MODULE ChunkStreaming -----------------------------
(***************************************************************************)
(* PredictiveChunkStreamingController::update and its planner, driven once  *)
(* per tick by ServerRuntime::stream_chunks: publish what was loaded, plan  *)
(* from the viewers' motion, cancel what nobody wants any more, evict and   *)
(* submit.  A failure of update fails the tick, which faults the session.   *)
(*                                                                         *)
(* The geometry is a set of views; each update sees any of them.  Time is   *)
(* abstracted: a speculation may have expired and a chunk may still be in   *)
(* its temporal retention window at any plan.  Candidate and eviction       *)
(* orders inside one class are distance and value orders, left open.        *)
(***************************************************************************)
EXTENDS ChunkLoadScheduler

CONSTANTS Views,           \* [required, predicted, retained]: sets of chunks
          Editable,        \* the chunks players edit
          MaxSubmissions,  \* max_speculative_submissions_per_update
          MaxSpeculative,  \* max_active_speculative_requests
          Reserved,        \* reserved_required_request_slots
          MaxEvictions,    \* max_evictions_per_update
          Target           \* nominal_resident_chunk_budget

ASSUME ViewsAssumption ==
  Views \subseteq [required : SUBSET Chunks, predicted : SUBSET Chunks, retained : SUBSET Chunks]
ASSUME PolicyValid == /\ {MaxSubmissions, MaxEvictions, Reserved, Target} \subseteq Nat \ {0}
                      /\ MaxSpeculative \in Nat /\ MaxSubmissions <= MaxSpeculative

VARIABLES phase,        \* where the tick is: "publish", "plan"; "stopped"
          failure,      \* the error update returned, "none"
          pending,      \* pending_: chunk -> "required" or "speculative"
          speculative,  \* speculative_: chunk -> state and invalidated
          required,     \* previous_required_
          edited,       \* chunks dirty for persistence or replication
          interest      \* history: scheduler_interest of the last plan

controllerVars == <<phase, failure, pending, speculative, required, edited, interest>>
vars == <<schedulerVars, resident, controllerVars>>

Init == /\ SchedulerInit
        /\ resident = {}
        /\ phase = "publish"
        /\ failure = "none"
        /\ pending = <<>>
        /\ speculative = <<>>
        /\ required = {}
        /\ edited = {}
        /\ interest = {}

Running == failure = "none" /\ phase # "stopped"

--------------------------------------------------------------------------------
(* The first half of update: outcomes of earlier submissions *)

\* Mutant: a publication is not noted, its record stays "submitted".
NotedForgetful(n) ==
  Restrict(speculative, DOMAIN speculative \ (Processed(n) \ With("published", n)))

Noted(n) ==
  [c \in DOMAIN speculative \ (Processed(n) \ With("published", n)) |->
     IF c \in Processed(n) THEN [speculative[c] EXCEPT !.state = "published"]
     ELSE speculative[c]]

PublicationFailure(n) ==
  CASE ~(Processed(n) \subseteq DOMAIN pending) -> "untracked_result"
    [] \E c \in With("published", n) \cap DOMAIN speculative :
         speculative[c].state = "published" -> "duplicate_publication"
    [] With("failed", n) # {} -> "load_failed"
    [] With("stale", n) # {} -> "stale_result"
    [] OTHER -> "none"

Publish ==
  /\ Running /\ phase = "publish"
  /\ \E n \in Processable :
       /\ PublishResults(n)
       /\ speculative' = Noted(n)
       /\ pending' = Restrict(pending, DOMAIN pending \ Processed(n))
       /\ failure' = PublicationFailure(n)
  /\ phase' = "plan"
  /\ UNCHANGED <<required, edited, interest>>

--------------------------------------------------------------------------------
(* The planner *)

\* Mutant: demand does not take the speculation over.
NotYetDemanded(v) == speculative

\* A chunk that becomes required is no speculation any more.
Undemanded(v) == Restrict(speculative, DOMAIN speculative \ (v.required \ required))

Predicted(v) == v.predicted \ v.required

NewlyInvalid(v, expired) ==
  {c \in DOMAIN Undemanded(v) :
     ~Undemanded(v)[c].invalidated /\ (c \in expired \/ c \notin Predicted(v))}

\* Invalidated, and its chunk evicted since.
Forgotten(v) == {c \in DOMAIN Undemanded(v) :
                   /\ Undemanded(v)[c].invalidated
                   /\ Undemanded(v)[c].state = "published"
                   /\ c \notin resident}

Invalidate(record) ==
  [state |-> IF record.state = "published" THEN "published" ELSE "cancellation_requested",
   invalidated |-> TRUE]

Tracked(v, expired) ==
  [c \in DOMAIN Undemanded(v) \ Forgotten(v) |->
     IF c \in NewlyInvalid(v, expired) THEN Invalidate(Undemanded(v)[c]) ELSE Undemanded(v)[c]]

Cancellations(v, expired) ==
  {c \in NewlyInvalid(v, expired) : Undemanded(v)[c].state # "published"}

Candidates(v, expired) ==
  Predicted(v) \ (resident \cup DOMAIN pending \cup DOMAIN Tracked(v, expired))

Offered(v, expired) ==
  Smaller(Cardinality(Candidates(v, expired)),
          Smaller(MaxSubmissions, Excess(MaxSpeculative, Cardinality(DOMAIN Tracked(v, expired)))))

Evictable(v) == resident \ (v.required \cup edited)

Wasted(v, expired) ==
  {c \in Evictable(v) \cap DOMAIN Tracked(v, expired) :
     Tracked(v, expired)[c].invalidated /\ Tracked(v, expired)[c].state = "published"}

\* kept: the chunks still inside their temporal retention window.
Mandatory(v, expired, kept) ==
  Wasted(v, expired) \cup
  (Evictable(v) \ (v.retained \cup kept \cup Predicted(v) \cup DOMAIN Tracked(v, expired)))

\* Under the cap: wasted speculations first, then the mandatory, then the pressure ones.
Evictions(v, expired, kept) ==
  LET mandatory == Mandatory(v, expired, kept)
      remaining == Cardinality(resident) - Cardinality(mandatory)
      wanted == Cardinality(mandatory)
                + Smaller(Excess(remaining, Target), Cardinality(Evictable(v) \ mandatory))
  IN  {e \in SUBSET Evictable(v) :
         /\ Cardinality(e) = Smaller(wanted, MaxEvictions)
         /\ e \subseteq mandatory \/ mandatory \subseteq e
         /\ e \subseteq Wasted(v, expired) \/ Wasted(v, expired) \subseteq e}

--------------------------------------------------------------------------------
(* The second half of update *)

\* The tables after the accepted loads: a chunk that is there keeps its entry.
Requested(s, p) ==
  [c \in DOMAIN pending \cup s \cup p |->
     IF c \in DOMAIN pending THEN pending[c] ELSE IF c \in s THEN "required" ELSE "speculative"]

Speculated(tracked, p) ==
  [c \in DOMAIN tracked \cup p |->
     IF c \in DOMAIN tracked THEN tracked[c] ELSE [state |-> "submitted", invalidated |-> FALSE]]

Subsets(S, n) == {s \in SUBSET S : Cardinality(s) = n}

Cancelled(v, expired) ==
  Cancellations(v, expired) \cup (Active \ (v.required \cup v.predicted))

\* The policy and the controller disagree about a request or about a chunk.
Mismatch(v, expired, evicted) ==
  CASE \E c \in Cancellations(v, expired) : c \notin DOMAIN pending \/ pending[c] # "speculative"
         -> "cancellation_mismatch"
    [] evicted \cap edited # {} -> "eviction_mismatch"
    [] OTHER -> "none"

\* Required loads first; speculative ones only if none of those had to wait.
Submit(v, expired, mismatch) ==
  LET wanted == v.required \ (resident \cup DOMAIN pending)
      first == Smaller(Cardinality(wanted), AvailableSlots)
      second == IF first < Cardinality(wanted) THEN 0
                ELSE Smaller(Offered(v, expired), Excess(AvailableSlots - first, Reserved))
      accepted == IF mismatch # "none" THEN 0 ELSE Smaller(first + second, PoolRoom)
  IN  \E s \in Subsets(wanted, Smaller(first, accepted)),
         p \in Subsets(Candidates(v, expired), Excess(accepted, first)) :
        /\ CancelAndSubmit(Cancelled(v, expired), s \cup p)
        /\ pending' = Requested(s, p)
        /\ speculative' = Speculated(Tracked(v, expired), p)
        /\ failure' = IF mismatch # "none" THEN mismatch
                      ELSE IF accepted < first + second THEN "pool_full" ELSE "none"

Plan ==
  /\ Running /\ phase = "plan"
  /\ \E v \in Views, expired \in SUBSET DOMAIN speculative, kept \in SUBSET resident :
       \E evicted \in Evictions(v, expired, kept) :
         /\ required' = v.required
         /\ interest' = v.required \cup v.predicted
         /\ resident' = resident \ (evicted \ edited)
         /\ Submit(v, expired, Mismatch(v, expired, evicted))
  /\ phase' = "publish"
  /\ UNCHANGED <<mailbox, ready, retiring, generic, edited>>

--------------------------------------------------------------------------------
\* A command edits a chunk around a player; nothing in this scenario cleans it.
Edit(c) == /\ Running /\ phase = "publish"
           /\ c \in Editable \cap required \cap resident
           /\ edited' = edited \cup {c}
           /\ UNCHANGED <<schedulerVars, resident, phase, failure, pending, speculative, required,
                          interest>>

\* ServerRuntime::stop, between two ticks.
Stop == /\ Running /\ phase = "publish"
        /\ ShutdownScheduler
        /\ phase' = "stopped"
        /\ UNCHANGED <<resident, failure, pending, speculative, required, edited, interest>>

Workers == Running /\ (Retire \/ \E c \in Chunks : Deliver(c)) /\ UNCHANGED controllerVars

Next == Publish \/ Plan \/ Workers \/ Stop \/ \E c \in Chunks : Edit(c)

Spec == Init /\ [][Next]_vars

\* The tick goes on while the session runs; the aging of the pool lets no job wait
\* for ever, so each gets its worker; generation returns.
Fairness == /\ WF_vars(Publish) /\ WF_vars(Plan)
            /\ WF_vars(Running /\ Retire /\ UNCHANGED controllerVars)
            /\ \A c \in Chunks : SF_vars(Running /\ Deliver(c) /\ UNCHANGED controllerVars)

FairSpec == Spec /\ Fairness

--------------------------------------------------------------------------------
Failures == {"none", "untracked_result", "duplicate_publication", "load_failed", "stale_result",
             "cancellation_mismatch", "eviction_mismatch", "pool_full"}

\* Every variable of the scheduler, the controller and the planner has its type
\* and no mailbox outgrows its limit.
TypeOK ==
  /\ Active \subseteq Chunks /\ Cardinality(Active) <= MaxRequests
  /\ \A c \in Active : requests[c] \in [atWork : BOOLEAN, cancelled : BOOLEAN]
  /\ Len(mailbox) <= MaxCompleted
  /\ retiring \in 0..WorkerCount /\ generic \in 0..MaxCompleted
  /\ resident \subseteq Chunks
  /\ phase \in {"publish", "plan", "stopped"} /\ failure \in Failures
  /\ \A c \in DOMAIN pending : pending[c] \in {"required", "speculative"}
  /\ \A c \in DOMAIN speculative :
       speculative[c] \in [state : {"submitted", "published", "cancellation_requested"},
                           invalidated : BOOLEAN]

\* The controller owns the scheduler exclusively: whatever the viewers do and in
\* whatever order results arrive, no result is untracked, stale or published twice,
\* no policy cancellation names a request it does not own and no eviction names a
\* missing or dirty chunk (the failures of lines 18-92 of the controller).
NeverMismatched == failure \in {"none", "load_failed", "pool_full"}

\* What enters the world is what the last plan was interested in: a result that
\* became obsolete, by a teleport for example, is rejected although it succeeded.
OnlyWantedPublished == [][resident' \ resident \subseteq interest]_vars

\* A chunk that stays required is loaded, also if its request was speculative or had
\* been cancelled when it became required, unless the session faults or stops.
RequiredLoaded == \A c \in Chunks : []<>(c \notin required \/ c \in resident \/ ~Running)
================================================================================
