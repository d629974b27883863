----------------------------- MODULE RemoteSession -----------------------------
(***************************************************************************)
(* One remote player and the authoritative server over UDP: the handshake,  *)
(* the reliable channel in both directions, the ordered command stream, the *)
(* bounded outbound backlog of HostSession and the intake of ClientSession. *)
(* The network is the set of all datagrams ever sent: one that is never     *)
(* taken from it is lost, one taken twice is duplicated, and the order in   *)
(* which they were put there means nothing. A retransmission therefore adds *)
(* no datagram, it only counts an attempt. The sendto of a welcome and of a *)
(* retransmission is taken to succeed.                                      *)
(***************************************************************************)
EXTENDS ReliableChannel

CONSTANTS LastCommand,  \* bound: commands the client issues
          LastSession,  \* bound: sessions the server opens for this endpoint
          MaxBacklog    \* HostSessionConfig.max_pending_reliable_messages_per_client

ASSUME BacklogNonZero == MaxBacklog \in Nat \ {0}
ASSUME BoundsAssumption == {LastCommand, LastSession} \subseteq Nat

VARIABLES network,   \* every datagram sent so far
          link,      \* PosixDatagramTransportClient: state, session (token), tracker
          view,      \* ClientSession and the commands and results of the player
          sessions,  \* PosixDatagramTransportHost::clients_, in the order of their ids
          greet,     \* pending_connected_clients_
          gone,      \* pending_disconnected_clients_
          inbox,     \* server_messages_ of the host
          phase,     \* where the server tick is
          log,       \* history: <<session, command>> in the order of dispatch
          givenUp,   \* history: commands that were never sent or not sent again
          dropped    \* history: <<session, key>> the server does not send again

clientVars == <<link, view>>
hostVars == <<sessions, greet, gone, inbox>>
history == <<log, givenUp, dropped>>
vars == <<network, clientVars, hostVars, phase, history>>

Commands == 1..LastCommand

\* TransportReliableMessageKey: kind and sequence.
Command(n) == <<"command", n>>
Result(n) == <<"result", n>>
Welcome == <<"welcome", 0>>
Disconnect == <<"disconnect", 0>>

UpKeys == {Command(n) : n \in Commands} \cup {Disconnect}
DownKeys == {Result(n) : n \in Commands} \cup {Welcome}

\* Datagrams: the handshake, reliable messages and their acknowledgements.
Handshake(kind) == [type |-> kind, session |-> 0, key |-> <<>>]
Accept(s) == [type |-> "accept", session |-> s, key |-> <<>>]
Message(s, key) == [type |-> "message", session |-> s, key |-> key]
Ack(s, key) == [type |-> "ack", session |-> s, key |-> key]

Send(d) == network' = network \cup {d}

NewSession == [connected |-> TRUE, tracker |-> NewTracker, sequencer |-> NewSequencer,
               outbox |-> <<>>]

Live == {s \in DOMAIN sessions : sessions[s].connected}

Init == /\ network = {}
        /\ link = [state |-> "idle", session |-> 0, tracker |-> NewTracker]
        /\ view = [welcomed |-> FALSE, faulted |-> FALSE, next |-> 1, awaiting |-> {},
                   results |-> {}]
        /\ sessions = <<>>
        /\ greet = {}
        /\ gone = {}
        /\ inbox = <<>>
        /\ phase = "poll"
        /\ log = <<>>
        /\ givenUp = {}
        /\ dropped = {}

--------------------------------------------------------------------------------
(* The client: its transport and its session are polled once per frame. *)

Connect == /\ link.state = "idle"
           /\ link' = [link EXCEPT !.state = "connecting"]
           /\ Send(Handshake("hello"))
           /\ UNCHANGED <<view, hostVars, phase, history>>

AnswerChallenge == /\ link.state = "connecting"
                   /\ Handshake("challenge") \in network
                   /\ Send(Handshake("response"))
                   /\ UNCHANGED <<clientVars, hostVars, phase, history>>

TakeAccept(s) == /\ link.state = "connecting"
                 /\ Accept(s) \in network
                 /\ link' = [state |-> "connected", session |-> s, tracker |-> NewTracker]
                 /\ UNCHANGED <<network, view, hostVars, phase, history>>

\* clear_connection: the session id stays for the history only.
Closed == link' = [link EXCEPT !.state = "closed", !.tracker = NewTracker]

\* A rejection, the handshake or idle timeout, or the end of the process.
Close == /\ \/ link.state = "connecting"
            \/ link.state = "connected"
         /\ Closed
         /\ view' = [view EXCEPT !.awaiting = {}]
         /\ UNCHANGED <<network, hostVars, phase, history>>

\* disconnect sends one farewell, if the tracker and the socket take it.
Leave == /\ link.state = "connected"
         /\ MayTrack(link.tracker, Disconnect)
         /\ Send(Message(link.session, Disconnect))
         /\ Closed
         /\ UNCHANGED <<view, hostVars, phase, history>>

\* A faulted runtime session runs no further frame.
ClientRuns == link.state = "connected" /\ ~view.faulted

CreateCommand == /\ view.welcomed
                 /\ view.next \in Commands
                 /\ view' = [view EXCEPT !.next = @ + 1, !.awaiting = @ \cup {view.next}]

SendToServer(n) == /\ MayTrack(link.tracker, Command(n))
                   /\ link' = [link EXCEPT !.tracker = Track(@, {Command(n)})]
                   /\ Send(Message(link.session, Command(n)))

\* The number is handed out before the transport is asked: at its limit, or when
\* sendto fails, the command is never sent.
Submit ==
  /\ ClientRuns
  /\ CreateCommand
  /\ \/ SendToServer(view.next) /\ UNCHANGED givenUp
     \/ givenUp' = givenUp \cup {view.next} /\ UNCHANGED <<link, network>>
  /\ UNCHANGED <<hostVars, phase, log, dropped>>

\* The farewell is never in flight: sending it ends the connection.
TakeAck(n) == /\ ClientRuns
              /\ Command(n) \in Pending(link.tracker)
              /\ Ack(link.session, Command(n)) \in network
              /\ link' = [link EXCEPT !.tracker = Untrack(@, Command(n))]
              /\ UNCHANGED <<network, view, hostVars, phase, history>>

Retry(n) == /\ ClientRuns
            /\ Command(n) \in Pending(link.tracker)
            /\ ~Exhausted(link.tracker, Command(n))
            /\ link' = [link EXCEPT !.tracker = Retried(@, Command(n))]
            /\ UNCHANGED <<network, view, hostVars, phase, history>>

\* Mutant: the attempts start over instead.
StartOver(n) == /\ ClientRuns
                /\ Command(n) \in Pending(link.tracker)
                /\ Exhausted(link.tracker, Command(n))
                /\ link' = [link EXCEPT !.tracker.pending[Command(n)] = 1]
                /\ UNCHANGED <<network, view, hostVars, phase, history>>

\* Only a counter tells the application that its command was dropped.
GiveUp(n) == /\ ClientRuns
             /\ Command(n) \in Pending(link.tracker)
             /\ Exhausted(link.tracker, Command(n))
             /\ link' = [link EXCEPT !.tracker = Untrack(@, Command(n))]
             /\ givenUp' = givenUp \cup {n}
             /\ UNCHANGED <<network, view, hostVars, phase, log, dropped>>

\* accept_welcome; nothing was created before it.
Greet(v) == [v EXCEPT !.welcomed = TRUE]

\* receive_command_result: a result nobody waits for faults the session.
TakeResult(v, n) ==
  IF n \in v.awaiting THEN [v EXCEPT !.awaiting = @ \ {n}, !.results = @ \cup {n}]
                      ELSE [v EXCEPT !.faulted = TRUE]

\* Before the welcome everything else is discarded, after it a welcome is refused.
Received(v, key) ==
  CASE ~v.welcomed /\ key = Welcome -> Greet(v)
    [] ~v.welcomed /\ key # Welcome -> v
    [] v.welcomed /\ key = Welcome -> [v EXCEPT !.faulted = TRUE]
    [] OTHER -> TakeResult(v, key[2])

TakeMessage(key) ==
  /\ ClientRuns
  /\ Message(link.session, key) \in network
  /\ Send(Ack(link.session, key))
  /\ IF Seen(link.tracker, key)
     THEN UNCHANGED clientVars
     ELSE /\ link' = [link EXCEPT !.tracker = Remember(@, key)]
          /\ view' = Received(view, key)
  /\ UNCHANGED <<hostVars, phase, history>>

Client == \/ Connect \/ AnswerChallenge \/ Close \/ Leave \/ Submit
          \/ \E s \in DOMAIN sessions : TakeAccept(s)
          \/ \E n \in Commands : TakeAck(n) \/ Retry(n) \/ GiveUp(n)
          \/ \E key \in DownKeys : TakeMessage(key)

--------------------------------------------------------------------------------
(* The host transport: pump_server_socket, called by poll_maintenance at the
   head of a tick and by drain_server_messages in its middle. *)

Pumping == phase \in {"poll", "drain"}

TakeHello == /\ Pumping
             /\ Handshake("hello") \in network
             /\ Send(Handshake("challenge"))
             /\ UNCHANGED <<clientVars, hostVars, phase, history>>

\* A repeated response is answered with the session it already has. A cookie
\* that expired or a full server is a rejection; the client then is in Close.
TakeResponse ==
  /\ Pumping
  /\ Handshake("response") \in network
  /\ \/ \E s \in Live : Send(Accept(s)) /\ UNCHANGED <<sessions, greet>>
     \/ /\ Live = {}
        /\ Len(sessions) < LastSession
        /\ sessions' = Append(sessions, NewSession)
        /\ greet' = greet \cup {Len(sessions) + 1}
        /\ Send(Accept(Len(sessions) + 1))
  /\ UNCHANGED <<clientVars, gone, inbox, phase, history>>

\* accept_server_envelope for a command: what preflight refuses stays
\* unacknowledged, what the tracker has seen is acknowledged again only.
TakeCommand(s, n) ==
  /\ Pumping
  /\ s \in Live
  /\ Message(s, Command(n)) \in network
  /\ Preflight(sessions[s].sequencer, n)
  /\ Send(Ack(s, Command(n)))
  /\ IF Seen(sessions[s].tracker, Command(n))
     THEN UNCHANGED <<sessions, inbox>>
     ELSE /\ sessions' = [sessions EXCEPT ![s].tracker = Remember(@, Command(n)),
                                          ![s].sequencer = Accepted(@, n)]
          /\ inbox' = inbox \o [i \in DOMAIN Released(sessions[s].sequencer, n) |->
                                  <<s, Released(sessions[s].sequencer, n)[i]>>]
  /\ UNCHANGED <<clientVars, greet, gone, phase, history>>

TakeDisconnect(s) == /\ Pumping
                     /\ s \in Live
                     /\ Message(s, Disconnect) \in network
                     /\ Send(Ack(s, Disconnect))
                     /\ sessions' = [sessions EXCEPT ![s].connected = FALSE]
                     /\ gone' = gone \cup {s}
                     /\ UNCHANGED <<clientVars, greet, inbox, phase, history>>

HostTakesAck(s, key) == /\ Pumping
                        /\ s \in Live
                        /\ key \in Pending(sessions[s].tracker)
                        /\ Ack(s, key) \in network
                        /\ sessions' = [sessions EXCEPT ![s].tracker = Untrack(@, key)]
                        /\ UNCHANGED <<network, clientVars, greet, gone, inbox, phase,
                                       history>>

\* The rest of poll_maintenance.
HostRetry(s, key) == /\ phase = "poll"
                     /\ s \in Live
                     /\ key \in Pending(sessions[s].tracker)
                     /\ ~Exhausted(sessions[s].tracker, key)
                     /\ sessions' = [sessions EXCEPT ![s].tracker = Retried(@, key)]
                     /\ UNCHANGED <<network, clientVars, greet, gone, inbox, phase,
                                    history>>

HostDrop(s, key) == /\ phase = "poll"
                    /\ s \in Live
                    /\ key \in Pending(sessions[s].tracker)
                    /\ Exhausted(sessions[s].tracker, key)
                    /\ sessions' = [sessions EXCEPT ![s].tracker = Untrack(@, key)]
                    /\ dropped' = dropped \cup {<<s, key>>}
                    /\ UNCHANGED <<network, clientVars, greet, gone, inbox, phase, log,
                                   givenUp>>

\* The idle timeout is far longer than a tick, so the session was greeted.
HostIdle(s) == /\ phase = "poll"
               /\ s \in Live \ greet
               /\ sessions' = [sessions EXCEPT ![s].connected = FALSE]
               /\ gone' = gone \cup {s}
               /\ UNCHANGED <<network, clientVars, greet, inbox, phase, history>>

Host == \/ TakeHello \/ TakeResponse
        \/ \E s \in DOMAIN sessions :
             \/ \E n \in Commands : TakeCommand(s, n)
             \/ \E key \in DownKeys : HostTakesAck(s, key) \/ HostRetry(s, key) \/ HostDrop(s, key)
             \/ TakeDisconnect(s) \/ HostIdle(s)

--------------------------------------------------------------------------------
(* HostSession::tick and the producers of reliable messages around it. *)

\* flush_pending_outbound sends a prefix of each backlog: budgets, the in-flight
\* limit and a failed sendto decide how long it is.
Counts == [DOMAIN sessions -> 0..MaxBacklog]
First(S, s, n) == SubSeq(S[s].outbox, 1, n)

MayFlush(S, sent) ==
  \A s \in DOMAIN S :
    /\ sent[s] <= Len(S[s].outbox)
    /\ sent[s] > 0 => S[s].connected
    /\ sent[s] + Cardinality(Pending(S[s].tracker)) <= MaxInFlight

\* Every connected client whose first message fits gets that one at least.
Eager(S, sent) ==
  \A s \in DOMAIN S :
    \/ sent[s] > 0
    \/ ~S[s].connected
    \/ S[s].outbox = <<>>
    \/ Cardinality(Pending(S[s].tracker)) = MaxInFlight

Flushed(S, sent) ==
  [s \in DOMAIN S |->
     [S[s] EXCEPT !.tracker = Track(@, Range(First(S, s, sent[s]))),
                  !.outbox = SubSeq(@, sent[s] + 1, Len(@))]]

Datagrams(S, sent) ==
  UNION {{Message(s, key) : key \in Range(First(S, s, sent[s]))} : s \in DOMAIN S}

\* The welcome is sent past the backlog; the backlogs of the gone are cleared.
Greeted == [s \in DOMAIN sessions |->
              [sessions[s] EXCEPT !.tracker = IF s \in greet THEN Track(@, {Welcome}) ELSE @,
                                  !.outbox = IF s \in gone THEN <<>> ELSE @]]

\* A session that was accepted and has ended before its welcome fails the tick.
BeginTick ==
  /\ phase = "poll"
  /\ greet \subseteq Live
  /\ \E sent \in Counts :
       /\ MayFlush(Greeted, sent)
       /\ sessions' = Flushed(Greeted, sent)
       /\ network' = network \cup {Message(s, Welcome) : s \in greet}
                             \cup Datagrams(Greeted, sent)
  /\ greet' = {}
  /\ gone' = {}
  /\ phase' = "drain"
  /\ UNCHANGED <<clientVars, inbox, history>>

FailTick == /\ phase = "poll"
            /\ ~(greet \subseteq Live)
            /\ phase' = "failed"
            /\ UNCHANGED <<network, clientVars, hostVars, history>>

\* disconnect_for_reliable_overload.
Cut(session) == [session EXCEPT !.connected = FALSE, !.outbox = <<>>,
                                !.sequencer = NewSequencer]

\* queue_reliable_message
HasRoom(session) == Len(session.outbox) < MaxBacklog
Queued(session, key) == [session EXCEPT !.outbox = Append(@, key)]

\* Mutant: a result that does not fit is lost and the client stays.
MandatoryIfRoom(session, key) == IF HasRoom(session) THEN Queued(session, key) ELSE session

\* queue_command_response: the result fits or the client goes.
Mandatory(session, key) == IF HasRoom(session) THEN Queued(session, key) ELSE Cut(session)

\* One message of the drained inbox: dispatch, and the result into the backlog.
Dispatch ==
  /\ phase \in {"drain", "dispatch"}
  /\ inbox # <<>>
  /\ inbox' = Tail(inbox)
  /\ phase' = "dispatch"
  /\ LET s == inbox[1][1] IN
     IF s \in Live
     THEN /\ log' = Append(log, inbox[1])
          /\ sessions' = [sessions EXCEPT ![s] = Mandatory(@, Result(inbox[1][2]))]
     ELSE UNCHANGED <<sessions, log>>
  /\ UNCHANGED <<network, clientVars, greet, gone, givenUp, dropped>>

EndTick(eager) ==
  /\ phase \in {"drain", "dispatch"}
  /\ inbox = <<>>
  /\ \E sent \in Counts :
       /\ MayFlush(sessions, sent)
       /\ eager => Eager(sessions, sent)
       /\ sessions' = Flushed(sessions, sent)
       /\ network' = network \cup Datagrams(sessions, sent)
  /\ phase' = "poll"
  /\ UNCHANGED <<clientVars, greet, gone, inbox, history>>

Server == \/ BeginTick \/ FailTick \/ Dispatch \/ EndTick(FALSE)

Next == Client \/ Host \/ Server

Spec == Init /\ [][Next]_vars

\* Both loops run: the client polls its transport every frame and the server
\* ticks. Nothing is assumed of the network, of the player or of timeouts. A
\* budget window opens every second and a full socket drains, so some tick
\* sends the head of a backlog; polls between ticks retry what is due.
Fairness == /\ WF_vars(\E n \in Commands : Retry(n) \/ GiveUp(n))
            /\ WF_vars(BeginTick)
            /\ WF_vars(Dispatch)
            /\ SF_vars(EndTick(TRUE))
            /\ SF_vars(\E s \in DOMAIN sessions, key \in DownKeys :
                         HostRetry(s, key) \/ HostDrop(s, key))

FairSpec == Spec /\ Fairness

--------------------------------------------------------------------------------
TrackerOK(t, keys, received) ==
  /\ DOMAIN t.pending \subseteq keys
  /\ Cardinality(DOMAIN t.pending) <= MaxInFlight
  /\ \A key \in DOMAIN t.pending : t.pending[key] \in 1..MaxAttempts
  /\ Range(t.received) \subseteq received
  /\ Len(t.received) <= MaxTracked

\* Types, and the limits of the trackers, of the reorder buffer and of the backlog.
TypeOK ==
  /\ link.state \in {"idle", "connecting", "connected", "closed"}
  /\ link.session \in 0..LastSession
  /\ TrackerOK(link.tracker, UpKeys, DownKeys)
  /\ view.next \in 1..(LastCommand + 1)
  /\ view.awaiting \cup view.results \subseteq Commands
  /\ Len(sessions) <= LastSession
  /\ \A s \in DOMAIN sessions :
       /\ TrackerOK(sessions[s].tracker, DownKeys, UpKeys)
       /\ sessions[s].sequencer.buffer \subseteq Commands
       /\ Cardinality(sessions[s].sequencer.buffer) <= MaxInFlight
       /\ Len(sessions[s].outbox) <= MaxBacklog
  /\ greet \cup gone \subseteq DOMAIN sessions
  /\ Range(inbox) \cup Range(log) \subseteq (DOMAIN sessions) \X Commands
  /\ phase \in {"poll", "drain", "dispatch", "failed"}
  /\ givenUp \subseteq Commands
  /\ dropped \subseteq (DOMAIN sessions) \X DownKeys

\* Commands are executed exactly once in the order of their issue and only
\* executed ones are answered, although the key memory of a tracker forgets.
Stream == INSTANCE CommandStream
            WITH issued <- view.next - 1,
                 log <- [i \in DOMAIN log |-> log[i][2]],
                 answered <- view.results
ImplementsStream == Stream!Spec

SessionUp == /\ link.state = "connected"
             /\ link.session \in Live

\* A command the client's transport no longer repeats because the server has
\* acknowledged it is executed, waiting to be, or held for its predecessors.
AckedCommandIsHeld ==
  SessionUp =>
    \A n \in 1..(view.next - 1) :
      n \notin givenUp /\ Command(n) \notin Pending(link.tracker) =>
        \/ <<link.session, n>> \in Range(log) \cup Range(inbox)
        \/ n \in sessions[link.session].sequencer.buffer

\* While a session lasts, the result of an executed command is in the backlog,
\* in flight, with the player, or was dropped after its last attempt: a client
\* whose result found no room is not kept connected.
AnsweredOrCut ==
  \A entry \in Range(log) :
    LET s == entry[1]
        n == entry[2] IN
    s \in Live =>
      \/ Result(n) \in Range(sessions[s].outbox) \cup Pending(sessions[s].tracker)
      \/ n \in view.results
      \/ <<s, Result(n)>> \in dropped

\* A command that was issued is answered, unless it or a predecessor was given
\* up, its result was dropped, or the session ended on either side.
EveryCommandSettles ==
  \A n \in Commands :
    view.next > n ~> \/ n \in view.results
                     \/ \E m \in 1..n : m \in givenUp
                     \/ <<link.session, Result(n)>> \in dropped
                     \/ ~SessionUp
                     \/ view.faulted
                     \/ phase = "failed"

\* docs/architecture/networking.md:184: a client whose send fails is blocked
\* alone, healthy clients and the command gateway continue.
ServerOutlivesClients == phase # "failed"
================================================================================
