------------------------------ MODULE Gateway ------------------------------
(***************************************************************************)
(* The shards of a cluster: discord_client's connection to the gateway,    *)
(* its hello, identify, resume and dispatch frames, the loss of the        *)
(* connection, cluster::add_reconnect and the reconnect monitor, and the   *)
(* start of the shards by cluster::start.                                  *)
(*                                                                         *)
(* Frames, timers and the monitor run on the event loop's thread, one at a *)
(* time: each is one action.  The shards are started by a thread of the    *)
(* pool.  Discord's side of the connection is external: it keeps one       *)
(* session per shard, numbers its events, replays the missed ones on a     *)
(* resume, and may refuse, invalidate, close or fall silent at any time.   *)
(*                                                                         *)
(* Times are kept as the seconds that are left.  max_concurrency is 1.     *)
(* The pace of outgoing messages and voice connections are left out.       *)
(***************************************************************************)
EXTENDS Integers, Sequences, FiniteSetsExt

CONSTANTS
    NumShards,   \* numshards
    Interval,    \* RECONNECT_INTERVAL, 5 in the code
    Period,      \* the reconnect monitor's frequency, 5 in the code
    AckLimit,    \* seconds without heartbeat ack that are tolerated
    MaxSeq(_),   \* bound: events of one session of a shard
    MaxWire,     \* bound: frames on their way before the gateway waits
    MaxLag,      \* bound: seconds the event loop may be late
    CanFail      \* may the constructor of a discord_client throw?

Shards == 0..(NumShards - 1)

ASSUME GatewayAssumption ==
    /\ NumShards \in Nat \ {0}
    /\ Interval \in Nat \ {0} /\ Period \in Nat \ {0}
    /\ AckLimit \in Nat /\ MaxLag \in Nat /\ MaxWire \in Nat
    /\ \A s \in Shards : MaxSeq(s) \in Nat \ {0}
    /\ CanFail \in BOOLEAN

VARIABLES
    shards,         \* the discord_client of every shard
    reconnections,  \* seconds left, or NotListed
    monitor_left,   \* seconds until the reconnect monitor's timer is due
    identify_timers,\* timers that will identify; gone: their client is deleted
    since_identify, \* seconds since last_identify, up to Interval
    start_next,     \* the shard the starting thread creates next
    start_left,     \* seconds it still sleeps
    crashed,        \* a null or dangling discord_client was used
    \* The gateway (external):
    wire,           \* per shard: frames on their way to the client
    request,        \* per shard: identify or resume on its way to the gateway
    session,        \* per shard: its session, or NoSession
    session_seq,    \* per shard: the last event of that session
    attached,       \* per shard: are events sent on its connection?
    \* History, not state of the code:
    seen            \* per shard: session and numbers of the events handled

clockVars == <<monitor_left, since_identify, start_left>>
gatewayVars == <<wire, request, session, session_seq, attached>>
vars == <<shards, reconnections, clockVars, identify_timers, start_next, crashed,
          gatewayVars, seen>>

NotListed == -1
NoSession == 0
Sessions == {1, 2}
Nothing == [session |-> NoSession, events |-> <<>>]
NoRequest == [op |-> "none", session |-> NoSession, seq |-> 0]

\* sock is "absent" before the shard was started, "null" for a null pointer,
\* "closed" when sfd is INVALID_SOCKET, and "lost" when the descriptor was
\* closed and sfd keeps its number.
Client == [sock : {"absent", "null", "closed", "open", "lost"},
           state : {"HTTP_HEADERS", "CONNECTED"}, ready : BOOLEAN,
           last_seq : Nat, sessionid : Sessions \union {NoSession},
           ack_age : 0..(AckLimit + 1)]
Frame == [op : {"hello", "invalid_session", "reconnect", "ack", "ready", "event",
                "resumed"},
          session : Sessions \union {NoSession}, seq : Nat]
Request == [op : {"none", "identify", "resume"},
            session : Sessions \union {NoSession}, seq : Nat]

NoClient(why) == [sock |-> why, state |-> "HTTP_HEADERS", ready |-> FALSE,
                  last_seq |-> 0, sessionid |-> NoSession, ack_age |-> 0]

\* discord_client's constructors followed by run(): a socket that connects.
NewClient(seq, id) == [sock |-> "open", state |-> "HTTP_HEADERS", ready |-> FALSE,
                       last_seq |-> seq, sessionid |-> id, ack_age |-> 0]

TypeOK ==
    /\ shards \in [Shards -> Client]
    /\ reconnections \in [Shards -> NotListed..Interval]
    /\ monitor_left \in (-MaxLag)..Period
    /\ identify_timers \subseteq
            [shard : Shards, left : (-MaxLag)..Interval, gone : BOOLEAN]
    /\ since_identify \in 0..Interval
    /\ start_next \in 0..NumShards
    /\ start_left \in 0..Interval
    /\ crashed \in BOOLEAN
    /\ wire \in [Shards -> Seq(Frame)]
    /\ request \in [Shards -> Request]
    /\ session \in [Shards -> Sessions \union {NoSession}]
    /\ session_seq \in [Shards -> Nat]
    /\ attached \in [Shards -> BOOLEAN]
    /\ seen \in [Shards -> [session : Sessions \union {NoSession}, events : Seq(Nat)]]

\* cluster's constructor sets last_identify five seconds back.
Init ==
    /\ shards = [s \in Shards |-> NoClient("absent")]
    /\ reconnections = [s \in Shards |-> NotListed]
    /\ monitor_left = Period
    /\ identify_timers = {}
    /\ since_identify = Interval
    /\ start_next = 0
    /\ start_left = 0
    /\ crashed = FALSE
    /\ wire = [s \in Shards |-> <<>>]
    /\ request = [s \in Shards |-> NoRequest]
    /\ session = [s \in Shards |-> NoSession]
    /\ session_seq = [s \in Shards |-> 0]
    /\ attached = [s \in Shards |-> FALSE]
    /\ seen = [s \in Shards |-> Nothing]

Up(s) == shards[s].sock = "open"
Connected(s) == Up(s) /\ shards[s].state = "CONNECTED"

-----------------------------------------------------------------------------
(* The clock.                                                              *)

Less(n, least) == IF n > least THEN n - 1 ELSE n

Second ==
    /\ ~ crashed
    /\ monitor_left > -MaxLag
    /\ \A t \in identify_timers : t.left > -MaxLag
    /\ monitor_left' = monitor_left - 1
    /\ identify_timers' = {[t EXCEPT !.left = @ - 1] : t \in identify_timers}
    /\ since_identify' = Min({since_identify + 1, Interval})
    /\ start_left' = Less(start_left, 0)
    /\ reconnections' = [s \in Shards |->
            IF reconnections[s] = NotListed THEN NotListed ELSE Less(reconnections[s], 0)]
    /\ shards' = [s \in Shards |->
            IF Connected(s)
            THEN [shards[s] EXCEPT !.ack_age = Min({@ + 1, AckLimit + 1})]
            ELSE shards[s]]
    /\ UNCHANGED <<start_next, crashed, gatewayVars, seen>>

-----------------------------------------------------------------------------
(* cluster::start, on a thread of the pool.                                *)

StartShard ==
    /\ ~ crashed
    /\ start_next < NumShards
    /\ start_left = 0
    /\ shards' = [shards EXCEPT ![start_next] = NewClient(0, NoSession)]
    /\ start_next' = start_next + 1
    /\ start_left' = Interval
    /\ UNCHANGED <<reconnections, monitor_left, identify_timers, since_identify,
                   crashed, gatewayVars, seen>>

\* "Could not start shard": the other shards are not started either.
StartFails ==
    /\ ~ crashed
    /\ CanFail
    /\ start_next < NumShards
    /\ start_left = 0
    /\ start_next' = NumShards
    /\ UNCHANGED <<shards, reconnections, clockVars, identify_timers, crashed,
                   gatewayVars, seen>>

-----------------------------------------------------------------------------
(* The end of a connection.                                                *)

AddReconnect_late(s) == [reconnections EXCEPT ![s] = Interval + 1]
AddReconnect(s) == [reconnections EXCEPT ![s] = Interval]

\* The gateway sees the connection end.
Detached(s) ==
    /\ wire' = [wire EXCEPT ![s] = <<>>]
    /\ request' = [request EXCEPT ![s] = NoRequest]
    /\ attached' = [attached EXCEPT ![s] = FALSE]
    /\ UNCHANGED <<session, session_seq>>

\* websocket_client::close and discord_client::on_disconnect.
Close(s) ==
    /\ shards' = [shards EXCEPT ![s].sock = "closed", ![s].state = "HTTP_HEADERS"]
    /\ reconnections' = AddReconnect(s)
    /\ Detached(s)

\* The connection is refused, times out, fails or is closed by the gateway.
Disconnect(s) ==
    /\ ~ crashed
    /\ Up(s)
    /\ Close(s)
    /\ UNCHANGED <<clockVars, identify_timers, start_next, crashed, seen>>

\* one_second_timer: too long without a heartbeat ack.  Only the descriptor is
\* closed, which also takes it out of the epoll set.
MissedAck(s) ==
    /\ ~ crashed
    /\ Connected(s) /\ shards[s].ready
    /\ shards[s].ack_age > AckLimit
    /\ shards' = [shards EXCEPT ![s].sock = "lost"]
    /\ Detached(s)
    /\ UNCHANGED <<reconnections, clockVars, identify_timers, start_next, crashed,
                   seen>>

-----------------------------------------------------------------------------
(* handle_frame.                                                           *)

Receives(s, ops) == Connected(s) /\ wire[s] # <<>> /\ Head(wire[s]).op \in ops
Taken(s) == wire' = [wire EXCEPT ![s] = Tail(@)]

\* What a resume announces as the last event received.
ResumeSeq_previous(c) == c.last_seq - 1
ResumeSeq(c) == c.last_seq

\* ft_hello, and ft_invalid_session, which first forgets the session: resume,
\* or identify at once or when the interval since the last identify is over.
Greeted(s, c) ==
    /\ shards' = [shards EXCEPT ![s] = [c EXCEPT !.ack_age = 0]]
    /\ Taken(s)
    /\ IF c.last_seq # 0 /\ c.sessionid # NoSession
       THEN /\ request' = [request EXCEPT ![s] =
                [op |-> "resume", session |-> c.sessionid, seq |-> ResumeSeq(c)]]
            /\ UNCHANGED <<identify_timers, since_identify>>
       ELSE IF since_identify < Interval
       THEN /\ identify_timers' = identify_timers \union
                {[shard |-> s, left |-> Interval - since_identify, gone |-> FALSE]}
            /\ UNCHANGED <<request, since_identify>>
       ELSE /\ request' = [request EXCEPT ![s] = [NoRequest EXCEPT !.op = "identify"]]
            /\ since_identify' = 0
            /\ UNCHANGED identify_timers

Hello(s) ==
    /\ ~ crashed
    /\ Receives(s, {"hello"})
    /\ Greeted(s, shards[s])
    /\ UNCHANGED <<reconnections, monitor_left, start_next, start_left, crashed,
                   session, session_seq, attached, seen>>

Forgets_sequence(c) == [c EXCEPT !.sessionid = NoSession]
Forgets(c) == [c EXCEPT !.sessionid = NoSession, !.last_seq = 0]

InvalidSession(s) ==
    /\ ~ crashed
    /\ Receives(s, {"invalid_session"})
    /\ Greeted(s, Forgets(shards[s]))
    /\ seen' = [seen EXCEPT ![s] = Nothing]
    /\ UNCHANGED <<reconnections, monitor_left, start_next, start_left, crashed,
                   session, session_seq, attached>>

\* ft_dispatch with READY or any event that carries a number.
Dispatch(s) ==
    LET f == Head(wire[s]) IN
    /\ ~ crashed
    /\ Receives(s, {"ready", "event"})
    /\ shards' = [shards EXCEPT ![s].last_seq = f.seq,
                  ![s].sessionid = IF f.op = "ready" THEN f.session ELSE @,
                  ![s].ready = @ \/ f.op = "ready"]
    /\ Taken(s)
    /\ seen' = [seen EXCEPT ![s] =
            [session |-> f.session,
             events |-> IF f.session = @.session THEN Append(@.events, f.seq)
                        ELSE <<f.seq>>]]
    /\ UNCHANGED <<reconnections, clockVars, identify_timers, start_next, crashed,
                   request, session, session_seq, attached>>

Resumed(s) ==
    /\ ~ crashed
    /\ Receives(s, {"resumed"})
    /\ shards' = [shards EXCEPT ![s].ready = TRUE]
    /\ Taken(s)
    /\ UNCHANGED <<reconnections, clockVars, identify_timers, start_next, crashed,
                   request, session, session_seq, attached, seen>>

HeartbeatAck(s) ==
    /\ ~ crashed
    /\ Receives(s, {"ack"})
    /\ shards' = [shards EXCEPT ![s].ack_age = 0]
    /\ Taken(s)
    /\ UNCHANGED <<reconnections, clockVars, identify_timers, start_next, crashed,
                   request, session, session_seq, attached, seen>>

\* ft_reconnect throws; handle_buffer catches it and on_read closes.
ReconnectRequested(s) ==
    /\ ~ crashed
    /\ Receives(s, {"reconnect"})
    /\ Close(s)
    /\ UNCHANGED <<clockVars, identify_timers, start_next, crashed, seen>>

-----------------------------------------------------------------------------
(* The timers.                                                             *)

\* tick_timers serves the timers that are due in the order of their times.
First(left) ==
    /\ left <= 0
    /\ left <= monitor_left
    /\ \A t \in identify_timers : left <= t.left

\* connect_now, delayed.  On a closed connection nothing is sent.
IdentifyTimer(t) ==
    /\ ~ crashed
    /\ t \in identify_timers /\ First(t.left) /\ ~ t.gone
    /\ identify_timers' = identify_timers \ {t}
    /\ since_identify' = 0
    /\ request' = IF Connected(t.shard)
                  THEN [request EXCEPT ![t.shard] = [NoRequest EXCEPT !.op = "identify"]]
                  ELSE request
    /\ UNCHANGED <<shards, reconnections, monitor_left, start_next, start_left,
                   crashed, wire, session, session_seq, attached, seen>>

\* The same with a this that was deleted: a crash, or a write to dead memory.
IdentifyTimerGone(t) ==
    /\ ~ crashed
    /\ t \in identify_timers /\ First(t.left) /\ t.gone
    /\ identify_timers' = identify_timers \ {t}
    /\ \/ crashed' = TRUE /\ UNCHANGED since_identify
       \/ since_identify' = 0 /\ UNCHANGED crashed
    /\ UNCHANGED <<shards, reconnections, monitor_left, start_next, start_left,
                   gatewayVars, seen>>

Due == {s \in Shards : reconnections[s] = 0}

\* reconnections is a std::map: the first entry that is due is taken.
NextDue_last == Max(Due)
NextDue == Min(Due)

Erased_allDue(s) == [p \in Shards |-> IF p \in Due THEN NotListed ELSE reconnections[p]]
Erased(s) == [reconnections EXCEPT ![s] = NotListed]

MonitorIdle ==
    /\ ~ crashed
    /\ First(monitor_left)
    /\ Due = {}
    /\ monitor_left' = monitor_left + Period
    /\ UNCHANGED <<shards, reconnections, since_identify, start_left,
                   identify_timers, start_next, crashed, gatewayVars, seen>>

\* The old client of shard s is deleted: its timers dangle.
Orphaned(s) == {IF t.shard = s THEN [t EXCEPT !.gone = TRUE] ELSE t : t \in identify_timers}

\* The resume constructor copies the old client's sequence and session.
Successor_noSeq(c) == NewClient(0, c.sessionid)
Successor(c) == NewClient(c.last_seq, c.sessionid)

MonitorReconnects ==
    LET s == NextDue IN
    /\ ~ crashed
    /\ First(monitor_left)
    /\ Due # {}
    /\ shards[s].sock # "null"
    /\ shards' = [shards EXCEPT ![s] = Successor(@)]
    /\ reconnections' = Erased(s)
    /\ identify_timers' = Orphaned(s)
    /\ monitor_left' = monitor_left + Period
    /\ UNCHANGED <<since_identify, start_left, start_next, crashed, gatewayVars, seen>>

\* The new client's constructor throws.
MonitorFails ==
    LET s == NextDue IN
    /\ ~ crashed
    /\ CanFail
    /\ First(monitor_left)
    /\ Due # {}
    /\ shards[s].sock # "null"
    /\ shards' = [shards EXCEPT ![s] = NoClient("null")]
    /\ reconnections' = AddReconnect(s)
    /\ identify_timers' = Orphaned(s)
    /\ monitor_left' = monitor_left + Period
    /\ seen' = [seen EXCEPT ![s] = Nothing]
    /\ UNCHANGED <<since_identify, start_left, start_next, crashed, gatewayVars>>

\* old->last_seq with a null old.
MonitorCrashes ==
    LET s == NextDue IN
    /\ ~ crashed
    /\ First(monitor_left)
    /\ Due # {}
    /\ shards[s].sock = "null"
    /\ crashed' = TRUE
    /\ reconnections' = Erased(s)
    /\ UNCHANGED <<shards, clockVars, identify_timers, start_next, gatewayVars, seen>>

-----------------------------------------------------------------------------
(* The gateway.                                                            *)

Sent(s, frames) == wire' = [wire EXCEPT ![s] = @ \o frames]
FrameOf(op, id, n) == [op |-> op, session |-> id, seq |-> n]

\* The TCP, TLS and HTTP handshakes end with 101, and the gateway says hello.
Upgrade(s) ==
    /\ ~ crashed
    /\ Up(s) /\ shards[s].state = "HTTP_HEADERS"
    /\ shards' = [shards EXCEPT ![s].state = "CONNECTED"]
    /\ Sent(s, <<FrameOf("hello", NoSession, 0)>>)
    /\ UNCHANGED <<reconnections, clockVars, identify_timers, start_next, crashed,
                   request, session, session_seq, attached, seen>>

AcceptIdentify(s) ==
    /\ ~ crashed
    /\ request[s].op = "identify"
    /\ \E id \in Sessions \ {session[s]} :
        /\ session' = [session EXCEPT ![s] = id]
        /\ Sent(s, <<FrameOf("ready", id, 1)>>)
    /\ session_seq' = [session_seq EXCEPT ![s] = 1]
    /\ attached' = [attached EXCEPT ![s] = TRUE]
    /\ request' = [request EXCEPT ![s] = NoRequest]
    /\ UNCHANGED <<shards, reconnections, clockVars, identify_timers, start_next,
                   crashed, seen>>

AcceptResume(s) ==
    LET r == request[s] IN
    /\ ~ crashed
    /\ r.op = "resume" /\ r.session = session[s]
    /\ Sent(s, [i \in 1..Max({session_seq[s] - r.seq, 0}) |->
                    FrameOf("event", r.session, r.seq + i)]
               \o <<FrameOf("resumed", r.session, 0)>>)
    /\ attached' = [attached EXCEPT ![s] = TRUE]
    /\ request' = [request EXCEPT ![s] = NoRequest]
    /\ UNCHANGED <<shards, reconnections, clockVars, identify_timers, start_next,
                   crashed, session, session_seq, seen>>

\* Any identify or resume may be refused, and a session may be ended at any time.
Invalidate(s) ==
    /\ ~ crashed
    /\ request[s].op # "none" \/ attached[s]
    /\ Len(wire[s]) < MaxWire
    /\ Sent(s, <<FrameOf("invalid_session", NoSession, 0)>>)
    /\ request' = [request EXCEPT ![s] = NoRequest]
    /\ session' = [session EXCEPT ![s] = NoSession]
    /\ session_seq' = [session_seq EXCEPT ![s] = 0]
    /\ attached' = [attached EXCEPT ![s] = FALSE]
    /\ UNCHANGED <<shards, reconnections, clockVars, identify_timers, start_next,
                   crashed, seen>>

\* An event happens; it is kept for a resume when the shard is not attached.
Happens(s) ==
    /\ ~ crashed
    /\ session[s] # NoSession
    /\ session_seq[s] < MaxSeq(s)
    /\ session_seq' = [session_seq EXCEPT ![s] = @ + 1]
    /\ IF attached[s]
       THEN /\ Len(wire[s]) < MaxWire
            /\ Sent(s, <<FrameOf("event", session[s], session_seq[s] + 1)>>)
       ELSE UNCHANGED wire
    /\ UNCHANGED <<shards, reconnections, clockVars, identify_timers, start_next,
                   crashed, request, session, attached, seen>>

\* The gateway acknowledges a heartbeat, or asks the shard to reconnect.
Signal(s) ==
    /\ ~ crashed
    /\ attached[s]
    /\ Len(wire[s]) < MaxWire
    /\ \E op \in {"ack", "reconnect"} : Sent(s, <<FrameOf(op, NoSession, 0)>>)
    /\ UNCHANGED <<shards, reconnections, clockVars, identify_timers, start_next,
                   crashed, request, session, session_seq, attached, seen>>

-----------------------------------------------------------------------------
HandleFrame(s) ==
    \/ Hello(s) \/ InvalidSession(s) \/ Dispatch(s) \/ Resumed(s)
    \/ HeartbeatAck(s) \/ ReconnectRequested(s)

TimerStep ==
    \/ \E t \in identify_timers : IdentifyTimer(t) \/ IdentifyTimerGone(t)
    \/ MonitorIdle \/ MonitorReconnects \/ MonitorFails \/ MonitorCrashes

GatewayStep(s) ==
    \/ Upgrade(s) \/ AcceptIdentify(s) \/ AcceptResume(s) \/ Invalidate(s)
    \/ Happens(s) \/ Signal(s)

Next ==
    \/ Second \/ StartShard \/ StartFails \/ TimerStep
    \/ \E s \in Shards : \/ HandleFrame(s) \/ Disconnect(s) \/ MissedAck(s)
                         \/ GatewayStep(s)

Spec == Init /\ [][Next]_vars

\* The clock goes on, the loop serves its timers and frames, and shards are
\* started; the gateway owes nothing, and no connection has to fail.
FairSpec ==
    /\ Spec
    /\ WF_vars(Second)
    /\ WF_vars(TimerStep)
    /\ WF_vars(StartShard \/ StartFails)
    /\ \A s \in Shards : WF_vars(HandleFrame(s) \/ MissedAck(s))

-----------------------------------------------------------------------------
(* Properties.                                                             *)

\* reconnections lists exactly the shards whose connection was closed with
\* close(), and those whose new client the monitor could not construct, until
\* the monitor has made a new one, whatever happens to the others.  A shard
\* that cluster::start gave up on, and one whose descriptor was closed for
\* missing acks, have no connection either and are not listed.
NoShardForgotten ==
    ~ crashed => \A s \in Shards :
        shards[s].sock \in {"closed", "null"} <=> reconnections[s] # NotListed

\* Events are neither lost, repeated nor reordered: the events of a session
\* are handed to handle_event one after the other from the first, across any number of lost
\* connections, resumes and refused identifies.
EventsInOrder ==
    \A s \in Shards : \A i \in DOMAIN seen[s].events : seen[s].events[i] = i

\* A session that the gateway has not revoked is never given up: as long as
\* the shard has a client, that client can resume from the last event handed on.
SessionKept ==
    \A s \in Shards : shards[s].sock # "null" =>
        /\ shards[s].sessionid = seen[s].session
        /\ shards[s].last_seq = Len(seen[s].events)

\* A shard whose connection was closed has a client with a new socket in the
\* end, provided that the connections of the shards before it in the map stop
\* failing in the end and that the process never crashes: not in the delayed
\* identify of a deleted client, and not after a construction that failed.
ClosedIsReplaced ==
    \A s \in Shards :
        [](~ crashed) /\ <>[](\A p \in Shards : p < s => Up(p))
            => (shards[s].sock = "closed" ~> Up(s))

-----------------------------------------------------------------------------
(* What the documentation says and the code does not do.                   *)

\* discordclient.cpp:415-417, of missing heartbeat acks: "the connections is
\* dead ... Miss two ACKS, forces a reconnection".
MissedAckReconnects ==
    \A s \in Shards : shards[s].sock = "lost" ~> shards[s].sock = "open"

=============================================================================
