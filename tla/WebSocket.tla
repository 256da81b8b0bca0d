----------------------------- MODULE WebSocket -----------------------------
(***************************************************************************)
(* websocket_client over an ssl_connection: the upgrade, handle_buffer and *)
(* parseheader, pings and pongs, timeouts and close, composed with         *)
(* SslConnection.                                                          *)
(*                                                                         *)
(* The server's stream is cut into reads at arbitrary places.  A frame is  *)
(* a run of units of two bytes: the response to the upgrade is frame 0, a  *)
(* ping or pong without payload is the shortest frame, one unit.  What     *)
(* handle_frame does with a payload belongs to Gateway.                    *)
(*                                                                         *)
(* Not modelled: fragmented messages, masked frames and unknown opcodes,   *)
(* which Discord does not send, and the interplay of header and payload of *)
(* frames written by two threads at once.                                  *)
(***************************************************************************)
EXTENDS SslConnection, FiniteSets

CONSTANTS
    MaxFrames,   \* bound: frames the server sends after the upgrade
    FrameLens    \* lengths of its data frames, in units

ASSUME WebSocketAssumption ==
    /\ MaxFrames \in Nat
    /\ FrameLens \subseteq Nat \ {0, 1}

VARIABLES
    state,       \* HTTP_HEADERS or CONNECTED
    pongs,       \* pings handled and not yet answered
    frames,      \* frames the server has sent, the upgrade's response included
    handled      \* history: how many frames have been handled since the upgrade

wsVars == <<state, pongs, frames, handled>>
vars == <<sslVars, wsVars>>

FrameKind == {"response", "data", "ping", "pong", "close"}
Unit == [frame : 0..MaxFrames, kind : FrameKind, at : Nat, len : Nat]

TypeOK ==
    /\ SslTypeOK
    /\ arrived \in Seq(Unit \union {Mark(k) : k \in MarkKind})
    /\ buffer \in Seq(Unit)
    /\ state \in {"HTTP_HEADERS", "CONNECTED"}
    /\ pongs \in 0..MaxFrames
    /\ frames \in 0..(MaxFrames + 1)
    /\ handled \in 0..MaxFrames

Init ==
    /\ SslInit
    /\ state = "HTTP_HEADERS"
    /\ pongs = 0
    /\ frames = 0
    /\ handled = 0

Units(f, k, n) == [i \in 1..n |-> [frame |-> f, kind |-> k, at |-> i, len |-> n]]

-----------------------------------------------------------------------------
(* handle_buffer.                                                          *)

\* Where in buffer b a frame may begin: at the front, and after a last unit.
Starts(b) == {p \in 0..Len(b) : p = 0 \/ b[p].at = b[p].len}

\* parseheader wants four bytes, and then the whole frame.
Parseable(b, p) == Len(b) - p >= 2 /\ p + b[p + 1].len <= Len(b)

\* The loop of handle_buffer stops at the first frame it can not parse or at
\* a close frame, whose error() throws.
Stops(b, p) == \/ ~ Parseable(b, p)
               \/ b[p + 1].kind = "close"
StopAt(b) == CHOOSE p \in Starts(b) :
                /\ Stops(b, p)
                /\ \A q \in Starts(b) : Stops(b, q) => p <= q

FramesIn(b) == {b[i].frame : i \in 1..Len(b)}
PingsIn(b) == {b[i].frame : i \in {j \in 1..Len(b) : b[j].kind = "ping"}}

\* What follows the frames that have been erased.
From_cleared(b, p) == <<>>
From(b, p) == SubSeq(b, p + 1, Len(b))

\* In state CONNECTED: every whole frame is handled and erased.
HandleFrames(n) ==
    LET b == buffer \o SubSeq(arrived, 1, n)
        p == StopAt(b)
        done == SubSeq(b, 1, p)
    IN  /\ state = "CONNECTED"
        /\ IF Parseable(b, p)
           THEN /\ CloseNow
                /\ state' = "HTTP_HEADERS"
                /\ UNCHANGED pongs
           ELSE /\ ReadData(n, From(b, p))
                /\ pongs' = pongs + Cardinality(PingsIn(done))
                /\ UNCHANGED state
        /\ handled' = handled + Cardinality(FramesIn(done))
        /\ UNCHANGED frames

HasHeaders(b) == \E i \in 1..Len(b) : b[i].kind = "response" /\ b[i].at = b[i].len

\* In state HTTP_HEADERS: the whole response must have come with the first
\* read.  101 upgrades the connection, 200 and 204 are passed over.  What
\* follows the response stays in the buffer, unparsed, until the next read.
HandleHeaders(n, status) ==
    LET b == buffer \o SubSeq(arrived, 1, n)
    IN  /\ state = "HTTP_HEADERS"
        /\ IF HasHeaders(b) /\ status \in {101, 200, 204}
           THEN /\ ReadData(n, From(b, b[1].len))
                /\ state' = IF status = 101 THEN "CONNECTED" ELSE state
           ELSE /\ CloseNow
                /\ UNCHANGED state
        /\ UNCHANGED <<pongs, frames, handled>>

\* SSL_read returns no more than one record, which a ticket or the end of the
\* stream is not part of.
ReadAndHandle ==
    /\ loop = "read" /\ "read" \in ev /\ connected
    /\ \E n \in 1..Least(Len(arrived), BufSize) :
        /\ \A i \in 1..n : arrived[i].kind \notin MarkKind
        /\ \/ HandleFrames(n)
           \/ \E status \in {101, 200, 500} : HandleHeaders(n, status)

\* handle_ping writes a header and the payload back (unless MaxOut is reached).
Pong ==
    /\ loop = "handled"
    /\ pongs > 0
    /\ pongs' = pongs - 1
    /\ IF next_out < MaxOut THEN LoopWrites(2) /\ UNCHANGED loopVars
       ELSE UNCHANGED sslVars
    /\ UNCHANGED <<state, frames, handled>>

Handled ==
    /\ pongs = 0
    /\ AfterHandle
    /\ UNCHANGED wsVars

-----------------------------------------------------------------------------
(* one_second_timer and close.                                             *)

\* connect() writes the upgrade's request, and later a ping goes out every
\* twenty seconds, header and payload.
TimerWrites ==
    /\ loop = "wait"
    /\ IF state = "CONNECTED" THEN LoopWrites(2) ELSE next_out = 1 /\ LoopWrites(1)
    /\ UNCHANGED <<loopVars, wsVars>>

Ended == state' = "HTTP_HEADERS" /\ pongs' = 0 /\ UNCHANGED <<frames, handled>>

\* The upgrade has not been answered in time.
TimeOut ==
    /\ loop = "wait"
    /\ open
    /\ state # "CONNECTED"
    /\ CloseNow
    /\ Ended

-----------------------------------------------------------------------------
(* The server.                                                             *)

ServerFlight ==
    /\ ~ connected /\ arrived = <<>> /\ interest = {"read"} /\ loop \notin {"store", "write"}
    /\ Arrive(<<Mark("flight")>>)
    /\ UNCHANGED wsVars

ServerTicket ==
    /\ connected /\ frames = 0 /\ arrived = <<>>
    /\ Arrive(<<Mark("ticket")>>)
    /\ UNCHANGED wsVars

ServerFrame(k, n) ==
    /\ connected
    /\ frames <= MaxFrames
    /\ IF frames = 0 THEN k = "response" /\ sent > 0 ELSE k # "response"
    /\ Arrive(Units(frames, k, n))
    /\ frames' = frames + 1
    /\ UNCHANGED <<state, pongs, handled>>

ServerEnds ==
    /\ connected
    /\ Arrive(<<Mark("eof")>>)
    /\ UNCHANGED wsVars

Server ==
    \/ ServerFlight
    \/ ServerTicket
    \/ ServerEnds
    \/ \E n \in FrameLens, k \in {"response", "data"} : ServerFrame(k, n)
    \/ \E k \in {"ping", "pong"} : ServerFrame(k, 1)
    \/ ServerFrame("close", 2)

-----------------------------------------------------------------------------
Writer ==
    /\ WriterAppend \/ WriterFlag \/ WriterUpdate
    /\ UNCHANGED wsVars

\* Steps of the loop that do not end the connection.
LoopStep ==
    \/ /\ \/ EpollWait \/ ModifyEvent \/ StoreFlags \/ Erase
          \/ HandshakeWants \/ HandshakeDone
          \/ CopyOutput \/ SendOutput \/ SendBlocked \/ SendSwallowed
          \/ NothingToRead \/ ReadWants \/ ReadEof \/ ReadSwallowed \/ RearmWrite
       /\ UNCHANGED wsVars
    \/ ReadAndHandle
    \/ Pong
    \/ Handled
    \/ OnError /\ Ended

Fails == (HandshakeFails \/ SendFails \/ ReadFails) /\ Ended

Next ==
    \/ Writer
    \/ LoopStep
    \/ Fails
    \/ TimerWrites
    \/ TimeOut
    \/ Server
    \/ RoomAgain /\ UNCHANGED wsVars

\* The threads run, and a connection that lasts lets the output through: TCP
\* does not refuse the same record for ever.
Spec ==
    /\ Init /\ [][Next]_vars
    /\ SF_vars(SendOutput /\ UNCHANGED wsVars)
    /\ WF_vars(Writer /\ writer # "idle")
    /\ WF_vars(LoopStep)
    /\ WF_vars(RoomAgain /\ UNCHANGED wsVars)

-----------------------------------------------------------------------------
(* Properties.                                                             *)

\* What has arrived of the stream, without the mark of its end.
Stream(a) == IF a # <<>> /\ a[Len(a)].kind = "eof" THEN SubSeq(a, 1, Len(a) - 1) ELSE a

\* However the stream is cut into reads, the frames handled since the upgrade
\* are exactly the frames that came, whole, once and in order: the input
\* buffer holds what follows the last one handled, from its beginning.
FramesInOrder ==
    state = "CONNECTED" =>
        LET rest == buffer \o Stream(arrived)
        IN  /\ rest = <<>> => handled = frames - 1
            /\ rest # <<>> => rest[1].frame = handled + 1 /\ rest[1].at = 1
            /\ \A i \in 2..Len(rest) :
                \/ rest[i].frame = rest[i - 1].frame /\ rest[i].at = rest[i - 1].at + 1
                \/ /\ rest[i].frame = rest[i - 1].frame + 1
                   /\ rest[i].at = 1 /\ rest[i - 1].at = rest[i - 1].len

\* What another thread writes leaves obuffer, and what arrives is read, unless
\* the connection ends or an error has been passed over: again and again nothing
\* waits in either direction.
DataMoves ==
    []<>(connected /\ open /\ ~ swallowed => obuffer = <<>> /\ arrived = <<>>)

=============================================================================
