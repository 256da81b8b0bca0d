--------------------------- MODULE SslConnection ---------------------------
(***************************************************************************)
(* ssl_connection over TLS, with its entry in the socket engine and epoll: *)
(* socket_write, on_write, on_read, complete_handshake and close, the part *)
(* of process_events that serves one descriptor, update_socket,            *)
(* inplace_modify_fd and delete_socket.                                    *)
(*                                                                         *)
(* Two threads: the event loop, and a writer that calls socket_write (the  *)
(* user's thread in a voice client or an https_client).  The critical      *)
(* sections of out_mutex are kept apart, and so are the two halves of      *)
(* inplace_modify_fd and of modify_event, which hold no common lock.       *)
(*                                                                         *)
(* epoll is edge triggered: a descriptor is listed once when epoll_ctl     *)
(* finds it ready or when something arrives, and epoll_wait reports what   *)
(* is ready at that moment.                                                *)
(*                                                                         *)
(* A unit of the stream stands for two bytes.  What the connection's owner *)
(* makes of the input, handle_buffer, is left to the module that composes  *)
(* this one (WebSocket).  Not modelled: plaintext connections, SSL_write   *)
(* that wants to read (renegotiation), retries of connect().               *)
(***************************************************************************)
EXTENDS Naturals, Sequences

CONSTANTS
    BufSize,     \* DPP_BUFSIZE, in units
    MaxOut       \* bound: units written in one behaviour

ASSUME SslAssumption == BufSize \in Nat \ {0} /\ MaxOut \in Nat

VARIABLES
    obuffer,
    raw,            \* client_to_server_buffer, from the offset on
    sent,           \* how many units SSL_write has accepted
    next_out,       \* the next unit socket_write will be given
    connected,
    open,           \* sfd # INVALID_SOCKET
    out_mutex,      \* "free" or "writer": the loop's sections are single actions
    flags,          \* flags of the entry in fds; {} when it has been erased
    interest,       \* what epoll_ctl was told last
    listed,         \* is the descriptor on epoll's ready list?
    room,           \* may TCP accept another record?
    hung_up,        \* EPOLLHUP
    loop,           \* where the event loop is
    ev,             \* events of this descriptor still to be served
    new_events,     \* modify_event's result, before it is stored
    writer,         \* where the writer is in socket_write
    copy,           \* inplace_modify_fd's s
    arrived,        \* units that SSL_read can take, and Marks between them
    buffer,
    swallowed       \* history: has an error of SSL_write or SSL_read been passed over?

outVars == <<obuffer, raw, sent, next_out>>
engineVars == <<flags, interest, listed>>
loopVars == <<loop, ev, new_events>>
writerVars == <<writer, copy, out_mutex>>
netVars == <<room, hung_up, arrived>>
sslVars == <<outVars, connected, open, swallowed, engineVars, loopVars, writerVars, netVars, buffer>>

Flag == {"read", "write", "error", "deletion"}
RWE == {"read", "write", "error"}
RE == {"read", "error"}
LoopPC == {"wait", "modify", "store", "write", "copy", "send", "read", "handled",
           "armed", "erase"}

SslTypeOK ==
    /\ obuffer \in Seq(1..MaxOut)
    /\ raw \in Seq(1..MaxOut) /\ Len(raw) <= BufSize
    /\ sent \in 0..MaxOut
    /\ next_out \in 1..(MaxOut + 1)
    /\ connected \in BOOLEAN
    /\ open \in BOOLEAN
    /\ swallowed \in BOOLEAN
    /\ out_mutex \in {"free", "writer"}
    /\ flags \subseteq Flag
    /\ interest \subseteq {"read", "write"}
    /\ listed \in BOOLEAN
    /\ room \in BOOLEAN
    /\ hung_up \in BOOLEAN
    /\ loop \in LoopPC
    /\ ev \subseteq {"read", "write", "hup"}
    /\ new_events \subseteq Flag
    /\ writer \in {"idle", "flag", "update"}
    /\ copy \subseteq Flag

\* The server's part of the handshake, a session ticket, the end of the stream.
MarkKind == {"flight", "ticket", "eof"}
Mark(k) == [frame |-> 0, kind |-> k, at |-> 0, len |-> 0]

\* The descriptor has been registered and connect() has succeeded.
SslInit ==
    /\ obuffer = <<>> /\ raw = <<>> /\ sent = 0 /\ next_out = 1
    /\ connected = FALSE /\ open = TRUE /\ swallowed = FALSE
    /\ out_mutex = "free"
    /\ flags = RWE /\ interest = {"read", "write"} /\ listed = TRUE
    /\ room = TRUE /\ hung_up = FALSE
    /\ loop = "wait" /\ ev = {} /\ new_events = {}
    /\ writer = "idle" /\ copy = {}
    /\ arrived = <<>> /\ buffer = <<>>

-----------------------------------------------------------------------------
(* The socket engine.                                                      *)

Ready == {c \in {"read", "write"} : \/ c = "read" /\ arrived # <<>>
                                    \/ c = "write" /\ room}

\* epoll_ctl(EPOLL_CTL_MOD); on a closed descriptor it fails.
\* (What becomes unready in the same action is listed too, and then skipped by
\* epoll_wait.)
EpollMod(f) ==
    IF open THEN /\ interest' = f \intersect {"read", "write"}
                 /\ listed' = (f \intersect Ready # {} \/ hung_up)
    ELSE UNCHANGED <<interest, listed>>

UpdateSocket(f) ==
    IF flags = {} THEN UNCHANGED engineVars
    ELSE flags' = f /\ EpollMod(f)

-----------------------------------------------------------------------------
(* socket_write on the writer's thread.                                    *)

\* lock(out_mutex) and obuffer += data.
WriterAppend ==
    /\ writer = "idle"
    /\ out_mutex = "free"
    /\ next_out <= MaxOut
    /\ open
    /\ obuffer' = Append(obuffer, next_out)
    /\ next_out' = next_out + 1
    /\ out_mutex' = "writer"
    /\ writer' = "flag"
    /\ UNCHANGED <<raw, sent, connected, open, swallowed, engineVars, loopVars, copy, netVars,
                   buffer>>

\* inplace_modify_fd, under fds_mutex.
WriterFlag ==
    /\ writer = "flag"
    /\ IF flags = {} \/ "write" \in flags \/ ~ open
       THEN /\ writer' = "idle"
            /\ out_mutex' = "free"
            /\ UNCHANGED <<flags, copy>>
       ELSE /\ flags' = flags \union {"write"}
            /\ copy' = flags \union {"write"}
            /\ writer' = "update"
            /\ UNCHANGED out_mutex
    /\ UNCHANGED <<outVars, connected, open, swallowed, interest, listed, loopVars, netVars, buffer>>

\* inplace_modify_fd, after the unlock: update_socket(s).
WriterUpdate ==
    /\ writer = "update"
    /\ UpdateSocket(copy)
    /\ copy' = {}
    /\ writer' = "idle"
    /\ out_mutex' = "free"
    /\ UNCHANGED <<outVars, connected, open, swallowed, loopVars, netVars, buffer>>

\* socket_write by the event loop's own thread, of n units.
LoopWrites(n) ==
    /\ out_mutex = "free"
    /\ next_out + n - 1 <= MaxOut
    /\ open
    /\ obuffer' = obuffer \o [i \in 1..n |-> next_out + i - 1]
    /\ next_out' = next_out + n
    /\ IF flags = {} \/ "write" \in flags THEN UNCHANGED engineVars
       ELSE UpdateSocket(flags \union {"write"})
    /\ UNCHANGED <<raw, sent, connected, open, swallowed, writerVars, netVars, buffer>>

-----------------------------------------------------------------------------
(* process_events.                                                         *)

\* epoll_wait, and the test for WANT_DELETION; a hang-up goes to on_error.
EpollWait ==
    /\ loop = "wait"
    /\ listed
    /\ flags # {}
    /\ ev' = IF hung_up THEN {"hup"} ELSE interest \intersect Ready
    /\ listed' = FALSE
    /\ loop' = IF ev' = {} THEN "wait"
               ELSE IF "deletion" \in flags THEN "erase" ELSE "modify"
    /\ UNCHANGED <<outVars, connected, open, swallowed, flags, interest, new_events, writerVars,
                   netVars, buffer>>

\* modify_event: WANT_WRITE is taken back, from epoll first, ...
ModifyEvent ==
    /\ loop = "modify"
    /\ "hup" \notin ev
    /\ IF "write" \notin ev
       THEN loop' = "read" /\ UNCHANGED <<engineVars, new_events>>
       ELSE /\ loop' = "store"
            /\ new_events' = flags \ {"write"}
            /\ IF "write" \in flags THEN EpollMod(flags \ {"write"})
               ELSE UNCHANGED <<interest, listed>>
            /\ UNCHANGED flags
    /\ UNCHANGED <<outVars, connected, open, swallowed, ev, writerVars, netVars, buffer>>

\* ... and then from the entry, without a lock.
StoreFlags ==
    /\ loop = "store"
    /\ flags' = new_events
    /\ new_events' = {}
    /\ loop' = IF connected THEN "copy" ELSE "write"
    /\ UNCHANGED <<outVars, connected, open, swallowed, interest, listed, ev, writerVars, netVars,
                   buffer>>

\* An entry marked for deletion is erased.
Erase ==
    /\ loop = "erase"
    /\ loop' = "wait"
    /\ ev' = {}
    /\ flags' = IF "deletion" \in flags THEN {} ELSE flags
    /\ UNCHANGED <<outVars, connected, open, swallowed, interest, listed, new_events, writerVars, netVars,
                   buffer>>

\* ssl_connection::close: delete_socket, close_socket and the buffers.  What is
\* left of the event does nothing more to this connection.
Close ==
    /\ connected' = FALSE
    /\ open' = FALSE
    /\ flags' = IF flags = {} THEN {} ELSE flags \union {"deletion"}
    /\ interest' = {} /\ listed' = FALSE
    /\ raw' = <<>> /\ obuffer' = <<>> /\ buffer' = <<>>
    /\ ev' = {} /\ new_events' = {}

\* Close as the last thing the loop does for this event.
CloseNow ==
    /\ Close
    /\ loop' = IF loop = "wait" THEN "wait" ELSE "erase"
    /\ UNCHANGED <<sent, next_out, swallowed, writerVars, netVars>>

\* on_error, after EPOLLHUP or EPOLLERR; the loop goes on with the next event.
OnError ==
    /\ loop = "modify"
    /\ "hup" \in ev
    /\ Close
    /\ loop' = "wait"
    /\ UNCHANGED <<sent, next_out, swallowed, writerVars, netVars>>

-----------------------------------------------------------------------------
(* complete_handshake, from on_write or on_read.                           *)

InHandshake == ~ connected /\ (loop = "write" \/ (loop = "read" /\ "read" \in ev))

\* SSL_do_handshake waits for the server, or for TCP to take its record, ...
HandshakeWants ==
    /\ InHandshake
    /\ \/ arrived = <<>> /\ UpdateSocket(RE) /\ UNCHANGED room
       \/ room' = FALSE /\ UpdateSocket(RWE)
    /\ loop' = IF loop = "write" THEN "read" ELSE "armed"
    /\ UNCHANGED <<outVars, connected, open, swallowed, ev, new_events, writerVars, hung_up, arrived,
                   buffer>>

\* ... or fails: the exception makes process_events call on_error, ...
HandshakeFails ==
    /\ InHandshake
    /\ CloseNow

\* ... or succeeds, having taken the server's flight; on_write goes straight on
\* with the output.
HandshakeDone ==
    /\ InHandshake
    /\ arrived # <<>> /\ Head(arrived).kind = "flight"
    /\ arrived' = Tail(arrived)
    /\ connected' = TRUE
    /\ UpdateSocket(RWE)
    /\ loop' = IF loop = "write" THEN "copy" ELSE "armed"
    /\ UNCHANGED <<outVars, open, swallowed, ev, new_events, writerVars, room, hung_up,
                   buffer>>

-----------------------------------------------------------------------------
(* on_write of a connected session.                                        *)

MayCopy_always == obuffer # <<>>
MayCopy == obuffer # <<>> /\ raw = <<>>

Least(m, n) == IF m < n THEN m ELSE n

CopyLength_whole == Len(obuffer)
CopyLength == Least(Len(obuffer), BufSize)

\* Under out_mutex: as much of obuffer as fits the empty raw buffer.
CopyOutput ==
    /\ loop = "copy"
    /\ out_mutex = "free"
    /\ loop' = "send"
    /\ IF MayCopy
       THEN /\ raw' = SubSeq(obuffer, 1, CopyLength)
            /\ obuffer' = SubSeq(obuffer, CopyLength + 1, Len(obuffer))
       ELSE UNCHANGED <<raw, obuffer>>
    /\ UNCHANGED <<sent, next_out, connected, open, swallowed, engineVars, ev, new_events, writerVars,
                   netVars, buffer>>

\* SSL_write takes everything, or there was nothing to write (a spurious
\* event); then, under out_mutex, another write event is asked for if obuffer
\* has more.  TCP may be full now.
SendOutput ==
    /\ loop = "send"
    /\ raw = <<>> \/ room
    /\ out_mutex = "free"
    /\ sent' = sent + Len(raw)
    /\ raw' = <<>>
    /\ room' \in IF raw = <<>> THEN {room} ELSE BOOLEAN
    /\ IF obuffer # <<>> THEN UpdateSocket(RWE) ELSE UNCHANGED engineVars
    /\ loop' = "read"
    /\ UNCHANGED <<obuffer, next_out, connected, open, swallowed, ev, new_events, writerVars, hung_up,
                   arrived, buffer>>

\* SSL_ERROR_WANT_WRITE: TCP did not take the whole record.
SendBlocked ==
    /\ loop = "send"
    /\ raw # <<>>
    /\ room' = FALSE
    /\ UpdateSocket(RWE)
    /\ loop' = "read"
    /\ UNCHANGED <<outVars, connected, open, swallowed, ev, new_events, writerVars, hung_up, arrived,
                   buffer>>

\* SSL_ERROR_SYSCALL with errno set.
SendFails ==
    /\ loop = "send"
    /\ raw # <<>>
    /\ CloseNow

\* SSL_ERROR_SYSCALL with errno 0, and the errors of the default case: on_write
\* returns.  Nothing is closed and no event is asked for.
SendSwallowed ==
    /\ loop = "send"
    /\ raw # <<>>
    /\ swallowed' = TRUE
    /\ loop' = "read"
    /\ UNCHANGED <<outVars, connected, open, engineVars, ev, new_events, writerVars,
                   netVars, buffer>>

-----------------------------------------------------------------------------
(* on_read of a connected session.                                         *)

NothingToRead ==
    /\ loop = "read"
    /\ "read" \notin ev
    /\ loop' = "erase"
    /\ UNCHANGED <<outVars, connected, open, swallowed, engineVars, ev, new_events, writerVars,
                   netVars, buffer>>

\* SSL_read returns the first n units; the caller says what handle_buffer, which
\* returned true, has left of the buffer.
ReadData(n, left) ==
    /\ loop = "read" /\ "read" \in ev /\ connected
    /\ n \in 1..Least(Len(arrived), BufSize)
    /\ arrived' = SubSeq(arrived, n + 1, Len(arrived))
    /\ buffer' = left
    /\ loop' = "handled"
    /\ UNCHANGED <<outVars, connected, open, swallowed, engineVars, ev, new_events, writerVars, room,
                   hung_up>>

AfterRead_writeOnly == {"write", "error"}
AfterRead == RWE

\* handle_buffer has returned: the events are asked for again, which also makes
\* epoll look for input that is left.
AfterHandle ==
    /\ loop = "handled"
    /\ UpdateSocket(AfterRead)
    /\ loop' = "armed"
    /\ UNCHANGED <<outVars, connected, open, swallowed, ev, new_events, writerVars, netVars, buffer>>

\* SSL_read found nothing, or only a session ticket: SSL_ERROR_WANT_READ.
ReadWants ==
    /\ loop = "read" /\ "read" \in ev /\ connected
    /\ \/ arrived = <<>> /\ UNCHANGED arrived
       \/ arrived # <<>> /\ Head(arrived).kind = "ticket" /\ arrived' = Tail(arrived)
    /\ UpdateSocket(RE)
    /\ loop' = "armed"
    /\ UNCHANGED <<outVars, connected, open, swallowed, ev, new_events, writerVars, room, hung_up,
                   buffer>>

\* SSL_ERROR_ZERO_RETURN: SSL_shutdown and nothing else; the server answers it
\* by hanging up.
ReadEof ==
    /\ loop = "read" /\ "read" \in ev /\ connected
    /\ arrived # <<>> /\ Head(arrived).kind = "eof"
    /\ hung_up' = TRUE
    /\ listed' = TRUE
    /\ loop' = "erase"
    /\ UNCHANGED <<outVars, connected, open, swallowed, flags, interest, ev, new_events, writerVars, room,
                   arrived, buffer>>

\* SSL_ERROR_SYSCALL with errno set, and the other errors.
ReadFails ==
    /\ loop = "read" /\ "read" \in ev /\ connected
    /\ CloseNow

\* SSL_ERROR_SYSCALL with errno 0: on_read goes on to its last statements.
ReadSwallowed ==
    /\ loop = "read" /\ "read" \in ev /\ connected
    /\ swallowed' = TRUE
    /\ loop' = "armed"
    /\ UNCHANGED <<outVars, connected, open, engineVars, ev, new_events, writerVars,
                   netVars, buffer>>

NeedsWrite_never == FALSE
NeedsWrite == connected /\ obuffer # <<>>

\* The last statements of on_read, under out_mutex.  SSL_want_write is false
\* here: the last operation of the session was a read.
RearmWrite ==
    /\ loop = "armed"
    /\ out_mutex = "free"
    /\ IF NeedsWrite THEN UpdateSocket(RWE) ELSE UNCHANGED engineVars
    /\ loop' = "erase"
    /\ UNCHANGED <<outVars, connected, open, swallowed, ev, new_events, writerVars, netVars, buffer>>

-----------------------------------------------------------------------------
(* The network.                                                            *)

\* TCP has sent something and takes more.
RoomAgain ==
    /\ open
    /\ ~ room
    /\ room' = TRUE
    /\ listed' = (listed \/ "write" \in interest)
    /\ UNCHANGED <<outVars, connected, open, swallowed, flags, interest, loopVars, writerVars,
                   hung_up, arrived, buffer>>

Arrive(units) ==
    /\ open
    /\ \A i \in 1..Len(arrived) : arrived[i].kind # "eof"
    /\ arrived' = arrived \o units
    /\ listed' = (listed \/ "read" \in interest)
    /\ UNCHANGED <<outVars, connected, open, swallowed, flags, interest, loopVars, writerVars,
                   room, hung_up, buffer>>

-----------------------------------------------------------------------------
(* Properties.                                                             *)

\* The output stream is intact: what was accepted by SSL_write, what waits in
\* the raw buffer and what waits in obuffer are, in this order, exactly what
\* was written, however writes, partial copies and blocked sends interleave.
StreamIntact ==
    open => [i \in 1..sent |-> i] \o raw \o obuffer = [i \in 1..(next_out - 1) |-> i]

\* No write request is lost between the writer's inplace_modify_fd and the
\* loop, which takes the flag back and overwrites it without a common lock:
\* while obuffer holds data and both threads are at rest, epoll watches for
\* the socket to become writable, and will report it if it already is.  After an
\* error that on_write or on_read passes over OpenSSL allows no further operation
\* on the session, and nothing is said of its output.
PendingIsArmed ==
    connected /\ ~ swallowed /\ obuffer # <<>> /\ loop = "wait" /\ writer = "idle" =>
        /\ "write" \in interest
        /\ room => listed

=============================================================================
