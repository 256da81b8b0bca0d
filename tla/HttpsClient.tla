---------------------------- MODULE HttpsClient ----------------------------
(***************************************************************************)
(* One https_client: the connection, the parser of the response            *)
(* (handle_buffer), its timeout and the one call of its completion         *)
(* callback, on which request_queue relies.                                *)
(*                                                                         *)
(* Everything runs on the event loop's thread.  The response is a sequence *)
(* of tokens, which arrive in pieces of any size; the connection may fail  *)
(* or fall silent at any point.  A turn of handle_buffer's loop is one     *)
(* action; nothing else happens between the turns.                         *)
(*                                                                         *)
(* Left out: the retries of connect(), which only replace the socket, and  *)
(* the HTTPS_DONE case of handle_buffer, which is not reached because      *)
(* on_read returns at once when the socket is closed.                      *)
(***************************************************************************)
EXTENDS Naturals, Sequences, SequencesExt

CONSTANTS
    Responses,    \* responses the server may give
    RequestTime,  \* request_timeout
    BodyTime      \* seconds added once the headers are there, 10 in the code

\* How the end of the body is known.  "none" is a response without a body: its
\* status or a content length of 0 says so.
Framings == {"length", "chunked", "unknown", "none", "malformed", "bad_chunk"}

ASSUME HttpsClientAssumption ==
    /\ \A r \in Responses :
        /\ r.framing \in Framings
        /\ r.chunks \in Seq(Nat \ {0})
        /\ r.framing = "length" => r.chunks # <<>>
        /\ r.framing = "none" => r.chunks = <<>>
    /\ RequestTime \in Nat /\ BodyTime \in Nat

Token == [kind : {"head", "head_end", "length", "bad_length", "cr", "lf", "data"},
          chunk : Nat, n : Nat]
Tok(k, c, n) == [kind |-> k, chunk |-> c, n |-> n]
CrLf == <<Tok("cr", 0, 0), Tok("lf", 0, 0)>>

\* The bytes of a chunk; the body is the concatenation of its chunks.
Chunk(r, i) == [j \in 1..r.chunks[i] |-> Tok("data", i, j)]
Body(r) == FlattenSeq([i \in 1..Len(r.chunks) |-> Chunk(r, i)])

\* What the server sends.
Stream(r) ==
    <<Tok("head", 0, 0), Tok("head_end", 0, 0)>>
    \o (IF r.framing \in {"chunked", "bad_chunk"}
        THEN FlattenSeq([i \in 1..Len(r.chunks) |->
                <<Tok("length", i, r.chunks[i])>> \o CrLf \o Chunk(r, i) \o CrLf])
             \o <<Tok(IF r.framing = "chunked" THEN "length" ELSE "bad_length", 0, 0)>>
             \o CrLf \o CrLf
        ELSE Body(r))

VARIABLES
    response,      \* the response this server will give
    coming,        \* the tokens that have not arrived yet
    sfd,           \* is the socket open?
    tcp_connect_done,
    connected,
    timeout,       \* seconds left
    timed_out,
    state,
    pc,            \* "parse" while handle_buffer runs
    buffer,
    body,
    content_length,
    chunk_size,
    chunk_receive,
    status,        \* 0, or 200 for any status
    completed,     \* is the callback still set?
    \* History, not state of the code:
    called,        \* calls of the callback
    report         \* why it was called, and the body it saw

connVars == <<sfd, tcp_connect_done, connected>>
parseVars == <<buffer, body, content_length, chunk_size, chunk_receive>>
doneVars == <<completed, called, report>>
vars == <<response, coming, connVars, timeout, timed_out, state, pc, parseVars,
          status, doneVars>>

States == {"HTTPS_HEADERS", "HTTPS_CONTENT", "HTTPS_DONE", "HTTPS_CHUNK_LEN",
           "HTTPS_CHUNK_TRAILER", "HTTPS_CHUNK_LAST", "HTTPS_CHUNK_CONTENT"}
Causes == {"none", "parsed", "refused", "lost", "timeout"}

\* content_length is ULLONG_MAX, here 0, when the server gave none.
NoLength == 0

TypeOK ==
    /\ response \in Responses
    /\ coming \in Seq(Token)
    /\ sfd \in BOOLEAN /\ tcp_connect_done \in BOOLEAN /\ connected \in BOOLEAN
    /\ timeout \in 0..(RequestTime + BodyTime)
    /\ timed_out \in BOOLEAN
    /\ state \in States
    /\ pc \in {"idle", "parse"}
    /\ buffer \in Seq(Token)
    /\ body \in Seq(Token)
    /\ content_length \in Nat
    /\ chunk_size \in Nat
    /\ chunk_receive \in 0..chunk_size
    /\ status \in {0, 200}
    /\ completed \in BOOLEAN
    /\ called \in Nat
    /\ report \in [cause : Causes, body : Seq(Token)]

Init ==
    /\ response \in Responses
    /\ coming = Stream(response)
    /\ sfd = TRUE /\ tcp_connect_done = FALSE /\ connected = FALSE
    /\ timeout = RequestTime
    /\ timed_out = FALSE
    /\ state = "HTTPS_HEADERS"
    /\ pc = "idle"
    /\ buffer = <<>> /\ body = <<>>
    /\ content_length = NoLength /\ chunk_size = 0 /\ chunk_receive = 0
    /\ status = 0
    /\ completed = TRUE
    /\ called = 0
    /\ report = [cause |-> "none", body |-> <<>>]

-----------------------------------------------------------------------------
(* close(), and the completion in handle_buffer that is followed by it.    *)

\* How often the callback is called: state and completed both guard it.
Calls_again(cause) == IF ~ completed THEN 0 ELSE IF cause = "parsed" THEN 2 ELSE 1
Calls(cause) == IF completed THEN 1 ELSE 0

Finish(cause, b) ==
    /\ called' = called + Calls(cause)
    /\ report' = IF completed THEN [cause |-> cause, body |-> b] ELSE report
    /\ completed' = FALSE
    /\ state' = "HTTPS_DONE"
    /\ sfd' = FALSE /\ tcp_connect_done' = FALSE /\ connected' = FALSE
    /\ buffer' = <<>>
    /\ pc' = "idle"

-----------------------------------------------------------------------------
(* The connection and the clock.                                           *)

\* The first write event; a TLS connection has yet to shake hands.
TcpConnect ==
    /\ pc = "idle" /\ sfd /\ ~ tcp_connect_done
    /\ tcp_connect_done' = TRUE
    /\ connected' \in BOOLEAN
    /\ UNCHANGED <<response, coming, sfd, timeout, timed_out, state, pc, parseVars,
                   status, doneVars>>

Handshake ==
    /\ pc = "idle" /\ sfd /\ tcp_connect_done /\ ~ connected
    /\ connected' = TRUE
    /\ UNCHANGED <<response, coming, sfd, tcp_connect_done, timeout, timed_out,
                   state, pc, parseVars, status, doneVars>>

\* on_read: some tokens arrive and handle_buffer is called.
OnRead ==
    /\ pc = "idle" /\ sfd /\ connected
    /\ \E k \in 1..Len(coming) :
        /\ buffer' = buffer \o SubSeq(coming, 1, k)
        /\ coming' = SubSeq(coming, k + 1, Len(coming))
    /\ pc' = "parse"
    /\ UNCHANGED <<response, connVars, timeout, timed_out, state, body,
                   content_length, chunk_size, chunk_receive, status, doneVars>>

\* on_error, or a read or write that fails.
ConnectionLost ==
    /\ pc = "idle" /\ sfd
    /\ Finish("lost", body)
    /\ UNCHANGED <<response, coming, timeout, timed_out, body, content_length,
                   chunk_size, chunk_receive, status>>

Second ==
    /\ pc = "idle"
    /\ timeout > 0
    /\ timeout' = timeout - 1
    /\ UNCHANGED <<response, coming, connVars, timed_out, state, pc, parseVars,
                   status, doneVars>>

TimesOut_connecting == timeout = 0 /\ ~ tcp_connect_done
TimesOut == timeout = 0 /\ (~ tcp_connect_done \/ state # "HTTPS_DONE")

\* one_second_timer.  timed_out is set after close() has called back, unless
\* it was connect() that timed out.
OneSecondTimer ==
    /\ pc = "idle"
    /\ TimesOut
    /\ timed_out' = TRUE
    /\ Finish("timeout", body)
    /\ UNCHANGED <<response, coming, timeout, body, content_length, chunk_size,
                   chunk_receive, status>>

-----------------------------------------------------------------------------
(* handle_buffer: one turn of its loop.                                    *)

InState(s) == pc = "parse" /\ state = s
Has(k) == \E i \in DOMAIN buffer : buffer[i].kind = k
After(k) == SubSeq(buffer, SelectInSeq(buffer, LAMBDA t : t.kind = k) + 1, Len(buffer))
Again(yes) == pc' = IF yes THEN "parse" ELSE "idle"

\* What was looked for is not in the buffer yet: wait for more.
Wait ==
    /\ pc = "parse"
    /\ \/ state = "HTTPS_HEADERS" /\ ~ Has("head_end")
       \/ state = "HTTPS_CHUNK_LEN" /\ ~ Has("lf")
       \/ state \in {"HTTPS_CHUNK_TRAILER", "HTTPS_CHUNK_LAST"} /\ ~ IsPrefix(CrLf, buffer)
    /\ Again(FALSE)
    /\ UNCHANGED <<response, coming, connVars, timeout, timed_out, state, parseVars,
                   status, doneVars>>

\* Headers of a response without a body, or that are not HTTP's: return false.
HeadersEnd ==
    /\ InState("HTTPS_HEADERS") /\ Has("head_end")
    /\ response.framing \in {"none", "malformed"}
    /\ timeout' = timeout + BodyTime
    /\ status' = IF response.framing = "none" THEN 200 ELSE status
    /\ Finish(IF response.framing = "none" THEN "parsed" ELSE "refused", body)
    /\ UNCHANGED <<response, coming, timed_out, body, content_length, chunk_size,
                   chunk_receive>>

HeadersDone ==
    LET chunked == response.framing \in {"chunked", "bad_chunk"} IN
    /\ InState("HTTPS_HEADERS") /\ Has("head_end")
    /\ response.framing \notin {"none", "malformed"}
    /\ timeout' = timeout + BodyTime
    /\ status' = 200
    /\ buffer' = After("head_end")
    /\ content_length' = IF response.framing = "length" THEN Len(Body(response)) ELSE NoLength
    /\ state' = IF chunked THEN "HTTPS_CHUNK_LEN" ELSE "HTTPS_CONTENT"
    /\ Again(chunked => buffer' # <<>>)
    /\ UNCHANGED <<response, coming, connVars, timed_out, body, chunk_size,
                   chunk_receive, doneVars>>

BodyDone_early(b) == content_length = NoLength \/ Len(b) + 1 >= content_length
BodyDone(b) == content_length = NoLength \/ Len(b) >= content_length

Content ==
    LET b == body \o buffer IN
    /\ InState("HTTPS_CONTENT")
    /\ body' = b
    /\ IF BodyDone(b)
       THEN Finish("parsed", b)
       ELSE buffer' = <<>> /\ Again(FALSE) /\ UNCHANGED <<connVars, state, doneVars>>
    /\ UNCHANGED <<response, coming, timeout, timed_out, content_length, chunk_size,
                   chunk_receive, status>>

\* chunk_length_str, up to the first line end.
ChunkLen ==
    LET size == Head(buffer).n IN
    /\ InState("HTTPS_CHUNK_LEN") /\ Has("lf")
    /\ Head(buffer).kind = "length"
    /\ buffer' = After("lf")
    /\ chunk_receive' = 0
    /\ chunk_size' = IF size = 0 THEN 2 ELSE size
    /\ state' = IF size = 0 THEN "HTTPS_CHUNK_LAST" ELSE "HTTPS_CHUNK_CONTENT"
    /\ Again(TRUE)
    /\ UNCHANGED <<response, coming, connVars, timeout, timed_out, body,
                   content_length, status, doneVars>>

\* stoi throws: return false.
ChunkLenBad ==
    /\ InState("HTTPS_CHUNK_LEN") /\ Has("lf")
    /\ Head(buffer).kind = "bad_length"
    /\ chunk_receive' = 0
    /\ Finish("refused", body)
    /\ UNCHANGED <<response, coming, timeout, timed_out, body, content_length,
                   chunk_size, status>>

ToRead_all == Len(buffer)
ToRead == IF chunk_receive + Len(buffer) > chunk_size THEN chunk_size - chunk_receive
          ELSE Len(buffer)

ChunkContent ==
    /\ InState("HTTPS_CHUNK_CONTENT")
    /\ body' = body \o SubSeq(buffer, 1, ToRead)
    /\ chunk_receive' = chunk_receive + ToRead
    /\ buffer' = SubSeq(buffer, ToRead + 1, Len(buffer))
    /\ state' = IF chunk_receive' >= chunk_size THEN "HTTPS_CHUNK_TRAILER" ELSE state
    /\ Again(chunk_receive' >= chunk_size)
    /\ UNCHANGED <<response, coming, connVars, timeout, timed_out, content_length,
                   chunk_size, status, doneVars>>

ChunkTrailer ==
    /\ InState("HTTPS_CHUNK_TRAILER") /\ IsPrefix(CrLf, buffer)
    /\ state' = "HTTPS_CHUNK_LEN"
    /\ buffer' = SubSeq(buffer, 3, Len(buffer))
    /\ Again(TRUE)
    /\ UNCHANGED <<response, coming, connVars, timeout, timed_out, body,
                   content_length, chunk_size, chunk_receive, status, doneVars>>

ChunkLast ==
    /\ InState("HTTPS_CHUNK_LAST") /\ IsPrefix(CrLf, buffer)
    /\ Finish("parsed", body)
    /\ UNCHANGED <<response, coming, timeout, timed_out, body, content_length,
                   chunk_size, chunk_receive, status>>

-----------------------------------------------------------------------------
Parse ==
    \/ Wait \/ HeadersEnd \/ HeadersDone \/ Content \/ ChunkLen \/ ChunkLenBad
    \/ ChunkContent \/ ChunkTrailer \/ ChunkLast

Next ==
    \/ TcpConnect \/ Handshake \/ OnRead \/ ConnectionLost \/ Second
    \/ OneSecondTimer \/ Parse

Spec == Init /\ [][Next]_vars

\* The loop parses what it has read, the clock goes on and the one second timer
\* runs.  The server and the network owe nothing.
FairSpec == Spec /\ WF_vars(Parse) /\ WF_vars(Second) /\ WF_vars(OneSecondTimer)

-----------------------------------------------------------------------------
(* Properties.                                                             *)

\* The callback is called exactly once, when the client is done: whether the
\* parser, the timer, an error or two of them after each other close it.
CalledOnce == called = IF state = "HTTPS_DONE" THEN 1 ELSE 0

\* However the response is cut into reads, the body collected so far is what
\* the server sent, without chunk lengths or line ends, in order; and the
\* parser ends a response only when its whole body is there and in the report
\* (a response that states no length is excepted: there the code ends with the
\* first read).
BodyFaithful ==
    /\ IsPrefix(body, Body(response))
    /\ report.cause = "parsed" /\ response.framing # "unknown"
        => report.body = Body(response)

\* The callback is called in the end, also when the server falls silent at any
\* point: no request_queue waits for ever.
CallsBack == <>(called >= 1)

=============================================================================
