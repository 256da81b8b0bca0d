-------------------------- MODULE WebSocketProofs --------------------------
(***************************************************************************)
(* The connection's two threads never damage or forget the output, and the *)
(* frames of the input are handled whole, once and in order, for every     *)
(* buffer size, every length of frame and every number of units.           *)
(*                                                                         *)
(* StreamIntact is proved unit by unit (Aligned), where appending, copying *)
(* and sending become arithmetic.  PendingIsArmed speaks of a loop at      *)
(* rest; its inductive form says, for every place of the loop and of the   *)
(* writer, who still has the duty to ask for the write event: FlagInv for  *)
(* a flag that is set, PendingInv for data that waits.                     *)
(*                                                                         *)
(* FramesInOrder needs more than itself: that the frames which wait are    *)
(* also complete at their end (Laid), so that handle_buffer's loop stops   *)
(* at a boundary, and what waits before the upgrade, where nothing has     *)
(* been handled and a session ticket may come first (Waiting).             *)
(***************************************************************************)
EXTENDS WebSocket, SequenceTheorems, FiniteSetTheorems, WellFoundedInduction, TLAPS

-----------------------------------------------------------------------------
(* The output stream.                                                      *)

\* s counts on from k.
Run(s, k) == \A i \in 1..Len(s) : s[i] = k + i

OutTypeOK ==
    /\ obuffer \in Seq(1..MaxOut)
    /\ raw \in Seq(1..MaxOut) /\ Len(raw) <= BufSize
    /\ sent \in 0..MaxOut
    /\ next_out \in 1..(MaxOut + 1)
    /\ open \in BOOLEAN

\* StreamIntact, unit by unit; nothing waits on a closed connection.
Aligned ==
    /\ Run(raw, sent)
    /\ Run(obuffer, sent + Len(raw))
    /\ open => sent + Len(raw) + Len(obuffer) = next_out - 1
    /\ ~ open => raw = <<>> /\ obuffer = <<>>

OutInv == OutTypeOK /\ Aligned

\* Two sequences that count on from each other are one that does.
LEMMA RunJoin ==
    ASSUME NEW S \in SUBSET Nat, NEW s \in Seq(S), NEW t \in Seq(S), NEW k \in Nat,
           Run(s, k), Run(t, k + Len(s))
    PROVE  /\ s \o t \in Seq(S)
           /\ Len(s \o t) = Len(s) + Len(t)
           /\ Run(s \o t, k)
<1>1. s \o t \in Seq(S) /\ Len(s \o t) = Len(s) + Len(t)
  BY ConcatProperties
<1>2. ASSUME NEW i \in 1..Len(s \o t) PROVE (s \o t)[i] = k + i
  <2>1. Len(s) \in Nat /\ Len(t) \in Nat
    BY LenProperties
  <2>2. i \in 1..(Len(s) + Len(t))
    BY <1>1
  <2>3. (s \o t)[i] = IF i <= Len(s) THEN s[i] ELSE t[i - Len(s)]
    BY <2>2, ConcatProperties
  <2>4. CASE i <= Len(s)
    BY <2>1, <2>2, <2>3, <2>4 DEF Run
  <2>5. CASE ~ (i <= Len(s))
    <3>1. i - Len(s) \in 1..Len(t)
      BY <2>1, <2>2, <2>5
    <3>2. t[i - Len(s)] = k + Len(s) + (i - Len(s))
      BY <3>1 DEF Run
    <3> QED BY <2>1, <2>2, <2>3, <2>5, <3>2
  <2> QED BY <2>4, <2>5
<1> QED BY <1>1, <1>2 DEF Run

\* A sequence that counts, cut after m elements.
LEMMA RunSplit ==
    ASSUME NEW s \in Seq(1..MaxOut), NEW k \in Nat, Run(s, k), NEW m \in 0..Len(s)
    PROVE  /\ SubSeq(s, 1, m) \in Seq(1..MaxOut) /\ Len(SubSeq(s, 1, m)) = m
           /\ Run(SubSeq(s, 1, m), k)
           /\ SubSeq(s, m + 1, Len(s)) \in Seq(1..MaxOut)
           /\ Len(SubSeq(s, m + 1, Len(s))) = Len(s) - m
           /\ Run(SubSeq(s, m + 1, Len(s)), k + m)
BY SslAssumption DEF Run

\* What socket_write is given.
LEMMA RunNew ==
    ASSUME NEW k \in Nat \ {0}, NEW n \in Nat, NEW m \in Nat, k + n - 1 <= m
    PROVE  LET s == [i \in 1..n |-> k + i - 1]
           IN  s \in Seq(1..m) /\ Len(s) = n /\ Run(s, k - 1)
BY DEF Run

\* The unit-wise form says what StreamIntact says.
LEMMA AlignedIntact ==
    ASSUME OutInv
    PROVE  StreamIntact
<1> SUFFICES ASSUME open
             PROVE  [i \in 1..sent |-> i] \o raw \o obuffer = [i \in 1..(next_out - 1) |-> i]
  BY DEF StreamIntact
<1> USE DEF OutInv
<1> DEFINE U(n) == [i \in 1..n |-> i]
<1>1. sent \in Nat /\ next_out - 1 \in Nat /\ raw \in Seq(Nat) /\ obuffer \in Seq(Nat)
  BY SslAssumption DEF OutTypeOK
<1>2. \A n \in Nat : U(n) \in Seq(Nat) /\ Len(U(n)) = n /\ Run(U(n), 0)
  BY DEF Run
<1> HIDE DEF U
<1>3. /\ U(sent) \o raw \in Seq(Nat) /\ Run(U(sent) \o raw, 0)
      /\ Len(U(sent) \o raw) = sent + Len(raw)
  <2>1. Run(raw, 0 + Len(U(sent)))
    BY <1>1, <1>2 DEF Aligned
  <2>2. /\ U(sent) \o raw \in Seq(Nat) /\ Run(U(sent) \o raw, 0)
        /\ Len(U(sent) \o raw) = Len(U(sent)) + Len(raw)
    BY <1>1, <1>2, <2>1, RunJoin, 0 \in Nat, Nat \in SUBSET Nat, Zenon
  <2> QED BY <1>1, <1>2, <2>2
<1>4. /\ U(sent) \o raw \o obuffer \in Seq(Nat) /\ Run(U(sent) \o raw \o obuffer, 0)
      /\ Len(U(sent) \o raw \o obuffer) = next_out - 1
  <2>1. Run(obuffer, 0 + Len(U(sent) \o raw))
        /\ Len(U(sent) \o raw) + Len(obuffer) = next_out - 1
    BY <1>1, <1>3 DEF Aligned
  <2> QED BY <1>1, <1>3, <2>1, RunJoin, 0 \in Nat, Nat \in SUBSET Nat, Zenon
<1>5. \A i \in 1..(next_out - 1) : (U(sent) \o raw \o obuffer)[i] = U(next_out - 1)[i]
  BY <1>1, <1>2, <1>4 DEF Run
<1>6. U(sent) \o raw \o obuffer = U(next_out - 1)
  BY <1>1, <1>2, <1>4, <1>5, SeqEqual, Zenon
<1> QED BY <1>6 DEF U

\* Units appended to obuffer, by either thread.
LEMMA OutAppend ==
    ASSUME OutInv, open, NEW n \in Nat, next_out + n - 1 <= MaxOut,
           obuffer' = obuffer \o [i \in 1..n |-> next_out + i - 1],
           next_out' = next_out + n, UNCHANGED <<raw, sent, open>>
    PROVE  OutInv'
<1> DEFINE new == [i \in 1..n |-> next_out + i - 1]
<1>1. /\ sent \in Nat /\ next_out - 1 \in Nat /\ Len(raw) \in Nat /\ Len(obuffer) \in Nat
      /\ 1..MaxOut \in SUBSET Nat /\ obuffer \in Seq(1..MaxOut) /\ MaxOut \in Nat
      /\ next_out \in Nat \ {0}
  BY SslAssumption DEF OutInv, OutTypeOK
<1>2. new \in Seq(1..MaxOut) /\ Len(new) = n /\ Run(new, next_out - 1)
  BY <1>1, RunNew
<1>3. Run(obuffer, sent + Len(raw)) /\ Run(new, sent + Len(raw) + Len(obuffer))
  BY <1>1, <1>2 DEF OutInv, Aligned
<1> HIDE DEF new
<1>4. /\ obuffer \o new \in Seq(1..MaxOut) /\ Len(obuffer \o new) = Len(obuffer) + n
      /\ Run(obuffer \o new, sent + Len(raw))
  <2>1. sent + Len(raw) \in Nat
    BY <1>1
  <2>2. /\ obuffer \o new \in Seq(1..MaxOut)
        /\ Len(obuffer \o new) = Len(obuffer) + Len(new)
        /\ Run(obuffer \o new, sent + Len(raw))
    BY <1>1, <1>2, <1>3, <2>1, RunJoin, Zenon
  <2> QED BY <1>2, <2>2
<1>5. obuffer' = obuffer \o new
  BY DEF new
<1>6. OutTypeOK'
  BY <1>1, <1>4, <1>5 DEF OutInv, OutTypeOK
<1>7. Aligned'
  <2>1. Run(obuffer', sent' + Len(raw'))
    BY <1>4, <1>5
  <2>2. sent' + Len(raw') + Len(obuffer') = next_out' - 1
    <3>1. sent + Len(raw) + Len(obuffer) = next_out - 1
      BY DEF OutInv, Aligned
    <3>2. /\ Len(obuffer') = Len(obuffer) + n /\ Len(raw') = Len(raw)
          /\ sent' = sent /\ next_out' = next_out + n
      BY <1>4, <1>5, Zenon
    <3> QED BY <1>1, <3>1, <3>2
  <2>3. Run(raw', sent')
    BY DEF OutInv, Aligned, Run
  <2> QED BY <2>1, <2>2, <2>3 DEF Aligned
<1> QED BY <1>6, <1>7 DEF OutInv

\* on_write copies what fits.
LEMMA OutCopy ==
    ASSUME OutInv, CopyOutput
    PROVE  OutInv'
<1> USE DEF OutInv
<1>1. CASE MayCopy
  <2>1. /\ Run(obuffer, sent) /\ raw = <<>> /\ sent \in Nat /\ 1..MaxOut \subseteq Nat
        /\ obuffer \in Seq(1..MaxOut) /\ Len(obuffer) \in Nat
    BY <1>1, SslAssumption DEF MayCopy, Aligned, OutTypeOK
  <2>2. CopyLength \in 0..Len(obuffer) /\ CopyLength <= BufSize
    BY <2>1, SslAssumption DEF CopyLength, Least
  <2>3. /\ raw' \in Seq(1..MaxOut) /\ Len(raw') = CopyLength /\ Run(raw', sent)
        /\ obuffer' \in Seq(1..MaxOut) /\ Len(obuffer') = Len(obuffer) - CopyLength
        /\ Run(obuffer', sent + CopyLength)
    <3>1. /\ raw' = SubSeq(obuffer, 1, CopyLength)
          /\ obuffer' = SubSeq(obuffer, CopyLength + 1, Len(obuffer))
      BY <1>1 DEF CopyOutput
    <3> QED BY <2>1, <2>2, <3>1, RunSplit, Zenon
  <2>4. open /\ open' /\ UNCHANGED <<sent, next_out, open>>
    BY <1>1 DEF CopyOutput, Aligned, MayCopy
  <2>5. OutTypeOK'
    BY <2>2, <2>3, <2>4 DEF OutTypeOK
  <2>6. sent' + Len(raw') = sent + CopyLength
    BY <2>3, <2>4
  <2>7. sent' + Len(raw') + Len(obuffer') = next_out' - 1
    BY <2>1, <2>2, <2>3, <2>4, <2>6 DEF Aligned
  <2> QED BY <2>3, <2>4, <2>5, <2>6, <2>7 DEF Aligned
<1>2. CASE ~ MayCopy
  BY <1>2 DEF CopyOutput, OutTypeOK, Aligned, Run
<1> QED BY <1>1, <1>2

\* SSL_write accepts the raw buffer.
LEMMA OutSend ==
    ASSUME OutInv, SendOutput
    PROVE  OutInv'
<1>1. /\ sent' = sent + Len(raw) /\ raw' = <<>> /\ Len(raw') = 0
      /\ UNCHANGED <<obuffer, next_out, open>>
  BY DEF SendOutput
<1>2. OutTypeOK'
  BY <1>1, SslAssumption DEF OutInv, OutTypeOK, Aligned
<1>3. Aligned'
  BY <1>1 DEF OutInv, OutTypeOK, Aligned, Run
<1> QED BY <1>2, <1>3 DEF OutInv

\* close() empties the buffers.
LEMMA OutClose ==
    ASSUME OutInv, Close, UNCHANGED <<sent, next_out>>
    PROVE  OutInv'
<1>1. /\ raw' = <<>> /\ obuffer' = <<>> /\ ~ open' /\ open' \in BOOLEAN
      /\ UNCHANGED <<sent, next_out>>
  BY DEF Close
<1>2. OutTypeOK'
  BY <1>1, SslAssumption DEF OutInv, OutTypeOK
<1>3. Aligned'
  BY <1>1 DEF Aligned, Run
<1> QED BY <1>2, <1>3 DEF OutInv

LEMMA OutStutter ==
    ASSUME OutInv, UNCHANGED <<outVars, open>>
    PROVE  OutInv'
BY DEF OutInv, OutTypeOK, Aligned, Run, outVars

-----------------------------------------------------------------------------
(* The write request, between the two threads and epoll.                   *)

\* epoll watches for room, and will report it if there is some.
Armed == "write" \in interest /\ (room => listed)

\* The event being served takes the request back, or ends the connection.
TakesBack ==
    \/ loop = "store"
    \/ loop = "modify" /\ ("write" \in ev \/ "hup" \in ev)

\* Flags of an entry that will not be erased.
Live(f) == "error" \in f /\ "deletion" \notin f

PlaceInv ==
    /\ loop \in LoopPC
    /\ writer \in {"idle", "flag", "update"}
    /\ writer = "idle" <=> out_mutex = "free"
    /\ connected => open
    /\ ~ open => ~ listed /\ loop \in {"wait", "erase"}
    /\ "hup" \in ev => loop \in {"modify", "erase"}

\* The entry, and the two copies of its flags that will be stored.
EntryInv ==
    /\ open => Live(flags)
    /\ open /\ writer = "update" => Live(copy)
    /\ open /\ loop = "store" => Live(new_events)
    /\ writer = "update" => "write" \in copy
    /\ loop = "store" => "write" \notin new_events

\* A flag that is set has reached epoll, or the writer is about to tell it.
FlagInv == open /\ "write" \in flags /\ writer # "update" /\ ~ TakesBack => Armed

\* Data that waits has its flag, or the writer is about to set it; at the other
\* places of the loop the loop itself will look at obuffer again.
PendingInv ==
    connected /\ ~ swallowed /\ obuffer # <<>> /\ ~ TakesBack
      /\ loop \in {"wait", "modify", "read", "erase"} =>
        "write" \in flags \/ writer \in {"flag", "update"}

EngineInv == PlaceInv /\ EntryInv /\ FlagInv /\ PendingInv

\* No step of the writer forgets its request.
LEMMA WriterEngine ==
    ASSUME EngineInv, WriterAppend \/ WriterFlag \/ WriterUpdate
    PROVE  EngineInv'
<1> USE DEF EngineInv, PlaceInv, EntryInv, FlagInv, PendingInv, Armed, TakesBack, Live
<1>1. CASE WriterAppend
  BY <1>1 DEF WriterAppend, engineVars, loopVars, netVars
<1>2. CASE WriterFlag
  BY <1>2 DEF WriterFlag, loopVars, netVars
<1>3. CASE WriterUpdate
  BY <1>3 DEF WriterUpdate, UpdateSocket, EpollMod, Ready, engineVars, loopVars, netVars
<1> QED BY <1>1, <1>2, <1>3

\* Nor does the loop, taking an event and the request back, ...
LEMMA ServeEngine ==
    ASSUME EngineInv, EpollWait \/ ModifyEvent \/ StoreFlags \/ Erase
    PROVE  EngineInv'
<1> USE DEF EngineInv, PlaceInv, EntryInv, FlagInv, PendingInv, Armed, TakesBack, Live
<1>1. CASE EpollWait
  BY <1>1 DEF EpollWait, Ready, outVars, writerVars, netVars, LoopPC
<1>2. CASE ModifyEvent
  BY <1>2 DEF ModifyEvent, outVars, engineVars, writerVars, netVars, LoopPC
<1>3. CASE StoreFlags
  BY <1>3 DEF StoreFlags, writerVars, LoopPC
<1>4. CASE Erase
  BY <1>4 DEF Erase, outVars, writerVars, netVars, LoopPC
<1> QED BY <1>1, <1>2, <1>3, <1>4

\* ... in the handshake, ...
LEMMA HandshakeEngine ==
    ASSUME EngineInv, HandshakeWants \/ HandshakeDone
    PROVE  EngineInv'
<1> USE DEF EngineInv, PlaceInv, EntryInv, FlagInv, PendingInv, Armed, TakesBack, Live
<1>1. CASE HandshakeWants
  BY <1>1 DEF HandshakeWants, UpdateSocket, EpollMod, RWE, RE, writerVars, LoopPC,
     InHandshake
<1>2. CASE HandshakeDone
  BY <1>2 DEF HandshakeDone, UpdateSocket, EpollMod, Ready, RWE, writerVars, LoopPC,
     InHandshake
<1> QED BY <1>1, <1>2

\* ... sending, ...
LEMMA OutputEngine ==
    ASSUME EngineInv, CopyOutput \/ SendOutput \/ SendBlocked \/ SendSwallowed
    PROVE  EngineInv'
<1> USE DEF EngineInv, PlaceInv, EntryInv, FlagInv, PendingInv, Armed, TakesBack, Live
<1>1. CASE CopyOutput
  BY <1>1 DEF CopyOutput, engineVars, writerVars, netVars, LoopPC
<1>2. CASE SendOutput
  BY <1>2 DEF SendOutput, UpdateSocket, EpollMod, Ready, RWE, engineVars, writerVars, LoopPC
<1>3. CASE SendBlocked
  BY <1>3 DEF SendBlocked, UpdateSocket, EpollMod, RWE, writerVars, LoopPC
<1>4. CASE SendSwallowed
  BY <1>4 DEF SendSwallowed, engineVars, writerVars, netVars, LoopPC
<1> QED BY <1>1, <1>2, <1>3, <1>4

\* ... reading, ...
LEMMA InputEngine ==
    ASSUME EngineInv,
           NothingToRead \/ ReadWants \/ ReadEof \/ ReadSwallowed \/ AfterHandle \/ RearmWrite
    PROVE  EngineInv'
<1> USE DEF EngineInv, PlaceInv, EntryInv, FlagInv, PendingInv, Armed, TakesBack, Live
<1>1. CASE NothingToRead
  BY <1>1 DEF NothingToRead, outVars, engineVars, writerVars, netVars, LoopPC
<1>2. CASE ReadWants
  BY <1>2 DEF ReadWants, UpdateSocket, RE, writerVars, LoopPC
<1>3. CASE ReadEof
  BY <1>3 DEF ReadEof, outVars, writerVars, LoopPC
<1>4. CASE AfterHandle
  BY <1>4 DEF AfterHandle, UpdateSocket, EpollMod, Ready, RWE, writerVars, netVars, LoopPC,
     AfterRead
<1>5. CASE RearmWrite
  BY <1>5 DEF RearmWrite, UpdateSocket, EpollMod, Ready, RWE, outVars, engineVars,
     writerVars, netVars, LoopPC, NeedsWrite
<1>6. CASE ReadSwallowed
  BY <1>6 DEF ReadSwallowed, engineVars, writerVars, netVars, LoopPC
<1> QED BY <1>1, <1>2, <1>3, <1>4, <1>5, <1>6

\* ... or closing.
LEMMA CloseEngine ==
    ASSUME EngineInv, CloseNow \/ OnError
    PROVE  EngineInv'
<1> USE DEF EngineInv, PlaceInv, EntryInv, FlagInv, PendingInv, Armed, TakesBack, Live
<1>1. CASE CloseNow
  BY <1>1 DEF CloseNow, writerVars, LoopPC, Close
<1>2. CASE OnError
  BY <1>2 DEF OnError, writerVars, LoopPC, Close
<1> QED BY <1>1, <1>2

\* SSL_read has returned data and handle_buffer is about to return.
LEMMA DataEngine ==
    ASSUME EngineInv, NEW n, NEW left, ReadData(n, left)
    PROVE  EngineInv'
BY DEF ReadData, EngineInv, PlaceInv, EntryInv, FlagInv, PendingInv, Armed, TakesBack,
   engineVars, writerVars, LoopPC

\* A write by the loop's own thread, from the timer or from handle_buffer.
LEMMA LoopWriteEngine ==
    ASSUME EngineInv, NEW n, LoopWrites(n), UNCHANGED loopVars, loop \in {"wait", "handled"}
    PROVE  EngineInv'
<1>1. /\ out_mutex = "free" /\ open
      /\ IF flags = {} \/ "write" \in flags THEN UNCHANGED engineVars
         ELSE UpdateSocket(flags \union {"write"})
      /\ UNCHANGED <<connected, open, writerVars, netVars, loopVars>>
  BY DEF LoopWrites
<1>2. Live(flags)
  BY <1>1 DEF EngineInv, EntryInv
<1>3. "write" \in flags' /\ Live(flags')
      /\ (Armed' \/ ("write" \in flags /\ UNCHANGED engineVars))
  <2>1. CASE "write" \in flags
    BY <1>1, <1>2, <2>1 DEF engineVars, Live
  <2>2. CASE "write" \notin flags
    <3>1. UpdateSocket(flags \union {"write"}) /\ open /\ room' = room
      BY <1>1, <1>2, <2>2 DEF Live, netVars
    <3>2. flags' = flags \union {"write"}
      BY <1>2, <3>1 DEF UpdateSocket, Live
    <3>3. Armed'
      BY <1>2, <3>1 DEF UpdateSocket, EpollMod, Ready, Live, Armed
    <3> QED BY <1>2, <3>2, <3>3 DEF Live
  <2> QED BY <2>1, <2>2
<1>4. /\ UNCHANGED <<loop, ev, new_events, writer, copy, out_mutex, room, connected, open>>
  BY <1>1 DEF loopVars, writerVars, netVars
<1>5. PlaceInv'
  BY <1>1, <1>4 DEF EngineInv, PlaceInv
<1>6. EntryInv'
  BY <1>3, <1>4 DEF EngineInv, EntryInv
<1>7. FlagInv'
  BY <1>3, <1>4 DEF EngineInv, FlagInv, Armed, TakesBack, engineVars
<1>8. PendingInv'
  BY <1>3 DEF PendingInv
<1> QED BY <1>5, <1>6, <1>7, <1>8 DEF EngineInv

\* The network makes room, ...
LEMMA RoomEngine ==
    ASSUME EngineInv, RoomAgain
    PROVE  EngineInv'
BY DEF RoomAgain, EngineInv, PlaceInv, EntryInv, FlagInv, PendingInv, Armed, TakesBack,
   outVars, engineVars, loopVars, writerVars, netVars, LoopPC

\* ... or something arrives.
LEMMA ArriveEngine ==
    ASSUME EngineInv, NEW u, Arrive(u)
    PROVE  EngineInv'
<1>1. /\ open /\ listed' = (listed \/ "read" \in interest)
      /\ UNCHANGED <<obuffer, connected, open, swallowed, flags, interest, loopVars, writerVars, room>>
  BY DEF Arrive, outVars
<1> QED BY <1>1 DEF EngineInv, PlaceInv, EntryInv, FlagInv, PendingInv, Armed, TakesBack, Live, loopVars, writerVars

-----------------------------------------------------------------------------
(* The steps of WebSocket are steps of the connection.                     *)

\* What WebSocket's own actions do to the connection below.
LEMMA ConnectionSteps ==
    ASSUME [Next]_vars
    PROVE  \/ WriterAppend \/ WriterFlag \/ WriterUpdate
           \/ EpollWait \/ ModifyEvent \/ StoreFlags \/ Erase
           \/ HandshakeWants \/ HandshakeDone
           \/ CopyOutput \/ SendOutput \/ SendBlocked \/ SendSwallowed
           \/ NothingToRead \/ ReadWants \/ ReadEof \/ ReadSwallowed \/ AfterHandle \/ RearmWrite
           \/ CloseNow \/ OnError
           \/ \E n, left : ReadData(n, left)
           \/ \E n \in {1, 2} : LoopWrites(n) /\ UNCHANGED loopVars /\ loop \in {"wait", "handled"}
           \/ RoomAgain
           \/ \E u : Arrive(u)
           \/ UNCHANGED sslVars
<1>1. CASE Writer
  BY <1>1 DEF Writer
<1>2. CASE LoopStep
  <2>1. CASE ReadAndHandle
    BY <2>1 DEF ReadAndHandle, HandleFrames, HandleHeaders
  <2>2. CASE Pong
    BY <2>2 DEF Pong
  <2>3. CASE Handled
    BY <2>3 DEF Handled
  <2> QED BY <1>2, <2>1, <2>2, <2>3 DEF LoopStep
<1>3. CASE Fails
  BY <1>3 DEF Fails, HandshakeFails, SendFails, ReadFails
<1>4. CASE TimerWrites
  BY <1>4 DEF TimerWrites
<1>5. CASE TimeOut
  BY <1>5 DEF TimeOut
<1>6. CASE Server
  BY <1>6 DEF Server, ServerFlight, ServerTicket, ServerEnds, ServerFrame
<1>7. CASE RoomAgain /\ UNCHANGED wsVars
  BY <1>7
<1>8. CASE UNCHANGED vars
  BY <1>8 DEF vars
<1> QED BY <1>1, <1>2, <1>3, <1>4, <1>5, <1>6, <1>7, <1>8 DEF Next

\* No step damages the output.
LEMMA OutStep ==
    ASSUME OutInv, [Next]_vars
    PROVE  OutInv'
<1>1. CASE WriterAppend
  <2>1. /\ open /\ next_out + 1 - 1 <= MaxOut /\ next_out' = next_out + 1
        /\ UNCHANGED <<raw, sent, open>>
    BY <1>1, SslAssumption DEF WriterAppend, OutInv, OutTypeOK
  <2>2. obuffer' = obuffer \o [i \in 1..1 |-> next_out + i - 1]
    <3>1. obuffer \in Seq(Nat) /\ next_out \in Nat /\ obuffer' = Append(obuffer, next_out)
      BY <1>1, SslAssumption DEF WriterAppend, OutInv, OutTypeOK
    <3>2. <<next_out>> = [i \in 1..1 |-> next_out + i - 1]
      BY <3>1
    <3>3. Append(obuffer, next_out) = obuffer \o <<next_out>>
      BY <3>1, AppendIsConcat
    <3> QED BY <3>1, <3>2, <3>3, Zenon
  <2> QED BY <2>1, <2>2, OutAppend
<1>2. CASE \E n \in {1, 2} : LoopWrites(n)
  <2>1. PICK n \in {1, 2} : LoopWrites(n)
    BY <1>2
  <2> QED BY <2>1, OutAppend DEF LoopWrites
<1>3. CASE CopyOutput
  BY <1>3, OutCopy
<1>4. CASE SendOutput
  BY <1>4, OutSend
<1>5. CASE CloseNow \/ OnError
  BY <1>5, OutClose DEF CloseNow, OnError
<1>6. CASE UNCHANGED <<outVars, open>>
  BY <1>6, OutStutter
<1>7. CASE WriterFlag \/ WriterUpdate \/ EpollWait \/ ModifyEvent \/ StoreFlags \/ Erase
  BY <1>6, <1>7 DEF WriterFlag, WriterUpdate, EpollWait, ModifyEvent, StoreFlags, Erase
<1>8. CASE HandshakeWants \/ HandshakeDone \/ SendBlocked \/ SendSwallowed \/ RoomAgain
  BY <1>6, <1>8 DEF HandshakeWants, HandshakeDone, SendBlocked, SendSwallowed, RoomAgain
<1>9. CASE NothingToRead \/ ReadWants \/ ReadEof \/ ReadSwallowed \/ AfterHandle \/ RearmWrite
  BY <1>6, <1>9 DEF NothingToRead, ReadWants, ReadEof, ReadSwallowed, AfterHandle, RearmWrite
<1>10. CASE (\E n, left : ReadData(n, left)) \/ (\E u : Arrive(u)) \/ UNCHANGED sslVars
  BY <1>6, <1>10 DEF ReadData, Arrive, sslVars
<1> QED BY <1>1, <1>2, <1>3, <1>4, <1>5, <1>7, <1>8, <1>9, <1>10, ConnectionSteps

\* No step forgets a write request.
LEMMA EngineStep ==
    ASSUME EngineInv, [Next]_vars
    PROVE  EngineInv'
<1>1. CASE UNCHANGED sslVars
  BY <1>1 DEF sslVars, EngineInv, PlaceInv, EntryInv, FlagInv, PendingInv, Armed, TakesBack,
     outVars, engineVars, loopVars, writerVars, netVars
<1> QED BY <1>1, ConnectionSteps, WriterEngine, ServeEngine, HandshakeEngine, OutputEngine,
        InputEngine, CloseEngine, DataEngine, LoopWriteEngine, RoomEngine, ArriveEngine

-----------------------------------------------------------------------------
(* The input stream.                                                       *)

\* A set of numbers that is not empty has a least one.
LEMMA LeastNumber ==
    ASSUME NEW T, T \subseteq Nat, T # {}
    PROVE  \E x \in T : \A y \in T : x <= y
<1>1. PICK x \in T : \A y \in T : ~ (<<y, x>> \in OpToRel(<, Nat))
  BY NatLessThanWellFounded, WFMin
<1>2. \A y \in T : ~ (y < x)
  BY <1>1 DEF OpToRel
<1>3. \A y \in T : x <= y
  BY <1>2
<1> QED BY <1>3

\* Unit v may come after unit u.
Follows(u, v) ==
    \/ v.frame = u.frame /\ v.at = u.at + 1 /\ v.len = u.len /\ u.at < u.len
    \/ v.frame = u.frame + 1 /\ v.at = 1 /\ u.at = u.len

Proper(u) == u.at \in 1..u.len /\ (u.kind = "response" <=> u.frame = 0)

\* r holds the frames from lo up to but not including hi, whole and in order.
Laid(r, lo, hi) ==
    /\ r \in Seq(Unit)
    /\ r = <<>> => lo = hi
    /\ r # <<>> => /\ r[1].frame = lo /\ r[1].at = 1
                   /\ r[Len(r)].frame + 1 = hi /\ r[Len(r)].at = r[Len(r)].len
    /\ \A i \in 1..Len(r) : Proper(r[i])
    /\ \A i \in 1..Len(r) : i < Len(r) => Follows(r[i], r[i + 1])

\* The numbers in a unit.
LEMMA UnitAt ==
    ASSUME NEW r \in Seq(Unit)
    PROVE  /\ Len(r) \in Nat
           /\ \A i \in 1..Len(r) : /\ r[i] \in Unit /\ r[i].frame \in Nat /\ r[i].frame <= MaxFrames
                                   /\ r[i].at \in Nat /\ r[i].len \in Nat
<1>1. Len(r) \in Nat
  BY LenProperties
<1>2. \A i \in 1..Len(r) : r[i] \in Unit
  BY ElementOfSeq
<1>3. \A u \in Unit : /\ u.frame \in Nat /\ u.frame <= MaxFrames
                      /\ u.at \in Nat /\ u.len \in Nat
  BY WebSocketAssumption DEF Unit
<1> QED BY <1>1, <1>2, <1>3

\* From one unit to the next the frame number stays or goes up by one.
LEMMA FrameSteps ==
    ASSUME NEW r, NEW lo, NEW hi, Laid(r, lo, hi), NEW i \in 1..Len(r), i # 1
    PROVE  /\ i - 1 \in 1..Len(r)
           /\ r[i].frame = r[i - 1].frame \/ r[i].frame = r[i - 1].frame + 1
           /\ r[i - 1].frame \in Nat /\ r[i].frame \in Nat
<1>1. r \in Seq(Unit)
  BY DEF Laid
<1>2. Len(r) \in Nat /\ \A j \in 1..Len(r) : r[j].frame \in Nat
  BY <1>1, UnitAt
<1>3. i - 1 \in 1..Len(r) /\ i - 1 < Len(r) /\ (i - 1) + 1 = i
  BY <1>2
<1>4. Follows(r[i - 1], r[(i - 1) + 1])
  BY <1>3 DEF Laid
<1>5. Follows(r[i - 1], r[i])
  BY <1>3, <1>4
<1> QED BY <1>2, <1>3, <1>5 DEF Follows

\* Frame numbers never go down.
LEMMA FramesUp ==
    ASSUME NEW r, NEW lo, NEW hi, Laid(r, lo, hi), NEW i \in 1..Len(r), NEW j \in 1..Len(r),
           i <= j
    PROVE  r[i].frame <= r[j].frame
<1>1. r \in Seq(Unit)
  BY DEF Laid
<1>2. Len(r) \in Nat /\ \A k \in 1..Len(r) : r[k].frame \in Nat
  BY <1>1, UnitAt
<1> DEFINE T == {k \in 1..Len(r) : i <= k /\ r[k].frame < r[i].frame}
<1>3. SUFFICES ASSUME ~ (r[i].frame <= r[j].frame) PROVE FALSE
  OBVIOUS
<1>4. T \subseteq Nat /\ T # {}
  BY <1>2, <1>3
<1> HIDE DEF T
<1>5. PICK k \in T : \A x \in T : k <= x
  BY <1>4, LeastNumber
<1>6. k \in 1..Len(r) /\ i <= k /\ r[k].frame < r[i].frame
  BY <1>5 DEF T
<1>7. k # i /\ k # 1 /\ i <= k - 1
  BY <1>2, <1>6
<1>8. /\ k - 1 \in 1..Len(r) /\ r[k - 1].frame \in Nat /\ r[k].frame \in Nat
      /\ r[k].frame = r[k - 1].frame \/ r[k].frame = r[k - 1].frame + 1
  BY <1>6, <1>7, FrameSteps
<1>9. k - 1 \notin T
  BY <1>4, <1>5, <1>6
<1>10. ~ (r[k - 1].frame < r[i].frame)
  BY <1>7, <1>8, <1>9 DEF T
<1> QED BY <1>2, <1>6, <1>8, <1>10

\* No frame number is left out.
LEMMA NoGap ==
    ASSUME NEW r, NEW lo, NEW hi, Laid(r, lo, hi), NEW j \in 1..Len(r), NEW f \in Nat,
           lo <= f, f <= r[j].frame
    PROVE  \E i \in 1..j : r[i].frame = f
<1>1. r \in Seq(Unit) /\ r # <<>>
  BY DEF Laid
<1>2. Len(r) \in Nat /\ \A k \in 1..Len(r) : r[k].frame \in Nat
  BY <1>1, UnitAt
<1>3. r[1].frame = lo /\ 1 \in 1..Len(r)
  BY <1>1, <1>2 DEF Laid
<1> DEFINE T == {k \in 1..Len(r) : f <= r[k].frame}
<1>4. T \subseteq Nat /\ j \in T
  BY <1>2
<1> HIDE DEF T
<1>5. PICK k \in T : \A x \in T : k <= x
  BY <1>4, LeastNumber
<1>6. k \in 1..Len(r) /\ f <= r[k].frame /\ k <= j
  BY <1>4, <1>5 DEF T
<1>7. r[k].frame = f
  <2>1. CASE k = 1
    BY <1>2, <1>3, <1>6, <2>1
  <2>2. CASE k # 1
    <3>1. /\ k - 1 \in 1..Len(r) /\ r[k - 1].frame \in Nat /\ r[k].frame \in Nat
          /\ r[k].frame = r[k - 1].frame \/ r[k].frame = r[k - 1].frame + 1
      BY <1>6, <2>2, FrameSteps
    <3>2. k - 1 \notin T
      BY <1>4, <1>5, <1>6
    <3>3. ~ (f <= r[k - 1].frame)
      BY <3>1, <3>2 DEF T
    <3> QED BY <1>6, <3>1, <3>3
  <2> QED BY <2>1, <2>2
<1>8. k \in 1..j
  BY <1>2, <1>6
<1> QED BY <1>7, <1>8

\* The units of one frame stand one after the other.
LEMMA Block ==
    ASSUME NEW r, NEW lo, NEW hi, Laid(r, lo, hi), NEW p \in Nat, p + 1 \in 1..Len(r),
           r[p + 1].at = 1, NEW k \in Nat, 1 <= k, k <= r[p + 1].len, p + k <= Len(r)
    PROVE  /\ p + k \in 1..Len(r) /\ r[p + k].at = k /\ r[p + k].len = r[p + 1].len
           /\ r[p + k].frame = r[p + 1].frame
<1>1. r \in Seq(Unit)
  BY DEF Laid
<1>2. /\ Len(r) \in Nat
      /\ \A i \in 1..Len(r) : r[i].frame \in Nat /\ r[i].at \in Nat /\ r[i].len \in Nat
  BY <1>1, UnitAt
<1>3. PICK l \in Nat, f \in Nat : l = r[p + 1].len /\ f = r[p + 1].frame
  BY <1>2
<1> DEFINE T == {x \in 1..k : ~ (r[p + x].at = x /\ r[p + x].len = l /\ r[p + x].frame = f)}
<1>4. ASSUME T # {} PROVE FALSE
  <2>1. T \subseteq Nat
    OBVIOUS
  <2> HIDE DEF T
  <2>2. PICK x \in T : \A y \in T : x <= y
    BY <1>4, <2>1, LeastNumber
  <2>3. x \in 1..k /\ ~ (r[p + x].at = x /\ r[p + x].len = l /\ r[p + x].frame = f)
    BY <2>2 DEF T
  <2>4. x # 1
    BY <1>3, <2>3
  <2>5. x - 1 \in 1..k /\ x - 1 \notin T
    BY <2>1, <2>2, <2>3, <2>4
  <2>6. r[p + (x - 1)].at = x - 1 /\ r[p + (x - 1)].len = l /\ r[p + (x - 1)].frame = f
    BY <2>5 DEF T
  <2>7. PICK i \in 1..Len(r) : i = p + (x - 1) /\ i < Len(r) /\ i + 1 = p + x
    <3>1. /\ p + (x - 1) \in 1..Len(r) /\ p + (x - 1) < Len(r)
          /\ (p + (x - 1)) + 1 = p + x
      BY <1>2, <2>3, <2>5
    <3> QED BY <3>1
  <2>8. r[i].at = x - 1 /\ r[i].len = l /\ r[i].frame = f /\ x - 1 < l
    BY <1>3, <2>3, <2>5, <2>6, <2>7
  <2>9. Follows(r[i], r[i + 1])
    BY <2>7 DEF Laid
  <2>10. /\ r[i + 1].at = (x - 1) + 1 /\ r[i + 1].len = l /\ r[i + 1].frame = f
    BY <2>3, <2>8, <2>9 DEF Follows
  <2> QED BY <2>3, <2>7, <2>10
<1>5. k \in 1..k
  OBVIOUS
<1>6. r[p + k].at = k /\ r[p + k].len = l /\ r[p + k].frame = f
  BY <1>4, <1>5
<1> QED BY <1>2, <1>3, <1>6

LEMMA LaidEmpty ==
    ASSUME NEW n
    PROVE  Laid(<<>>, n, n)
BY DEF Laid


\* The units of one new frame.
LEMMA NewUnits ==
    ASSUME NEW f \in 0..MaxFrames, NEW k \in FrameKind, NEW n \in Nat
    PROVE  /\ Units(f, k, n) \in Seq(Unit) /\ Len(Units(f, k, n)) = n
           /\ \A i \in 1..n : Units(f, k, n)[i] = [frame |-> f, kind |-> k, at |-> i, len |-> n]
<1>1. \A i \in 1..n : [frame |-> f, kind |-> k, at |-> i, len |-> n] \in Unit
  BY DEF Unit
<1>2. Units(f, k, n) \in [1..n -> Unit]
  BY <1>1 DEF Units
<1> QED BY <1>2 DEF Units

\* One more frame.
LEMMA LaidMore ==
    ASSUME NEW r, NEW lo \in Nat, NEW hi \in 0..MaxFrames, Laid(r, lo, hi),
           NEW k \in FrameKind, k = "response" <=> hi = 0, NEW n \in Nat, n >= 1
    PROVE  Laid(r \o Units(hi, k, n), lo, hi + 1)
<1>1. r \in Seq(Unit) /\ Len(r) \in Nat /\ hi \in Nat
  BY WebSocketAssumption, UnitAt DEF Laid
<1>2. PICK t \in Seq(Unit) : /\ t = Units(hi, k, n) /\ Len(t) = n
                             /\ \A i \in 1..n : t[i] = [frame |-> hi, kind |-> k, at |-> i, len |-> n]
  BY NewUnits
<1>3. PICK z : z = r \o t
  OBVIOUS
<1>4. /\ z \in Seq(Unit) /\ Len(z) = Len(r) + n
      /\ \A i \in 1..(Len(r) + n) : z[i] = IF i <= Len(r) THEN r[i] ELSE t[i - Len(r)]
  <2>1. /\ r \o t \in Seq(Unit) /\ Len(r \o t) = Len(r) + Len(t)
        /\ \A i \in 1..(Len(r) + Len(t)) : (r \o t)[i] = IF i <= Len(r) THEN r[i] ELSE t[i - Len(r)]
    BY <1>1, ConcatProperties
  <2> QED BY <1>2, <1>3, <2>1, Zenon
<1>5. \A i \in 1..Len(r) : z[i] = r[i]
  BY <1>1, <1>4
<1>6. \A j \in 1..n : /\ Len(r) + j \in 1..Len(z)
                      /\ z[Len(r) + j] = [frame |-> hi, kind |-> k, at |-> j, len |-> n]
  <2>1. TAKE j \in 1..n
  <2>2. Len(r) + j \in 1..(Len(r) + n) /\ ~ (Len(r) + j <= Len(r)) /\ (Len(r) + j) - Len(r) = j
    BY <1>1
  <2>3. z[Len(r) + j] = t[j]
    BY <1>4, <2>2
  <2> QED BY <1>2, <1>4, <2>2, <2>3
<1>7. z # <<>> /\ Len(z) \in Nat /\ Len(z) >= 1
  BY <1>1, <1>4
<1>8. z[Len(z)].frame + 1 = hi + 1 /\ z[Len(z)].at = z[Len(z)].len
  <2>1. n \in 1..n
    OBVIOUS
  <2>2. z[Len(r) + n] = [frame |-> hi, kind |-> k, at |-> n, len |-> n]
    BY <1>6, <2>1
  <2> QED BY <1>4, <2>2
<1>9. z[1].frame = lo /\ z[1].at = 1
  <2>1. CASE r = <<>>
    <3>1. Len(r) = 0 /\ lo = hi /\ 1 \in 1..n
      BY <2>1 DEF Laid
    <3>2. z[0 + 1] = [frame |-> hi, kind |-> k, at |-> 1, len |-> n]
      BY <1>6, <3>1
    <3> QED BY <3>1, <3>2
  <2>2. CASE r # <<>>
    <3>1. 1 \in 1..Len(r) /\ r[1].frame = lo /\ r[1].at = 1
      BY <1>1, <2>2 DEF Laid
    <3> QED BY <1>5, <3>1
  <2> QED BY <2>1, <2>2
<1>10. \A i \in 1..Len(z) : i \in 1..Len(r) \/ \E j \in 1..n : i = Len(r) + j
  <2>1. TAKE i \in 1..Len(z)
  <2>2. i \in 1..Len(r) \/ (i - Len(r) \in 1..n /\ i = Len(r) + (i - Len(r)))
    BY <1>1, <1>4
  <2> QED BY <2>2
<1>11. \A i \in 1..Len(z) : Proper(z[i])
  <2>1. TAKE i \in 1..Len(z)
  <2>2. CASE i \in 1..Len(r)
    BY <1>5, <2>2 DEF Laid
  <2>3. CASE \E j \in 1..n : i = Len(r) + j
    <3>1. PICK j \in 1..n : i = Len(r) + j
      BY <2>3
    <3>2. z[i] = [frame |-> hi, kind |-> k, at |-> j, len |-> n]
      BY <1>6, <3>1
    <3> QED BY <3>1, <3>2 DEF Proper
  <2> QED BY <1>10, <2>2, <2>3
<1>12. ASSUME NEW i \in 1..Len(z), i < Len(z) PROVE Follows(z[i], z[i + 1])
  <2>1. CASE i \in 1..Len(r) /\ i < Len(r)
    <3>1. i + 1 \in 1..Len(r)
      BY <1>1, <2>1
    <3>2. Follows(r[i], r[i + 1])
      BY <2>1 DEF Laid
    <3> QED BY <1>5, <2>1, <3>1, <3>2
  <2>2. CASE i = Len(r)
    <3>1. 1 \in 1..n /\ i \in 1..Len(r) /\ r # <<>>
      BY <1>1, <2>2
    <3>2. z[i + 1] = [frame |-> hi, kind |-> k, at |-> 1, len |-> n]
      BY <1>6, <2>2, <3>1
    <3>3. z[i] = r[Len(r)] /\ r[Len(r)].frame + 1 = hi /\ r[Len(r)].at = r[Len(r)].len
      BY <1>5, <2>2, <3>1 DEF Laid
    <3>4. /\ z[i + 1].frame = z[i].frame + 1 /\ z[i + 1].at = 1 /\ z[i].at = z[i].len
      BY <3>2, <3>3
    <3> QED BY <3>4 DEF Follows
  <2>3. CASE ~ (i <= Len(r))
    <3>1. PICK j \in 1..n : i = Len(r) + j
      <4>1. i \notin 1..Len(r)
        BY <1>1, <2>3
      <4> QED BY <1>10, <4>1, Zenon
    <3>2. j + 1 \in 1..n /\ i + 1 = Len(r) + (j + 1) /\ j < n
      BY <1>1, <1>4, <1>12, <3>1
    <3>3. /\ z[i] = [frame |-> hi, kind |-> k, at |-> j, len |-> n]
          /\ z[i + 1] = [frame |-> hi, kind |-> k, at |-> j + 1, len |-> n]
      BY <1>6, <3>1, <3>2
    <3> QED BY <3>2, <3>3 DEF Follows
  <2> QED BY <1>1, <2>1, <2>2, <2>3
<1>13. Laid(z, lo, hi + 1)
  BY <1>4, <1>7, <1>8, <1>9, <1>11, <1>12 DEF Laid
<1> QED BY <1>2, <1>3, <1>13

\* A place where a frame may begin is followed by the first unit of a frame.
LEMMA StartIsFirst ==
    ASSUME NEW r, NEW lo \in Nat, NEW hi \in Nat, Laid(r, lo, hi), NEW p \in Nat, p < Len(r),
           p # 0 => r[p].at = r[p].len
    PROVE  /\ p + 1 \in 1..Len(r) /\ r[p + 1].at = 1
           /\ p = 0 => r[p + 1].frame = lo
           /\ p # 0 => r[p + 1].frame = r[p].frame + 1
<1>1. r \in Seq(Unit)
  BY DEF Laid
<1>2. /\ Len(r) \in Nat
      /\ \A i \in 1..Len(r) : r[i].frame \in Nat /\ r[i].at \in Nat /\ r[i].len \in Nat
  BY <1>1, UnitAt
<1>3. p + 1 \in 1..Len(r) /\ r # <<>>
  BY <1>2
<1>4. CASE p = 0
  BY <1>3, <1>4 DEF Laid
<1>5. CASE p # 0
  <2>1. p \in 1..Len(r)
    BY <1>2, <1>5
  <2>2. Follows(r[p], r[p + 1])
    BY <2>1 DEF Laid
  <2> QED BY <1>2, <1>3, <1>5, <2>1, <2>2 DEF Follows
<1> QED BY <1>3, <1>4, <1>5

\* What is left when the first frames have been erased.
LEMMA LaidCut ==
    ASSUME NEW r, NEW lo \in Nat, NEW hi \in Nat, Laid(r, lo, hi), NEW p \in 1..Len(r),
           r[p].at = r[p].len
    PROVE  Laid(SubSeq(r, p + 1, Len(r)), r[p].frame + 1, hi)
<1>1. r \in Seq(Unit) /\ r # <<>>
  BY DEF Laid
<1>2. /\ Len(r) \in Nat
      /\ \A i \in 1..Len(r) : r[i].frame \in Nat /\ r[i].at \in Nat /\ r[i].len \in Nat
  BY <1>1, UnitAt
<1>3. PICK z : z = SubSeq(r, p + 1, Len(r))
  OBVIOUS
<1>4. /\ z \in Seq(Unit) /\ Len(z) = Len(r) - p
      /\ \A i \in 1..Len(z) : p + i \in 1..Len(r) /\ z[i] = r[p + i]
  BY <1>1, <1>2, <1>3
<1>5. CASE p = Len(r)
  <2>1. z = <<>>
    BY <1>2, <1>4, <1>5
  <2>2. r[p].frame + 1 = hi
    BY <1>1, <1>5 DEF Laid
  <2> QED BY <1>3, <2>1, <2>2, LaidEmpty
<1>6. CASE p # Len(r)
  <2>1. p \in Nat /\ p < Len(r) /\ Len(z) >= 1 /\ Len(z) \in Nat /\ z # <<>>
    BY <1>2, <1>4, <1>6
  <2>2. r[p + 1].at = 1 /\ r[p + 1].frame = r[p].frame + 1
    BY <2>1, StartIsFirst
  <2>3. z[1] = r[p + 1] /\ z[Len(z)] = r[Len(r)]
    <3>1. 1 \in 1..Len(z) /\ Len(z) \in 1..Len(z) /\ p + Len(z) = Len(r)
      BY <1>2, <1>4, <2>1
    <3> QED BY <1>4, <3>1
  <2>4. r[Len(r)].frame + 1 = hi /\ r[Len(r)].at = r[Len(r)].len
    BY <1>1 DEF Laid
  <2>5. \A i \in 1..Len(z) : Proper(z[i])
    BY <1>4 DEF Laid
  <2>6. ASSUME NEW i \in 1..Len(z), i < Len(z) PROVE Follows(z[i], z[i + 1])
    <3>1. /\ p + i \in 1..Len(r) /\ p + i < Len(r) /\ (p + i) + 1 = p + (i + 1)
          /\ i + 1 \in 1..Len(z)
      BY <1>2, <1>4, <2>1, <2>6
    <3>2. Follows(r[p + i], r[(p + i) + 1])
      BY <3>1 DEF Laid
    <3> QED BY <1>4, <3>1, <3>2
  <2>7. Laid(z, r[p].frame + 1, hi)
    BY <1>4, <2>1, <2>2, <2>3, <2>4, <2>5, <2>6 DEF Laid
  <2> QED BY <1>3, <2>7
<1> QED BY <1>5, <1>6

\* The frames before a place where a frame may begin.
LEMMA FramesBefore ==
    ASSUME NEW r, NEW lo \in Nat, NEW hi \in Nat, Laid(r, lo, hi), NEW p \in 1..Len(r)
    PROVE  /\ FramesIn(SubSeq(r, 1, p)) = lo..r[p].frame
           /\ PingsIn(SubSeq(r, 1, p)) \subseteq lo..r[p].frame
           /\ lo <= r[p].frame /\ r[p].frame <= MaxFrames /\ r[p].frame \in Nat
<1>1. r \in Seq(Unit) /\ r # <<>>
  BY DEF Laid
<1>2. /\ Len(r) \in Nat
      /\ \A i \in 1..Len(r) : r[i].frame \in Nat /\ r[i].frame <= MaxFrames
  BY <1>1, UnitAt
<1>3. PICK z : z = SubSeq(r, 1, p)
  OBVIOUS
<1>4. Len(z) = p /\ \A i \in 1..p : i \in 1..Len(r) /\ z[i] = r[i]
  BY <1>1, <1>2, <1>3
<1>5. 1 \in 1..Len(r) /\ r[1].frame = lo
  BY <1>1, <1>2 DEF Laid
<1>6. ASSUME NEW i \in 1..p PROVE z[i].frame \in lo..r[p].frame
  <2>1. i \in 1..Len(r) /\ i <= p /\ 1 <= i
    BY <1>4
  <2>2. r[1].frame <= r[i].frame /\ r[i].frame <= r[p].frame
    BY <1>5, <2>1, FramesUp
  <2> QED BY <1>2, <1>4, <1>5, <2>1, <2>2
<1>7. ASSUME NEW f \in lo..r[p].frame PROVE \E i \in 1..p : z[i].frame = f
  <2>1. f \in Nat /\ lo <= f /\ f <= r[p].frame
    BY <1>2
  <2>2. \E i \in 1..p : r[i].frame = f
    BY <2>1, NoGap
  <2> QED BY <1>4, <2>2
<1>8. FramesIn(z) = lo..r[p].frame
  BY <1>4, <1>6, <1>7 DEF FramesIn
<1>9. PingsIn(z) \subseteq lo..r[p].frame
  BY <1>4, <1>6 DEF PingsIn
<1>10. lo <= r[p].frame
  BY <1>2, <1>5, FramesUp
<1> QED BY <1>2, <1>3, <1>8, <1>9, <1>10

\* Handling the frames before p counts them, and leaves the ones that follow.
LEMMA FramesCounted ==
    ASSUME NEW r, NEW lo \in Nat, NEW hi \in 0..(MaxFrames + 1), Laid(r, lo, hi), lo >= 1,
           NEW p \in 0..Len(r), p # 0 => r[p].at = r[p].len
    PROVE  \E k \in Nat :
              /\ Laid(SubSeq(r, p + 1, Len(r)), lo + k, hi)
              /\ Cardinality(FramesIn(SubSeq(r, 1, p))) = k
              /\ Cardinality(PingsIn(SubSeq(r, 1, p))) \in 0..MaxFrames
              /\ lo + k <= MaxFrames + 1
<1>1. r \in Seq(Unit) /\ Len(r) \in Nat /\ MaxFrames \in Nat /\ hi \in Nat
  BY WebSocketAssumption, UnitAt DEF Laid
<1>2. CASE p = 0
  <2>1. SubSeq(r, p + 1, Len(r)) = r /\ SubSeq(r, 1, p) = <<>>
    BY <1>1, <1>2
  <2>2. FramesIn(<<>>) = {} /\ PingsIn(<<>>) = {}
    BY DEF FramesIn, PingsIn
  <2>3. Cardinality({}) = 0
    BY FS_EmptySet
  <2>4. lo <= MaxFrames + 1
    <3>1. CASE r = <<>>
      BY <1>1, <3>1 DEF Laid
    <3>2. CASE r # <<>>
      <4>1. 1 \in 1..Len(r) /\ r[1].frame = lo
        BY <1>1, <3>2 DEF Laid
      <4>2. r[1].frame <= MaxFrames
        BY <1>1, <4>1, UnitAt
      <4> QED BY <1>1, <4>1, <4>2
    <3> QED BY <3>1, <3>2
  <2>5. lo + 0 = lo
    OBVIOUS
  <2>6. /\ Laid(SubSeq(r, p + 1, Len(r)), lo + 0, hi)
        /\ Cardinality(FramesIn(SubSeq(r, 1, p))) = 0
        /\ Cardinality(PingsIn(SubSeq(r, 1, p))) = 0
        /\ lo + 0 <= MaxFrames + 1
    BY <2>1, <2>2, <2>3, <2>4, <2>5
  <2>7. 0 \in 0..MaxFrames /\ 0 \in Nat
    BY <1>1
  <2> QED BY <2>6, <2>7
<1>3. CASE p # 0
  <2>1. p \in 1..Len(r)
    BY <1>1, <1>3
  <2>2. Laid(SubSeq(r, p + 1, Len(r)), r[p].frame + 1, hi)
    BY <1>1, <1>3, <2>1, LaidCut
  <2>3. /\ FramesIn(SubSeq(r, 1, p)) = lo..r[p].frame
        /\ PingsIn(SubSeq(r, 1, p)) \subseteq lo..r[p].frame
        /\ lo <= r[p].frame /\ r[p].frame <= MaxFrames /\ r[p].frame \in Nat
    BY <1>1, <2>1, FramesBefore
  <2>4. PICK f \in Nat : f = r[p].frame
    BY <2>3
  <2>5. lo \in Int /\ f \in Int
    BY <2>4
  <2>6. IsFiniteSet(lo..f) /\ Cardinality(lo..f) = IF lo > f THEN 0 ELSE f - lo + 1
    BY <2>5, FS_Interval, Zenon
  <2>7. Cardinality(lo..f) = f - lo + 1 /\ f - lo + 1 \in Nat /\ f - lo + 1 \in 0..MaxFrames
    BY <1>1, <2>3, <2>4, <2>6
  <2>8. Cardinality(PingsIn(SubSeq(r, 1, p))) \in 0..MaxFrames
    <3>1. PICK Q : Q = PingsIn(SubSeq(r, 1, p))
      OBVIOUS
    <3>2. Q \in SUBSET (lo..f)
      BY <2>3, <2>4, <3>1
    <3>3. IsFiniteSet(Q) /\ Cardinality(Q) <= Cardinality(lo..f)
      BY <2>6, <3>2, FS_Subset
    <3>4. Cardinality(Q) \in Nat
      BY <3>3, FS_CardinalityType
    <3> QED BY <1>1, <2>7, <3>1, <3>3, <3>4
  <2>9. lo + (f - lo + 1) = r[p].frame + 1 /\ lo + (f - lo + 1) <= MaxFrames + 1
    BY <1>1, <2>3, <2>4
  <2>10. Laid(SubSeq(r, p + 1, Len(r)), lo + (f - lo + 1), hi)
    BY <2>2, <2>9
  <2>11. Cardinality(FramesIn(SubSeq(r, 1, p))) = f - lo + 1
    BY <2>3, <2>4, <2>7
  <2> QED BY <2>7, <2>8, <2>9, <2>10, <2>11
<1> QED BY <1>2, <1>3

\* The loop of handle_buffer stops: at the last place where a frame may begin,
\* if not before.
LEMMA LoopStops ==
    ASSUME NEW r, NEW lo \in Nat, NEW hi \in Nat, Laid(r, lo, hi),
           NEW b \in Seq(Unit), Len(b) <= Len(r), \A i \in 1..Len(b) : b[i] = r[i]
    PROVE  StopAt(b) \in Starts(b)
<1>1. r \in Seq(Unit)
  BY DEF Laid
<1>2. /\ Len(r) \in Nat /\ Len(b) \in Nat
      /\ \A i \in 1..Len(r) : r[i].frame \in Nat /\ r[i].at \in Nat /\ r[i].len \in Nat
  BY <1>1, UnitAt
<1> DEFINE T == {x \in 0..Len(b) : Len(b) - x \in Starts(b)}
<1>3. T \subseteq Nat /\ Len(b) \in T
  BY <1>2 DEF Starts
<1> HIDE DEF T
<1>4. PICK x \in T : \A y \in T : x <= y
  BY <1>3, LeastNumber
<1>5. PICK p \in Nat : p = Len(b) - x /\ p <= Len(b)
  BY <1>2, <1>4 DEF T
<1>6. p \in Starts(b)
  BY <1>4, <1>5 DEF T
<1>7. \A q \in Starts(b) : q <= p
  <2>1. TAKE q \in Starts(b)
  <2>2. q \in 0..Len(b)
    BY DEF Starts
  <2>3. Len(b) - q \in 0..Len(b) /\ Len(b) - (Len(b) - q) = q
    BY <1>2, <2>2
  <2>4. Len(b) - q \in T
    BY <2>3 DEF T
  <2>5. x <= Len(b) - q /\ x \in Nat
    BY <1>3, <1>4, <2>4
  <2> QED BY <1>2, <1>5, <2>2, <2>5
<1>8. ASSUME Parseable(b, p) PROVE FALSE
  <2>1. p + 1 \in 1..Len(b) /\ p < Len(r) /\ p + b[p + 1].len <= Len(b)
    <3>1. Len(b) - p >= 2 /\ p + b[p + 1].len <= Len(b)
      BY <1>8 DEF Parseable
    <3> QED BY <1>2, <1>5, <3>1
  <2>2. p # 0 => r[p].at = r[p].len
    <3>1. ASSUME p # 0 PROVE r[p].at = r[p].len
      <4>1. p \in 1..Len(b) /\ b[p].at = b[p].len
        BY <1>2, <1>5, <1>6, <3>1 DEF Starts
      <4> QED BY <4>1
    <3> QED BY <3>1
  <2>3. p + 1 \in 1..Len(r) /\ r[p + 1].at = 1
    BY <2>1, <2>2, StartIsFirst
  <2>4. PICK l \in Nat : l = r[p + 1].len /\ l = b[p + 1].len
    BY <1>2, <2>1, <2>3
  <2>5. l >= 1
    <3>1. Proper(r[p + 1])
      BY <2>3 DEF Laid
    <3> QED BY <2>4, <3>1 DEF Proper
  <2>6. p + l <= Len(r) /\ p + l \in 1..Len(b)
    BY <1>2, <2>1, <2>4, <2>5
  <2>7. r[p + l].at = l /\ r[p + l].len = l
    <3>1. 1 <= l /\ l <= r[p + 1].len
      BY <2>4, <2>5
    <3>2. r[p + l].at = l /\ r[p + l].len = r[p + 1].len
      BY <2>3, <2>6, <3>1, Block
    <3> QED BY <2>4, <3>2
  <2>8. b[p + l].at = b[p + l].len
    BY <2>6, <2>7
  <2>9. p + l \in Starts(b)
    BY <1>2, <2>6, <2>8 DEF Starts
  <2> QED BY <1>7, <2>4, <2>5, <2>9
<1> DEFINE U == {q \in Starts(b) : Stops(b, q)}
<1>9. p \in U
  BY <1>6, <1>8 DEF Stops
<1>10. U \subseteq Nat
  BY <1>2 DEF Starts
<1>11. \A q \in U : q \in Starts(b) /\ Stops(b, q)
  OBVIOUS
<1>12. \A q \in Starts(b) : Stops(b, q) => q \in U
  OBVIOUS
<1> HIDE DEF U
<1>13. PICK q \in U : \A y \in U : q <= y
  BY <1>9, <1>10, LeastNumber
<1>14. q \in Starts(b) /\ Stops(b, q) /\ \A y \in Starts(b) : Stops(b, y) => q <= y
  BY <1>11, <1>12, <1>13
<1> QED BY <1>14 DEF StopAt

\* When the response is complete in b, it is the first thing there, and its
\* length says where it ends.
LEMMA ResponseFirst ==
    ASSUME NEW r, NEW lo \in Nat, NEW hi \in Nat, Laid(r, lo, hi),
           NEW b \in Seq(Unit), Len(b) <= Len(r), \A i \in 1..Len(b) : b[i] = r[i],
           HasHeaders(b)
    PROVE  /\ b[1].len \in 1..Len(b) /\ lo = 0
           /\ r[b[1].len].at = r[b[1].len].len /\ r[b[1].len].frame = 0
<1>1. r \in Seq(Unit)
  BY DEF Laid
<1>2. /\ Len(r) \in Nat /\ Len(b) \in Nat
      /\ \A i \in 1..Len(r) : r[i].frame \in Nat /\ r[i].at \in Nat /\ r[i].len \in Nat
  BY <1>1, UnitAt
<1>3. PICK i \in 1..Len(b) : b[i].kind = "response" /\ b[i].at = b[i].len
  BY DEF HasHeaders
<1>4. i \in 1..Len(r) /\ 1 \in 1..Len(r) /\ 1 \in 1..Len(b) /\ 1 <= i /\ r # <<>>
  BY <1>2
<1>5. Proper(r[i]) /\ r[i].kind = "response" /\ r[i].at = r[i].len
  BY <1>3, <1>4 DEF Laid
<1>6. r[i].frame = 0
  BY <1>5 DEF Proper
<1>7. r[1].frame = lo /\ r[1].at = 1 /\ Proper(r[1])
  BY <1>4 DEF Laid
<1>8. r[1].frame <= r[i].frame
  BY <1>4, FramesUp
<1>9. lo = 0
  BY <1>2, <1>6, <1>7, <1>8
<1>10. PICK l \in Nat : l = r[1].len /\ l = b[1].len /\ l >= 1
  BY <1>2, <1>4, <1>7 DEF Proper
<1>11. 0 \in Nat /\ 0 + 1 \in 1..Len(r) /\ r[0 + 1].at = 1 /\ r[0 + 1].len = l
       /\ r[0 + 1].frame = 0
  BY <1>4, <1>7, <1>9, <1>10
<1>12. i >= l
  <2>1. SUFFICES ASSUME ~ (i >= l) PROVE FALSE
    OBVIOUS
  <2>2. i \in Nat /\ 1 <= i /\ i <= l /\ 0 + i <= Len(r) /\ 0 + i = i /\ i # l
    BY <1>2, <1>4, <2>1
  <2>3. r[0 + i].at = i /\ r[0 + i].len = r[0 + 1].len
    BY <1>11, <2>2, Block
  <2> QED BY <1>5, <1>11, <2>2, <2>3
<1>13. 0 + l <= Len(r) /\ 1 <= l /\ 0 + l = l /\ l \in 1..Len(b)
  BY <1>2, <1>3, <1>4, <1>10, <1>12
<1>14. /\ r[0 + l].at = l /\ r[0 + l].len = r[0 + 1].len
       /\ r[0 + l].frame = r[0 + 1].frame
  <2>1. l <= r[0 + 1].len
    BY <1>11
  <2> QED BY <1>11, <1>13, <2>1, Block
<1> QED BY <1>9, <1>10, <1>11, <1>13, <1>14

\* One read moves the first n units of d behind buf: b is then the buffer, u is
\* what is left of d, and r is all of it.
CutOf(buf, d, n, b, u, r) ==
    /\ b = buf \o SubSeq(d, 1, n)
    /\ u = SubSeq(d, n + 1, Len(d))
    /\ r = buf \o d

\* b and u are the two parts of r, and remain so when p units are erased.
Parts(b, u, r, p) ==
    /\ Len(b) <= Len(r) /\ \A i \in 1..Len(b) : b[i] = r[i]
    /\ SubSeq(b, 1, p) = SubSeq(r, 1, p)
    /\ From(b, p) \in Seq(Unit) /\ u \in Seq(Unit)
    /\ From(b, p) \o u = SubSeq(r, p + 1, Len(r))

LEMMA ReadCut ==
    ASSUME NEW buf \in Seq(Unit), NEW d \in Seq(Unit), NEW n \in 0..Len(d),
           NEW p \in 0..(Len(buf) + n), NEW b, NEW u, NEW r, CutOf(buf, d, n, b, u, r)
    PROVE  /\ b \in Seq(Unit) /\ Len(b) = Len(buf) + n
           /\ r \in Seq(Unit) /\ Len(r) = Len(buf) + Len(d)
           /\ Parts(b, u, r, p)
<1>1. Len(buf) \in Nat /\ Len(d) \in Nat
  BY LenProperties
<1>2. PICK t : t = SubSeq(d, 1, n)
  OBVIOUS
<1>3. t \in Seq(Unit) /\ Len(t) = n /\ \A i \in 1..n : i \in 1..Len(d) /\ t[i] = d[i]
  BY <1>1, <1>2
<1>5. u \in Seq(Unit) /\ Len(u) = Len(d) - n /\ \A i \in 1..Len(u) : u[i] = d[n + i]
  BY <1>1 DEF CutOf
<1>6. /\ b \in Seq(Unit) /\ Len(b) = Len(buf) + n
      /\ \A i \in 1..(Len(buf) + n) : b[i] = IF i <= Len(buf) THEN buf[i] ELSE t[i - Len(buf)]
  <2>1. /\ buf \o t \in Seq(Unit) /\ Len(buf \o t) = Len(buf) + Len(t)
        /\ \A i \in 1..(Len(buf) + Len(t)) :
              (buf \o t)[i] = IF i <= Len(buf) THEN buf[i] ELSE t[i - Len(buf)]
    BY <1>3, ConcatProperties
  <2>2. b = buf \o t
    BY <1>2 DEF CutOf
  <2> QED BY <1>3, <2>1, <2>2, Zenon
<1>7. /\ r \in Seq(Unit) /\ Len(r) = Len(buf) + Len(d)
      /\ \A i \in 1..(Len(buf) + Len(d)) : r[i] = IF i <= Len(buf) THEN buf[i] ELSE d[i - Len(buf)]
  <2>1. r = buf \o d
    BY DEF CutOf
  <2> QED BY <2>1, ConcatProperties
<1>8. /\ \A i \in 1..Len(buf) : b[i] = buf[i] /\ r[i] = buf[i]
  BY <1>1, <1>6, <1>7
<1>9. \A j \in 1..n : b[Len(buf) + j] = d[j]
  <2>1. TAKE j \in 1..n
  <2>2. /\ Len(buf) + j \in 1..(Len(buf) + n) /\ ~ (Len(buf) + j <= Len(buf))
        /\ (Len(buf) + j) - Len(buf) = j
    BY <1>1
  <2>3. b[Len(buf) + j] = t[j]
    BY <1>6, <2>2
  <2> QED BY <1>3, <2>3
<1>10. \A j \in 1..Len(d) : r[Len(buf) + j] = d[j]
  <2>1. TAKE j \in 1..Len(d)
  <2>2. /\ Len(buf) + j \in 1..(Len(buf) + Len(d)) /\ ~ (Len(buf) + j <= Len(buf))
        /\ (Len(buf) + j) - Len(buf) = j
    BY <1>1
  <2> QED BY <1>7, <2>2
<1>11. \A i \in 1..Len(b) : b[i] = r[i]
  <2>1. TAKE i \in 1..Len(b)
  <2>2. CASE i \in 1..Len(buf)
    BY <1>8, <2>2
  <2>3. CASE i \notin 1..Len(buf)
    <3>1. i - Len(buf) \in 1..n /\ i - Len(buf) \in 1..Len(d) /\ Len(buf) + (i - Len(buf)) = i
      BY <1>1, <1>6, <2>3
    <3> QED BY <1>9, <1>10, <3>1
  <2> QED BY <2>2, <2>3
<1>12. Len(b) <= Len(r) /\ Len(b) \in Nat /\ Len(r) \in Nat
  BY <1>1, <1>6, <1>7
<1>13. SubSeq(b, 1, p) = SubSeq(r, 1, p)
  <2>1. p \in 0..Len(b) /\ p \in 0..Len(r)
    BY <1>1, <1>6, <1>7
  <2>2. SubSeq(b, 1, p) = [i \in 1..p |-> b[i]] /\ SubSeq(r, 1, p) = [i \in 1..p |-> r[i]]
    BY <1>6, <1>7, <1>12, <2>1
  <2>3. \A i \in 1..p : b[i] = r[i]
    BY <1>11, <1>12, <2>1
  <2> QED BY <2>2, <2>3
<1>14. PICK v : v = From(b, p)
  OBVIOUS
<1>15. v \in Seq(Unit) /\ Len(v) = Len(b) - p /\ \A i \in 1..Len(v) : v[i] = b[p + i]
  BY <1>6, <1>12, <1>14 DEF From
<1>16. PICK w : w = SubSeq(r, p + 1, Len(r))
  OBVIOUS
<1>17. w \in Seq(Unit) /\ Len(w) = Len(r) - p /\ \A i \in 1..Len(w) : w[i] = r[p + i]
  BY <1>1, <1>6, <1>7, <1>12, <1>16
<1>18. v \o u = w
  <2>1. /\ v \o u \in Seq(Unit) /\ Len(v \o u) = Len(v) + Len(u)
        /\ \A i \in 1..(Len(v) + Len(u)) :
              (v \o u)[i] = IF i <= Len(v) THEN v[i] ELSE u[i - Len(v)]
    BY <1>5, <1>15, ConcatProperties
  <2>2. Len(v \o u) = Len(w)
    BY <1>1, <1>5, <1>6, <1>7, <1>15, <1>17, <2>1
  <2>3. ASSUME NEW i \in 1..Len(w) PROVE (v \o u)[i] = w[i]
    <3>1. (v \o u)[i] = IF i <= Len(v) THEN v[i] ELSE u[i - Len(v)]
      BY <2>1, <2>2
    <3>2. CASE i <= Len(v)
      <4>1. i \in 1..Len(v) /\ p + i \in 1..Len(b)
        BY <1>1, <1>6, <1>12, <1>15, <3>2
      <4> QED BY <1>11, <1>15, <1>17, <3>1, <3>2, <4>1
    <3>3. CASE ~ (i <= Len(v))
      <4>1. i - Len(v) \in 1..Len(u) /\ n + (i - Len(v)) \in 1..Len(d)
            /\ Len(buf) + (n + (i - Len(v))) = p + i
        <5>1. /\ Len(v) = (Len(buf) + n) - p /\ Len(w) = (Len(buf) + Len(d)) - p
              /\ Len(u) = Len(d) - n /\ Len(v) \in Nat
          BY <1>1, <1>5, <1>6, <1>7, <1>15, <1>17
        <5> QED BY <1>1, <3>3, <5>1
      <4>2. u[i - Len(v)] = d[n + (i - Len(v))]
        BY <1>5, <4>1
      <4>3. d[n + (i - Len(v))] = r[Len(buf) + (n + (i - Len(v)))]
        BY <1>10, <4>1
      <4> QED BY <1>17, <3>1, <3>3, <4>1, <4>2, <4>3
    <3> QED BY <3>2, <3>3
  <2> QED BY <1>17, <2>1, <2>2, <2>3, SeqEqual
<1>19. Parts(b, u, r, p)
  BY <1>5, <1>11, <1>12, <1>13, <1>14, <1>15, <1>16, <1>18 DEF Parts
<1> QED BY <1>6, <1>7, <1>19

\* What has arrived when d is what it holds of the stream, ...
Ends(a, d) == a = d \/ a = Append(d, Mark("eof"))

\* ... and when a session ticket comes before it.
Ticketed(a, d) == \E x : Ends(x, d) /\ a = <<Mark("ticket")>> \o x

Any == Unit \union {Mark(k) : k \in MarkKind}

LEMMA Marks ==
    /\ \A k \in MarkKind : Mark(k) \in Any /\ Mark(k).kind = k
    /\ \A u \in Unit : u \in Any /\ u.kind \in FrameKind /\ u.kind \notin MarkKind
    /\ "eof" \in MarkKind /\ "ticket" \in MarkKind /\ "flight" \in MarkKind
BY DEF Any, Mark, MarkKind, Unit, FrameKind

\* The units of d come first.
LEMMA EndsAt ==
    ASSUME NEW d \in Seq(Unit), NEW a, Ends(a, d)
    PROVE  /\ a \in Seq(Any) /\ Len(a) \in {Len(d), Len(d) + 1} /\ Len(d) \in Nat
           /\ \A i \in 1..Len(d) : a[i] = d[i]
           /\ Len(a) = Len(d) => a = d
           /\ Len(a) = Len(d) + 1 => a = Append(d, Mark("eof")) /\ a[Len(d) + 1] = Mark("eof")
<1>1. d \in Seq(Any) /\ Mark("eof") \in Any /\ Len(d) \in Nat
  <2>1. Unit \subseteq Any
    BY DEF Any
  <2> QED BY <2>1, Marks
<1>2. CASE a = d
  BY <1>1, <1>2
<1>3. CASE a = Append(d, Mark("eof"))
  <2>1. PICK u \in Any : u = Mark("eof")
    BY <1>1
  <2>2. /\ Append(d, u) \in Seq(Any) /\ Len(Append(d, u)) = Len(d) + 1
        /\ \A i \in 1..Len(d) : Append(d, u)[i] = d[i]
        /\ Append(d, u)[Len(d) + 1] = u
    BY <1>1
  <2> QED BY <1>1, <1>3, <2>1, <2>2
<1> QED BY <1>2, <1>3 DEF Ends

\* A read of n units that are no marks.
LEMMA EndsRead ==
    ASSUME NEW d \in Seq(Unit), NEW a, Ends(a, d), NEW n \in 1..Len(a),
           \A i \in 1..n : a[i].kind \notin MarkKind
    PROVE  /\ n \in 1..Len(d) /\ SubSeq(a, 1, n) = SubSeq(d, 1, n)
           /\ Ends(SubSeq(a, n + 1, Len(a)), SubSeq(d, n + 1, Len(d)))
<1>1. /\ a \in Seq(Any) /\ Len(a) \in {Len(d), Len(d) + 1} /\ Len(d) \in Nat
      /\ \A i \in 1..Len(d) : a[i] = d[i]
      /\ Len(a) = Len(d) => a = d
      /\ Len(a) = Len(d) + 1 => a = Append(d, Mark("eof")) /\ a[Len(d) + 1] = Mark("eof")
  BY EndsAt
<1>2. n \in 1..Len(d)
  <2>1. SUFFICES ASSUME n \notin 1..Len(d) PROVE FALSE
    OBVIOUS
  <2>2. n = Len(d) + 1 /\ Len(a) = Len(d) + 1 /\ n \in 1..n
    BY <1>1, <2>1
  <2>3. a[n] = Mark("eof")
    BY <1>1, <2>2
  <2> QED BY <2>2, <2>3, Marks
<1>3. SubSeq(a, 1, n) = SubSeq(d, 1, n)
  <2>1. n \in 0..Len(a) /\ n \in 0..Len(d)
    BY <1>1, <1>2
  <2>2. SubSeq(a, 1, n) = [i \in 1..n |-> a[i]] /\ SubSeq(d, 1, n) = [i \in 1..n |-> d[i]]
    BY <1>1, <2>1
  <2>3. \A i \in 1..n : a[i] = d[i]
    BY <1>1, <1>2
  <2> QED BY <2>2, <2>3
<1>4. CASE Len(a) = Len(d)
  BY <1>1, <1>2, <1>3, <1>4 DEF Ends
<1>5. CASE Len(a) = Len(d) + 1
  <2>0. PICK u \in Any : u = Mark("eof")
    BY Marks
  <2>1. PICK v, w, y : /\ v = SubSeq(a, n + 1, Len(a)) /\ w = SubSeq(d, n + 1, Len(d))
                       /\ y = Append(w, u)
    OBVIOUS
  <2>2. w \in Seq(Unit) /\ Len(w) = Len(d) - n /\ \A i \in 1..Len(w) : w[i] = d[n + i]
    BY <1>1, <1>2, <2>1
  <2>3. /\ v \in Seq(Any) /\ Len(v) = Len(d) + 1 - n
        /\ \A i \in 1..Len(v) : v[i] = a[n + i]
    BY <1>1, <1>2, <1>5, <2>1
  <2>4. w \in Seq(Any)
    <3>1. Unit \subseteq Any
      BY DEF Any
    <3> QED BY <2>2, <3>1
  <2>5. /\ y \in Seq(Any) /\ Len(y) = Len(w) + 1 /\ y[Len(w) + 1] = u
        /\ \A i \in 1..Len(w) : y[i] = w[i]
    <3>1. /\ Append(w, u) \in Seq(Any) /\ Len(Append(w, u)) = Len(w) + 1
          /\ \A i \in 1..Len(w) : Append(w, u)[i] = w[i]
          /\ Append(w, u)[Len(w) + 1] = u
      BY <2>4
    <3>2. y = Append(w, u)
      BY <2>1
    <3> QED BY <3>1, <3>2
  <2>6. Len(v) = Len(y) /\ Len(v) = Len(w) + 1 /\ Len(w) \in Nat
    <3>1. PICK k \in Nat, l \in Nat : l = Len(d) /\ k = Len(w) /\ n <= l /\ k = l - n /\ n \in Nat
      BY <1>1, <1>2, <2>2
    <3> QED BY <2>3, <2>5, <3>1
  <2>7. ASSUME NEW i \in 1..Len(v) PROVE v[i] = y[i]
    <3>1. CASE i \in 1..Len(w)
      <4>1. n + i \in 1..Len(d)
        BY <1>1, <1>2, <2>2, <3>1
      <4> QED BY <1>1, <2>2, <2>3, <2>5, <3>1, <4>1
    <3>2. CASE i \notin 1..Len(w)
      <4>1. i = Len(w) + 1 /\ n + i = Len(d) + 1
        <5>1. i = Len(w) + 1
          BY <2>6, <3>2
        <5>2. Len(w) = Len(d) - n /\ n \in Nat /\ Len(d) \in Nat
          BY <1>1, <1>2, <2>2
        <5> QED BY <5>1, <5>2
      <4> QED BY <1>1, <1>5, <2>0, <2>3, <2>5, <4>1
    <3> QED BY <3>1, <3>2
  <2>8. v = y
    BY <2>3, <2>5, <2>6, <2>7, SeqEqual
  <2> QED BY <1>2, <1>3, <2>0, <2>1, <2>8 DEF Ends
<1> QED BY <1>1, <1>4, <1>5

\* The ticket is the first thing there is to read.
LEMMA TicketFirst ==
    ASSUME NEW d \in Seq(Unit), NEW a, Ticketed(a, d)
    PROVE  /\ a \in Seq(Any) /\ a # <<>> /\ a[1] = Mark("ticket") /\ Head(a) = Mark("ticket")
           /\ Ends(Tail(a), d)
<1>1. PICK x : Ends(x, d) /\ a = <<Mark("ticket")>> \o x
  BY DEF Ticketed
<1>2. x \in Seq(Any)
  BY <1>1, EndsAt
<1>3. PICK u \in Any : u = Mark("ticket")
  BY Marks
<1>4. /\ <<u>> \o x \in Seq(Any) /\ <<u>> \o x # <<>> /\ (<<u>> \o x)[1] = u
      /\ Head(<<u>> \o x) = u /\ Tail(<<u>> \o x) = x
  BY <1>2
<1> QED BY <1>1, <1>3, <1>4

\* More arrives, before the end of the stream.
LEMMA EndsMore ==
    ASSUME NEW d \in Seq(Unit), NEW a, NEW t \in Seq(Unit),
           \A i \in 1..Len(a) : a[i].kind # "eof"
    PROVE  /\ Ends(a, d) => a = d
           /\ Ends(a, d) => Ends(a \o t, d \o t) /\ Ends(a \o <<Mark("eof")>>, d)
           /\ Ticketed(a, d) => Ticketed(a \o t, d \o t) /\ Ticketed(a \o <<Mark("eof")>>, d)
<1>1. \A x : Ends(x, d) => x \in Seq(Any) /\ (x # d => Len(x) \in 1..Len(x) /\ x[Len(x)].kind = "eof")
  <2>1. SUFFICES ASSUME NEW x, Ends(x, d)
                 PROVE  x \in Seq(Any) /\ (x # d => Len(x) \in 1..Len(x) /\ x[Len(x)].kind = "eof")
    OBVIOUS
  <2>2. /\ x \in Seq(Any) /\ Len(x) \in {Len(d), Len(d) + 1} /\ Len(d) \in Nat
        /\ Len(x) = Len(d) => x = d
        /\ Len(x) = Len(d) + 1 => x[Len(d) + 1] = Mark("eof")
    BY <2>1, EndsAt
  <2>3. ASSUME x # d PROVE Len(x) \in 1..Len(x) /\ x[Len(x)].kind = "eof"
    <3>1. Len(x) = Len(d) + 1 /\ x[Len(d) + 1] = Mark("eof")
      BY <2>2, <2>3
    <3>2. x[Len(x)] = Mark("eof") /\ Len(x) \in 1..Len(x)
      BY <2>2, <3>1
    <3> QED BY <3>2, Marks
  <2> QED BY <2>2, <2>3
<1>2. Ends(a, d) => a = d
  BY <1>1
<1>3. PICK u \in Any, v \in Any : u = Mark("eof") /\ v = Mark("ticket")
  BY Marks
<1>4. \A x \in Seq(Any) : x \o <<u>> = Append(x, u)
  BY AppendIsConcat
<1>5. d \in Seq(Any) /\ t \in Seq(Any)
  <2>1. Unit \subseteq Any
    BY DEF Any
  <2> QED BY <2>1
<1>6. ASSUME Ends(a, d) PROVE Ends(a \o t, d \o t) /\ Ends(a \o <<Mark("eof")>>, d)
  BY <1>2, <1>3, <1>4, <1>5, <1>6 DEF Ends
<1>7. ASSUME Ticketed(a, d) PROVE Ticketed(a \o t, d \o t) /\ Ticketed(a \o <<Mark("eof")>>, d)
  <2>1. PICK x : Ends(x, d) /\ a = <<v>> \o x
    BY <1>3, <1>7 DEF Ticketed
  <2>2. x \in Seq(Any) /\ (x # d => Len(x) \in 1..Len(x) /\ x[Len(x)].kind = "eof")
    BY <1>1, <2>1
  <2>3. x = d
    <3>1. SUFFICES ASSUME x # d PROVE FALSE
      OBVIOUS
    <3>2. Len(a) = Len(x) + 1 /\ a[Len(x) + 1] = x[Len(x)]
      BY <2>1, <2>2, <3>1
    <3>3. Len(x) + 1 \in 1..Len(a)
      BY <2>2, <3>2
    <3> QED BY <2>2, <3>1, <3>2, <3>3
  <2>4. <<v>> \in Seq(Any) /\ <<u>> \in Seq(Any)
    BY <1>3
  <2>5. a \o t = <<v>> \o (d \o t) /\ a \o <<u>> = <<v>> \o (d \o <<u>>)
    <3>1. (<<v>> \o d) \o t = <<v>> \o (d \o t)
      BY <1>5, <2>4, ConcatAssociative
    <3>2. (<<v>> \o d) \o <<u>> = <<v>> \o (d \o <<u>>)
      BY <1>5, <2>4, ConcatAssociative
    <3> QED BY <2>1, <2>3, <3>1, <3>2
  <2>6. Ends(d \o t, d \o t) /\ Ends(d \o <<u>>, d)
    BY <1>3, <1>4, <1>5 DEF Ends
  <2> QED BY <1>3, <2>5, <2>6 DEF Ticketed
<1> QED BY <1>2, <1>6, <1>7

-----------------------------------------------------------------------------
(* The input, read and not yet read.                                       *)

\* The frames that wait are whole and follow the one handled last: d is what
\* has arrived of them, behind what is in the buffer.
Waiting(b, a, st, h, f) ==
    \E d \in Seq(Unit), lo \in Nat :
        /\ Ends(a, d) \/ (Ticketed(a, d) /\ st = "HTTP_HEADERS")
        /\ Laid(b \o d, lo, f)
        /\ st = "CONNECTED" => lo = h + 1
        /\ st = "HTTP_HEADERS" => h = 0 /\ lo \in {0, 1}

InputTypeOK ==
    /\ arrived \in Seq(Any)
    /\ buffer \in Seq(Unit)
    /\ state \in {"HTTP_HEADERS", "CONNECTED"}
    /\ pongs \in 0..MaxFrames
    /\ frames \in 0..(MaxFrames + 1)
    /\ handled \in 0..MaxFrames

BeforeHandshake ==
    /\ arrived \in {<<>>, <<Mark("flight")>>}
    /\ frames = 0 /\ handled = 0 /\ buffer = <<>>

InputInv ==
    /\ InputTypeOK
    /\ connected => open /\ Waiting(buffer, arrived, state, handled, frames)
    /\ ~ connected => state = "HTTP_HEADERS"
    /\ ~ connected /\ open => BeforeHandshake
    /\ pongs > 0 => loop = "handled"
    /\ loop = "handled" => connected

\* Steps that leave the input alone.
LEMMA InputQuiet ==
    ASSUME InputInv, UNCHANGED <<arrived, buffer, connected, open, wsVars>>,
           (loop' = "handled" <=> loop = "handled") \/ (pongs = 0 /\ loop' # "handled")
    PROVE  InputInv'
<1>1. UNCHANGED <<arrived, buffer, connected, open, state, pongs, frames, handled>>
  BY DEF wsVars
<1>2. InputTypeOK'
  BY <1>1 DEF InputInv, InputTypeOK
<1>3. connected' => open' /\ Waiting(buffer, arrived, state, handled, frames)'
  BY <1>1 DEF InputInv, Waiting
<1>4. BeforeHandshake' = BeforeHandshake
  BY <1>1 DEF BeforeHandshake
<1>5. (pongs > 0 => loop = "handled")' /\ (loop = "handled" => connected)'
  BY <1>1, WebSocketAssumption DEF InputInv, InputTypeOK
<1> QED BY <1>1, <1>2, <1>3, <1>4, <1>5 DEF InputInv

\* Steps that end the connection.
LEMMA InputClosed ==
    ASSUME InputInv, ~ connected', ~ open', buffer' = <<>>, state' = "HTTP_HEADERS",
           pongs' = 0, UNCHANGED <<arrived, frames>>, handled' \in 0..MaxFrames,
           loop' # "handled"
    PROVE  InputInv'
<1>1. InputTypeOK'
  BY WebSocketAssumption DEF InputInv, InputTypeOK
<1> QED BY <1>1 DEF InputInv

\* The handshake is over.
LEMMA InputHandshake ==
    ASSUME InputInv, PlaceInv, HandshakeDone, UNCHANGED wsVars
    PROVE  InputInv'
<1>1. /\ ~ connected /\ arrived # <<>> /\ arrived' = Tail(arrived) /\ connected'
      /\ UNCHANGED <<open, buffer, state, pongs, frames, handled>> /\ loop # "handled"
      /\ loop' # "handled" /\ loop \notin {"wait", "erase"}
  BY DEF HandshakeDone, InHandshake, wsVars
<1>2. open /\ open'
  BY <1>1 DEF PlaceInv
<1>3. BeforeHandshake /\ state = "HTTP_HEADERS" /\ pongs = 0
  BY <1>1, <1>2, WebSocketAssumption DEF InputInv, InputTypeOK
<1>4. arrived' = <<>>
  BY <1>1, <1>3 DEF BeforeHandshake
<1>5. Waiting(<<>>, <<>>, "HTTP_HEADERS", 0, 0)
  <2>1. /\ <<>> \in Seq(Unit) /\ 0 \in Nat /\ Ends(<<>>, <<>>)
        /\ <<>> \o <<>> = <<>> /\ Laid(<<>>, 0, 0)
    BY LaidEmpty DEF Ends
  <2>2. Laid(<<>> \o <<>>, 0, 0)
    BY <2>1
  <2> QED BY <2>1, <2>2 DEF Waiting
<1>6. /\ buffer' = <<>> /\ handled' = 0 /\ frames' = 0 /\ state' = "HTTP_HEADERS"
  BY <1>1, <1>3 DEF BeforeHandshake
<1>7. Waiting(buffer, arrived, state, handled, frames)'
  BY <1>4, <1>5, <1>6
<1>8. InputTypeOK'
  BY <1>1, <1>4 DEF InputInv, InputTypeOK
<1> QED BY <1>1, <1>2, <1>3, <1>7, <1>8 DEF InputInv

\* SSL_read has passed over a session ticket.
LEMMA InputTicket ==
    ASSUME InputInv, connected, arrived # <<>>, Head(arrived).kind = "ticket",
           arrived' = Tail(arrived), loop # "handled", loop' # "handled",
           UNCHANGED <<buffer, connected, open, wsVars>>
    PROVE  InputInv'
<1>1. UNCHANGED <<buffer, connected, open, state, pongs, frames, handled>> /\ pongs = 0
  BY WebSocketAssumption DEF wsVars, InputInv, InputTypeOK
<1>2. PICK d \in Seq(Unit), lo \in Nat :
        /\ Ends(arrived, d) \/ (Ticketed(arrived, d) /\ state = "HTTP_HEADERS")
        /\ Laid(buffer \o d, lo, frames)
        /\ state = "CONNECTED" => lo = handled + 1
        /\ state = "HTTP_HEADERS" => handled = 0 /\ lo \in {0, 1}
  BY DEF InputInv, Waiting
<1>3. PICK a : a = arrived
  OBVIOUS
<1>4. ~ Ends(a, d)
  <2>1. SUFFICES ASSUME Ends(a, d) PROVE FALSE
    OBVIOUS
  <2>2. /\ a \in Seq(Any) /\ Len(a) \in {Len(d), Len(d) + 1} /\ Len(d) \in Nat
        /\ \A i \in 1..Len(d) : a[i] = d[i]
        /\ Len(a) = Len(d) + 1 => a[Len(d) + 1] = Mark("eof")
    BY <2>1, EndsAt
  <2>3. a # <<>> /\ a[1].kind = "ticket" /\ Len(a) >= 1
    BY <1>3, <2>2
  <2>4. CASE Len(d) = 0
    BY <2>2, <2>3, <2>4, Marks
  <2>5. CASE Len(d) # 0
    <3>1. 1 \in 1..Len(d) /\ a[1] = d[1] /\ d[1] \in Unit
      BY <2>2, <2>5, ElementOfSeq
    <3> QED BY <2>3, <3>1, Marks
  <2> QED BY <2>4, <2>5
<1>5. Ticketed(a, d)
  BY <1>2, <1>3, <1>4
<1>6. Ends(Tail(a), d)
  BY <1>5, TicketFirst
<1>7. Ends(arrived', d)
  BY <1>3, <1>6
<1>8. Waiting(buffer, arrived, state, handled, frames)'
  BY <1>1, <1>2, <1>7 DEF Waiting
<1>9. arrived' \in Seq(Any)
  BY DEF InputInv, InputTypeOK
<1> QED BY <1>1, <1>8, <1>9 DEF InputInv, InputTypeOK

\* The stream, as one read finds it.
LEMMA ReadFinds ==
    ASSUME InputInv, connected, NEW n \in 1..Least(Len(arrived), BufSize),
           \A i \in 1..n : arrived[i].kind \notin MarkKind
    PROVE  \E d \in Seq(Unit), lo \in Nat :
              /\ n \in 1..Len(d)
              /\ Laid(buffer \o d, lo, frames)
              /\ state = "CONNECTED" => lo = handled + 1
              /\ state = "HTTP_HEADERS" => handled = 0 /\ lo \in {0, 1}
              /\ SubSeq(arrived, 1, n) = SubSeq(d, 1, n)
              /\ Ends(SubSeq(arrived, n + 1, Len(arrived)), SubSeq(d, n + 1, Len(d)))
<1>1. PICK d \in Seq(Unit), lo \in Nat :
        /\ Ends(arrived, d) \/ (Ticketed(arrived, d) /\ state = "HTTP_HEADERS")
        /\ Laid(buffer \o d, lo, frames)
        /\ state = "CONNECTED" => lo = handled + 1
        /\ state = "HTTP_HEADERS" => handled = 0 /\ lo \in {0, 1}
  BY DEF InputInv, Waiting
<1>2. PICK a \in Seq(Any) : a = arrived
  BY DEF InputInv, InputTypeOK
<1>3. n \in 1..Len(a) /\ 1 \in 1..n
  <2>1. Len(a) \in Nat /\ BufSize \in Nat
    BY SslAssumption
  <2> QED BY <1>2, <2>1 DEF Least
<1>4. \A i \in 1..n : a[i].kind \notin MarkKind
  BY <1>2
<1>5. Ends(a, d)
  <2>1. SUFFICES ASSUME Ticketed(a, d) PROVE FALSE
    BY <1>1, <1>2
  <2>2. a[1] = Mark("ticket")
    BY <2>1, TicketFirst
  <2> QED BY <1>3, <1>4, <2>2, Marks
<1>6. /\ n \in 1..Len(d) /\ SubSeq(a, 1, n) = SubSeq(d, 1, n)
      /\ Ends(SubSeq(a, n + 1, Len(a)), SubSeq(d, n + 1, Len(d)))
  BY <1>3, <1>4, <1>5, EndsRead
<1> QED BY <1>1, <1>2, <1>6

\* What is left of the stream when a read has been handled up to p.
LEMMA ReadLeaves ==
    ASSUME NEW buf \in Seq(Unit), NEW d \in Seq(Unit), NEW n \in 1..Len(d), NEW a, NEW h, NEW f, NEW st,
           NEW p \in 0..(Len(buf) + n), NEW lo \in Nat,
           Ends(a, SubSeq(d, n + 1, Len(d))),
           Laid(SubSeq(buf \o d, p + 1, Len(buf \o d)), lo, f),
           st = "CONNECTED" => lo = h + 1,
           st = "HTTP_HEADERS" => h = 0 /\ lo \in {0, 1}
    PROVE  /\ Waiting(From(buf \o SubSeq(d, 1, n), p), a, st, h, f)
           /\ From(buf \o SubSeq(d, 1, n), p) \in Seq(Unit)
           /\ a \in Seq(Any)
<1>1. n \in 0..Len(d)
  OBVIOUS
<1>2. PICK b, u, r : /\ CutOf(buf, d, n, b, u, r)
                     /\ b = buf \o SubSeq(d, 1, n) /\ u = SubSeq(d, n + 1, Len(d))
                     /\ r = buf \o d
  BY DEF CutOf
<1>3. Parts(b, u, r, p)
  BY <1>1, <1>2, ReadCut
<1>4. Laid(From(b, p) \o u, lo, f) /\ Ends(a, u) /\ From(b, p) \in Seq(Unit) /\ u \in Seq(Unit)
  BY <1>2, <1>3 DEF Parts
<1>5. Waiting(From(b, p), a, st, h, f)
  BY <1>4 DEF Waiting
<1>6. a \in Seq(Any)
  BY <1>4, EndsAt
<1> QED BY <1>2, <1>4, <1>5, <1>6

\* handle_buffer of a connected session.
LEMMA InputFrames ==
    ASSUME InputInv, connected, loop = "read", NEW n \in 1..Least(Len(arrived), BufSize),
           \A i \in 1..n : arrived[i].kind \notin MarkKind, HandleFrames(n)
    PROVE  InputInv'
<1>1. PICK d \in Seq(Unit), lo \in Nat :
              /\ n \in 1..Len(d)
              /\ Laid(buffer \o d, lo, frames)
              /\ state = "CONNECTED" => lo = handled + 1
              /\ SubSeq(arrived, 1, n) = SubSeq(d, 1, n)
              /\ Ends(SubSeq(arrived, n + 1, Len(arrived)), SubSeq(d, n + 1, Len(d)))
  BY ReadFinds
<1>2. state = "CONNECTED" /\ lo = handled + 1 /\ pongs = 0 /\ UNCHANGED frames /\ open
  BY <1>1, WebSocketAssumption DEF HandleFrames, InputInv, InputTypeOK
<1>3. PICK buf \in Seq(Unit), h \in 0..MaxFrames, f \in 0..(MaxFrames + 1) :
        buf = buffer /\ h = handled /\ f = frames
  BY DEF InputInv, InputTypeOK
<1>4. PICK b, u, r : /\ CutOf(buf, d, n, b, u, r)
                     /\ b = buf \o SubSeq(d, 1, n) /\ r = buf \o d
  BY DEF CutOf
<1>5. n \in 0..Len(d) /\ 0 \in 0..(Len(buf) + n) /\ Len(buf) \in Nat /\ Len(d) \in Nat
  BY <1>1
<1>6. /\ b \in Seq(Unit) /\ Len(b) = Len(buf) + n /\ r \in Seq(Unit)
      /\ Len(r) = Len(buf) + Len(d) /\ Len(b) <= Len(r) /\ \A i \in 1..Len(b) : b[i] = r[i]
  <2>1. CutOf(buf, d, n, b, u, r)
    BY <1>4
  <2>2. /\ b \in Seq(Unit) /\ Len(b) = Len(buf) + n /\ r \in Seq(Unit)
        /\ Len(r) = Len(buf) + Len(d) /\ Parts(b, u, r, 0)
    BY <1>5, <2>1, ReadCut
  <2> QED BY <2>2 DEF Parts
<1>7. Laid(r, lo, f) /\ f \in Nat /\ lo >= 1 /\ lo = h + 1
  BY <1>1, <1>2, <1>3, <1>4, WebSocketAssumption
<1>8. StopAt(b) \in Starts(b)
  BY <1>6, <1>7, LoopStops
<1>9. PICK p \in 0..(Len(buf) + n) : p = StopAt(b)
  BY <1>6, <1>8 DEF Starts
<1>10. p \in 0..Len(r) /\ (p # 0 => r[p].at = r[p].len)
  <2>1. p \in 0..Len(r)
    BY <1>5, <1>6
  <2>2. ASSUME p # 0 PROVE r[p].at = r[p].len
    <3>1. p \in 1..Len(b) /\ b[p].at = b[p].len
      BY <1>5, <1>6, <1>8, <1>9, <2>2 DEF Starts
    <3> QED BY <1>6, <3>1
  <2> QED BY <2>1, <2>2
<1>11. SubSeq(b, 1, p) = SubSeq(r, 1, p)
  <2>1. CutOf(buf, d, n, b, u, r)
    BY <1>4
  <2>2. Parts(b, u, r, p)
    BY <1>5, <2>1, ReadCut
  <2> QED BY <2>2 DEF Parts
<1>12. PICK k \in Nat :
              /\ Laid(SubSeq(r, p + 1, Len(r)), lo + k, f)
              /\ Cardinality(FramesIn(SubSeq(b, 1, p))) = k
              /\ Cardinality(PingsIn(SubSeq(b, 1, p))) \in 0..MaxFrames
              /\ lo + k <= MaxFrames + 1
  <2>1. \E k \in Nat :
              /\ Laid(SubSeq(r, p + 1, Len(r)), lo + k, f)
              /\ Cardinality(FramesIn(SubSeq(r, 1, p))) = k
              /\ Cardinality(PingsIn(SubSeq(r, 1, p))) \in 0..MaxFrames
              /\ lo + k <= MaxFrames + 1
    BY <1>7, <1>10, FramesCounted
  <2> QED BY <1>11, <2>1
<1>13. buffer \o SubSeq(arrived, 1, n) = b
  BY <1>1, <1>3, <1>4
<1>14. handled' = h + k /\ h + k \in 0..MaxFrames /\ h + k \in Nat
  <2>1. handled' = handled + Cardinality(FramesIn(SubSeq(b, 1, p)))
    BY <1>9, <1>13 DEF HandleFrames
  <2>2. h \in Nat /\ MaxFrames \in Nat
    BY WebSocketAssumption
  <2> QED BY <1>3, <1>7, <1>12, <2>1, <2>2
<1>15. CASE Parseable(b, p)
  <2>1. CloseNow /\ state' = "HTTP_HEADERS" /\ UNCHANGED pongs
    BY <1>9, <1>13, <1>15 DEF HandleFrames
  <2>2. ~ connected' /\ ~ open' /\ buffer' = <<>> /\ loop' # "handled" /\ UNCHANGED arrived
    BY <2>1 DEF CloseNow, Close, netVars
  <2> QED BY <1>2, <1>14, <2>1, <2>2, InputClosed
<1>16. CASE ~ Parseable(b, p)
  <2>1. /\ ReadData(n, From(b, p)) /\ UNCHANGED state
        /\ pongs' = pongs + Cardinality(PingsIn(SubSeq(b, 1, p)))
    BY <1>9, <1>13, <1>16 DEF HandleFrames
  <2>2. /\ arrived' = SubSeq(arrived, n + 1, Len(arrived)) /\ buffer' = From(b, p)
        /\ loop' = "handled" /\ UNCHANGED <<connected, open>>
    BY <2>1 DEF ReadData
  <2>3. pongs' \in 0..MaxFrames
    BY <1>2, <1>12, <2>1
  <2>4. PICK a : a = SubSeq(arrived, n + 1, Len(arrived))
    OBVIOUS
  <2>5. Ends(a, SubSeq(d, n + 1, Len(d)))
    BY <1>1, <2>4
  <2>6. lo + k \in Nat /\ lo + k = (h + k) + 1
    BY <1>7, <1>14
  <2>7. Laid(SubSeq(buf \o d, p + 1, Len(buf \o d)), lo + k, f)
    BY <1>4, <1>12
  <2>8. /\ Waiting(From(buf \o SubSeq(d, 1, n), p), a, "CONNECTED", h + k, f)
        /\ From(buf \o SubSeq(d, 1, n), p) \in Seq(Unit) /\ a \in Seq(Any)
    <3>1. PICK l \in Nat, g \in Nat : l = lo + k /\ g = h + k /\ l = g + 1
      BY <1>14, <2>6
    <3>2. PICK st : st = "CONNECTED"
      OBVIOUS
    <3>3. /\ Laid(SubSeq(buf \o d, p + 1, Len(buf \o d)), l, f)
          /\ st = "CONNECTED" => l = g + 1
          /\ st = "HTTP_HEADERS" => g = 0 /\ l \in {0, 1}
      BY <2>7, <3>1, <3>2
    <3>4. n \in 1..Len(d)
      BY <1>1
    <3>5. /\ Waiting(From(buf \o SubSeq(d, 1, n), p), a, st, g, f)
          /\ From(buf \o SubSeq(d, 1, n), p) \in Seq(Unit) /\ a \in Seq(Any)
      BY <2>5, <3>3, <3>4, ReadLeaves, Zenon
    <3> QED BY <3>1, <3>2, <3>5
  <2>9. Waiting(From(b, p), a, "CONNECTED", h + k, f) /\ From(b, p) \in Seq(Unit)
    BY <1>4, <2>8
  <2>10. /\ buffer' = From(b, p) /\ arrived' = a /\ state' = "CONNECTED" /\ handled' = h + k
         /\ frames' = f
    BY <1>2, <1>3, <1>14, <2>1, <2>2, <2>4
  <2>11. Waiting(buffer, arrived, state, handled, frames)'
    BY <2>9, <2>10
  <2>12. InputTypeOK'
    BY <1>14, <2>3, <2>8, <2>9, <2>10 DEF InputTypeOK
  <2> QED BY <1>2, <2>2, <2>11, <2>12 DEF InputInv
<1> QED BY <1>15, <1>16

\* handle_buffer before the upgrade.
LEMMA InputHeaders ==
    ASSUME InputInv, connected, loop = "read", NEW n \in 1..Least(Len(arrived), BufSize),
           \A i \in 1..n : arrived[i].kind \notin MarkKind, NEW status, HandleHeaders(n, status)
    PROVE  InputInv'
<1>1. PICK d \in Seq(Unit), lo \in Nat :
              /\ n \in 1..Len(d)
              /\ Laid(buffer \o d, lo, frames)
              /\ state = "HTTP_HEADERS" => handled = 0 /\ lo \in {0, 1}
              /\ SubSeq(arrived, 1, n) = SubSeq(d, 1, n)
              /\ Ends(SubSeq(arrived, n + 1, Len(arrived)), SubSeq(d, n + 1, Len(d)))
  BY ReadFinds
<1>2. /\ state = "HTTP_HEADERS" /\ handled = 0 /\ pongs = 0 /\ open
      /\ UNCHANGED <<pongs, frames, handled>>
  BY <1>1, WebSocketAssumption DEF HandleHeaders, InputInv, InputTypeOK
<1>3. PICK buf \in Seq(Unit), f \in 0..(MaxFrames + 1) : buf = buffer /\ f = frames
  BY DEF InputInv, InputTypeOK
<1>4. PICK b, u, r : /\ CutOf(buf, d, n, b, u, r)
                     /\ b = buf \o SubSeq(d, 1, n) /\ r = buf \o d
  BY DEF CutOf
<1>5. n \in 0..Len(d) /\ 0 \in 0..(Len(buf) + n) /\ Len(buf) \in Nat /\ Len(d) \in Nat
  BY <1>1
<1>6. /\ b \in Seq(Unit) /\ Len(b) = Len(buf) + n /\ r \in Seq(Unit)
      /\ Len(r) = Len(buf) + Len(d) /\ Len(b) <= Len(r) /\ \A i \in 1..Len(b) : b[i] = r[i]
  <2>1. CutOf(buf, d, n, b, u, r)
    BY <1>4
  <2>2. /\ b \in Seq(Unit) /\ Len(b) = Len(buf) + n /\ r \in Seq(Unit)
        /\ Len(r) = Len(buf) + Len(d) /\ Parts(b, u, r, 0)
    BY <1>5, <2>1, ReadCut
  <2> QED BY <2>2 DEF Parts
<1>7. Laid(r, lo, f) /\ f \in Nat
  BY <1>1, <1>3, <1>4, WebSocketAssumption
<1>8. buffer \o SubSeq(arrived, 1, n) = b
  BY <1>1, <1>3, <1>4
<1>9. CASE ~ (HasHeaders(b) /\ status \in {101, 200, 204})
  <2>1. CloseNow /\ UNCHANGED state
    BY <1>8, <1>9 DEF HandleHeaders
  <2>2. ~ connected' /\ ~ open' /\ buffer' = <<>> /\ loop' # "handled" /\ UNCHANGED arrived
    BY <2>1 DEF CloseNow, Close, netVars
  <2>3. handled' \in 0..MaxFrames
    BY <1>2 DEF InputInv, InputTypeOK
  <2> QED BY <1>2, <2>1, <2>2, <2>3, InputClosed
<1>10. CASE HasHeaders(b) /\ status \in {101, 200, 204}
  <2>1. /\ ReadData(n, From(b, b[1].len))
        /\ state' \in {"CONNECTED", "HTTP_HEADERS"}
    BY <1>2, <1>8, <1>10 DEF HandleHeaders
  <2>2. /\ b[1].len \in 1..Len(b) /\ lo = 0
        /\ r[b[1].len].at = r[b[1].len].len /\ r[b[1].len].frame = 0
    <3>1. HasHeaders(b)
      BY <1>10
    <3> QED BY <1>6, <1>7, <3>1, ResponseFirst, Zenon
  <2>3. PICK p \in 1..Len(r) : /\ p = b[1].len /\ p \in 0..(Len(buf) + n)
                               /\ r[p].at = r[p].len /\ r[p].frame = 0
    BY <1>5, <1>6, <2>2
  <2>4. Laid(SubSeq(r, p + 1, Len(r)), r[p].frame + 1, f)
    BY <1>7, <2>3, LaidCut
  <2>5. Laid(SubSeq(buf \o d, p + 1, Len(buf \o d)), 1, f)
    BY <1>4, <2>3, <2>4
  <2>6. /\ arrived' = SubSeq(arrived, n + 1, Len(arrived)) /\ buffer' = From(b, p)
        /\ loop' = "handled" /\ UNCHANGED <<connected, open>>
    BY <2>1, <2>3 DEF ReadData
  <2>7. PICK a, st : a = SubSeq(arrived, n + 1, Len(arrived)) /\ st = state'
    OBVIOUS
  <2>8. Ends(a, SubSeq(d, n + 1, Len(d))) /\ 1 = 0 + 1 /\ 1 \in {0, 1} /\ 1 \in Nat
    BY <1>1, <2>7
  <2>9. /\ Waiting(From(buf \o SubSeq(d, 1, n), p), a, st, 0, f)
        /\ From(buf \o SubSeq(d, 1, n), p) \in Seq(Unit) /\ a \in Seq(Any)
    <3>1. PICK l \in Nat, g \in Nat : l = 1 /\ g = 0
      OBVIOUS
    <3>2. /\ Laid(SubSeq(buf \o d, p + 1, Len(buf \o d)), l, f)
          /\ st = "CONNECTED" => l = g + 1
          /\ st = "HTTP_HEADERS" => g = 0 /\ l \in {0, 1}
      BY <2>5, <3>1
    <3>3. n \in 1..Len(d) /\ p \in 0..(Len(buf) + n) /\ Ends(a, SubSeq(d, n + 1, Len(d)))
      BY <1>1, <2>3, <2>8
    <3>4. /\ Waiting(From(buf \o SubSeq(d, 1, n), p), a, st, g, f)
          /\ From(buf \o SubSeq(d, 1, n), p) \in Seq(Unit) /\ a \in Seq(Any)
      BY <3>2, <3>3, ReadLeaves, Zenon
    <3> QED BY <3>1, <3>4
  <2>10. Waiting(From(b, p), a, st, 0, f) /\ From(b, p) \in Seq(Unit)
    BY <1>4, <2>9
  <2>11. /\ buffer' = From(b, p) /\ arrived' = a /\ state' = st /\ handled' = 0 /\ frames' = f
    BY <1>2, <1>3, <2>6, <2>7
  <2>12. Waiting(buffer, arrived, state, handled, frames)'
    BY <2>10, <2>11
  <2>13. pongs' \in 0..MaxFrames /\ handled' \in 0..MaxFrames
    BY <1>2, WebSocketAssumption
  <2>14. InputTypeOK'
    BY <2>1, <2>9, <2>10, <2>11, <2>13 DEF InputTypeOK
  <2> QED BY <1>2, <2>6, <2>12, <2>14 DEF InputInv
<1> QED BY <1>9, <1>10

\* The server sends a frame.
LEMMA InputFrame ==
    ASSUME InputInv, NEW k, NEW n, ServerFrame(k, n), k \in FrameKind, n \in Nat, n >= 1
    PROVE  InputInv'
<1>1. /\ connected /\ open /\ frames <= MaxFrames /\ (k = "response" <=> frames = 0)
      /\ \A i \in 1..Len(arrived) : arrived[i].kind # "eof"
      /\ arrived' = arrived \o Units(frames, k, n) /\ frames' = frames + 1
      /\ UNCHANGED <<connected, open, loop, buffer, state, pongs, handled>>
  BY DEF ServerFrame, Arrive, loopVars
<1>2. PICK buf, a, f : buf = buffer /\ a = arrived /\ f = frames /\ f \in 0..MaxFrames
  BY <1>1, WebSocketAssumption DEF InputInv, InputTypeOK
<1>3. PICK d \in Seq(Unit), lo \in Nat :
        /\ Ends(a, d) \/ (Ticketed(a, d) /\ state = "HTTP_HEADERS")
        /\ Laid(buf \o d, lo, f)
        /\ state = "CONNECTED" => lo = handled + 1
        /\ state = "HTTP_HEADERS" => handled = 0 /\ lo \in {0, 1}
  BY <1>1, <1>2 DEF InputInv, Waiting
<1>4. PICK t \in Seq(Unit) : t = Units(f, k, n)
  BY <1>2, NewUnits
<1>5. \A i \in 1..Len(a) : a[i].kind # "eof"
  BY <1>1, <1>2
<1>6. /\ Ends(a, d) => Ends(a \o t, d \o t)
      /\ Ticketed(a, d) => Ticketed(a \o t, d \o t)
  BY <1>5, EndsMore
<1>7. k = "response" <=> f = 0
  BY <1>1, <1>2
<1>8. Laid((buf \o d) \o Units(f, k, n), lo, f + 1)
  BY <1>2, <1>3, <1>7, LaidMore
<1>9. (buf \o d) \o t = buf \o (d \o t) /\ d \o t \in Seq(Unit) /\ buf \in Seq(Unit)
  <2>1. buf \in Seq(Unit)
    BY <1>2 DEF InputInv, InputTypeOK
  <2>2. d \o t \in Seq(Unit)
    BY ConcatProperties
  <2>3. \A x, y, z \in Seq(Unit) : (x \o y) \o z = x \o (y \o z)
    BY ConcatAssociative
  <2> QED BY <2>1, <2>2, <2>3, Zenon
<1>10. Laid(buf \o (d \o t), lo, f + 1)
  BY <1>4, <1>8, <1>9
<1>11. arrived' = a \o t /\ buffer' = buf /\ frames' = f + 1
  BY <1>1, <1>2, <1>4
<1>12. Ends(arrived', d \o t) \/ (Ticketed(arrived', d \o t) /\ state' = "HTTP_HEADERS")
  BY <1>1, <1>3, <1>6, <1>11
<1>13. Laid(buffer' \o (d \o t), lo, frames')
  BY <1>10, <1>11
<1>14. Waiting(buffer', arrived', state', handled', frames')
  BY <1>1, <1>3, <1>9, <1>12, <1>13 DEF Waiting
<1>15. arrived' \in Seq(Any)
  <2>1. \A x : Ends(x, d \o t) => x \in Seq(Any)
    BY <1>9, EndsAt
  <2>2. \A x : Ticketed(x, d \o t) => x \in Seq(Any)
    BY <1>9, TicketFirst
  <2> QED BY <1>12, <2>1, <2>2
<1>16. frames' \in 0..(MaxFrames + 1)
  BY <1>2, <1>11, WebSocketAssumption
<1>17. InputTypeOK'
  BY <1>1, <1>15, <1>16 DEF InputInv, InputTypeOK
<1> QED BY <1>1, <1>14, <1>17 DEF InputInv

\* The server ends the stream.
LEMMA InputEnds ==
    ASSUME InputInv, ServerEnds
    PROVE  InputInv'
<1>1. /\ connected /\ open
      /\ \A i \in 1..Len(arrived) : arrived[i].kind # "eof"
      /\ arrived' = arrived \o <<Mark("eof")>>
      /\ UNCHANGED <<connected, open, loop, buffer, state, pongs, handled, frames>>
  BY DEF ServerEnds, Arrive, loopVars, wsVars
<1>2. PICK a : a = arrived
  OBVIOUS
<1>3. PICK d \in Seq(Unit), lo \in Nat :
        /\ Ends(a, d) \/ (Ticketed(a, d) /\ state = "HTTP_HEADERS")
        /\ Laid(buffer \o d, lo, frames)
        /\ state = "CONNECTED" => lo = handled + 1
        /\ state = "HTTP_HEADERS" => handled = 0 /\ lo \in {0, 1}
  BY <1>1, <1>2 DEF InputInv, Waiting
<1>4. <<>> \in Seq(Unit) /\ \A i \in 1..Len(a) : a[i].kind # "eof"
  BY <1>1, <1>2
<1>5. /\ Ends(a, d) => Ends(a \o <<Mark("eof")>>, d)
      /\ Ticketed(a, d) => Ticketed(a \o <<Mark("eof")>>, d)
  BY <1>4, EndsMore
<1>6. Ends(arrived', d) \/ (Ticketed(arrived', d) /\ state' = "HTTP_HEADERS")
  BY <1>1, <1>2, <1>3, <1>5
<1>7. Waiting(buffer', arrived', state', handled', frames')
  BY <1>1, <1>3, <1>6 DEF Waiting
<1>8. arrived' \in Seq(Any)
  <2>1. \A x : Ends(x, d) => x \in Seq(Any)
    BY EndsAt
  <2>2. \A x : Ticketed(x, d) => x \in Seq(Any)
    BY TicketFirst
  <2> QED BY <1>6, <2>1, <2>2
<1>9. InputTypeOK'
  BY <1>1, <1>8 DEF InputInv, InputTypeOK
<1> QED BY <1>1, <1>7, <1>9 DEF InputInv

\* The server sends a session ticket: nothing has been handled yet.
LEMMA InputSendTicket ==
    ASSUME InputInv, ServerTicket
    PROVE  InputInv'
<1>1. /\ connected /\ open /\ arrived = <<>> /\ frames = 0
      /\ arrived' = arrived \o <<Mark("ticket")>>
      /\ UNCHANGED <<connected, open, loop, buffer, state, pongs, handled, frames>>
  BY DEF ServerTicket, Arrive, loopVars, wsVars
<1>2. PICK a, buf : a = arrived /\ buf = buffer /\ buf \in Seq(Unit)
  BY DEF InputInv, InputTypeOK
<1>3. PICK d \in Seq(Unit), lo \in Nat :
        /\ Ends(a, d) \/ (Ticketed(a, d) /\ state = "HTTP_HEADERS")
        /\ Laid(buf \o d, lo, 0)
        /\ state = "CONNECTED" => lo = handled + 1
        /\ state = "HTTP_HEADERS" => handled = 0 /\ lo \in {0, 1}
  BY <1>1, <1>2 DEF InputInv, Waiting
<1>4. Ends(a, d)
  <2>1. Ticketed(a, d) => a # <<>>
    BY TicketFirst
  <2> QED BY <1>1, <1>2, <1>3, <2>1
<1>5. d = <<>>
  <2>1. Len(a) \in {Len(d), Len(d) + 1} /\ Len(d) \in Nat
    BY <1>4, EndsAt
  <2>2. Len(a) = 0
    BY <1>1, <1>2
  <2> QED BY <2>1, <2>2
<1>6. buf = <<>> /\ lo = 0
  <2>1. buf \o d = buf
    BY <1>2, <1>5, ConcatEmptySeq
  <2>2. Laid(buf, lo, 0)
    BY <1>3, <2>1
  <2>3. ASSUME buf # <<>> PROVE FALSE
    <3>1. Len(buf) \in 1..Len(buf)
      BY <1>2, <2>3
    <3>2. buf[Len(buf)].frame \in Nat
      BY <1>2, <3>1, UnitAt
    <3>3. buf[Len(buf)].frame + 1 = 0
      BY <2>2, <2>3 DEF Laid
    <3> QED BY <3>2, <3>3
  <2> QED BY <2>2, <2>3 DEF Laid
<1>7. state = "HTTP_HEADERS"
  <2>1. handled \in Nat /\ state \in {"HTTP_HEADERS", "CONNECTED"}
    BY WebSocketAssumption DEF InputInv, InputTypeOK
  <2> QED BY <1>3, <1>6, <2>1
<1>8. arrived' = <<Mark("ticket")>> \o <<>>
  BY <1>1
<1>9. Ticketed(arrived', d)
  BY <1>5, <1>8 DEF Ticketed, Ends
<1>10. Laid(buffer' \o d, lo, frames')
  BY <1>1, <1>2, <1>3
<1>11. Waiting(buffer', arrived', state', handled', frames')
  BY <1>1, <1>3, <1>7, <1>9, <1>10 DEF Waiting
<1>12. arrived' \in Seq(Any)
  <2>1. \A x : Ticketed(x, d) => x \in Seq(Any)
    BY TicketFirst
  <2> QED BY <1>9, <2>1
<1>13. InputTypeOK'
  BY <1>1, <1>12 DEF InputInv, InputTypeOK
<1> QED BY <1>1, <1>11, <1>13 DEF InputInv

\* The server's flight of the handshake.
LEMMA InputFlight ==
    ASSUME InputInv, ServerFlight
    PROVE  InputInv'
<1>1. /\ ~ connected /\ open /\ arrived = <<>>
      /\ arrived' = arrived \o <<Mark("flight")>>
      /\ UNCHANGED <<connected, open, loop, buffer, state, pongs, handled, frames>>
  BY DEF ServerFlight, Arrive, loopVars, wsVars
<1>2. arrived' = <<Mark("flight")>> /\ Mark("flight") \in Any
  BY <1>1, Marks
<1>3. arrived' \in Seq(Any)
  BY <1>2
<1>4. BeforeHandshake'
  BY <1>1, <1>2 DEF InputInv, BeforeHandshake
<1>5. InputTypeOK'
  BY <1>1, <1>3 DEF InputInv, InputTypeOK
<1> QED BY <1>1, <1>4, <1>5 DEF InputInv

\* A ping is answered.
LEMMA InputPong ==
    ASSUME InputInv, Pong
    PROVE  InputInv'
<1>1. /\ loop = "handled" /\ pongs > 0 /\ pongs' = pongs - 1
      /\ UNCHANGED <<arrived, buffer, connected, open, state, frames, handled, loop>>
  BY DEF Pong, LoopWrites, loopVars, netVars, sslVars
<1>2. InputTypeOK'
  BY <1>1, WebSocketAssumption DEF InputInv, InputTypeOK
<1>3. connected' => open' /\ Waiting(buffer, arrived, state, handled, frames)'
  BY <1>1 DEF InputInv, Waiting
<1>4. BeforeHandshake' = BeforeHandshake
  BY <1>1 DEF BeforeHandshake
<1> QED BY <1>1, <1>2, <1>3, <1>4 DEF InputInv

\* No step mixes up the frames.
LEMMA InputStep ==
    ASSUME InputInv, PlaceInv, [Next]_vars
    PROVE  InputInv'
<1> DEFINE Quiet == /\ UNCHANGED <<arrived, buffer, connected, open, wsVars>>
                    /\ (loop' = "handled" <=> loop = "handled")
                       \/ (pongs = 0 /\ loop' # "handled")
<1>1. Quiet => InputInv'
  BY InputQuiet
<1>2. loop # "handled" => pongs = 0
  BY WebSocketAssumption DEF InputInv, InputTypeOK
<1>3. handled \in 0..MaxFrames
  BY DEF InputInv, InputTypeOK
<1>4. CASE Writer
  BY <1>1, <1>4 DEF Writer, WriterAppend, WriterFlag, WriterUpdate, loopVars, netVars
<1>5. CASE ReadAndHandle
  <2>1. PICK n \in 1..Least(Len(arrived), BufSize) :
          /\ \A i \in 1..n : arrived[i].kind \notin MarkKind
          /\ HandleFrames(n) \/ \E status \in {101, 200, 500} : HandleHeaders(n, status)
    BY <1>5 DEF ReadAndHandle
  <2>2. loop = "read" /\ connected
    BY <1>5 DEF ReadAndHandle
  <2>3. CASE HandleFrames(n)
    BY <2>1, <2>2, <2>3, InputFrames
  <2>4. CASE \E status \in {101, 200, 500} : HandleHeaders(n, status)
    BY <2>1, <2>2, <2>4, InputHeaders
  <2> QED BY <2>1, <2>3, <2>4
<1>6. CASE LoopStep /\ ~ ReadAndHandle
  <2>1. CASE (EpollWait \/ ModifyEvent \/ StoreFlags \/ Erase) /\ UNCHANGED wsVars
    BY <1>1, <1>2, <2>1 DEF EpollWait, ModifyEvent, StoreFlags, Erase, netVars
  <2>2. CASE (CopyOutput \/ SendOutput \/ SendBlocked \/ SendSwallowed \/ RearmWrite) /\ UNCHANGED wsVars
    BY <1>1, <1>2, <2>2 DEF CopyOutput, SendOutput, SendBlocked, SendSwallowed, RearmWrite, netVars
  <2>3. CASE (NothingToRead \/ ReadEof \/ ReadSwallowed) /\ UNCHANGED wsVars
    BY <1>1, <1>2, <2>3 DEF NothingToRead, ReadEof, ReadSwallowed, netVars
  <2>4. CASE HandshakeWants /\ UNCHANGED wsVars
    BY <1>1, <1>2, <2>4 DEF HandshakeWants, InHandshake
  <2>5. CASE HandshakeDone /\ UNCHANGED wsVars
    BY <2>5, InputHandshake
  <2>6. CASE ReadWants /\ UNCHANGED wsVars
    <3>1. CASE arrived' = arrived
      BY <1>1, <1>2, <2>6, <3>1 DEF ReadWants
    <3>2. CASE arrived # <<>> /\ Head(arrived).kind = "ticket" /\ arrived' = Tail(arrived)
      <4>1. /\ connected /\ loop # "handled" /\ loop' # "handled"
            /\ UNCHANGED <<buffer, connected, open, wsVars>>
        BY <2>6 DEF ReadWants
      <4> QED BY <3>2, <4>1, InputTicket
    <3> QED BY <2>6, <3>1, <3>2 DEF ReadWants
  <2>7. CASE Pong
    BY <2>7, InputPong
  <2>8. CASE Handled
    BY <1>1, <2>8 DEF Handled, AfterHandle, netVars
  <2>9. CASE OnError /\ Ended
    <3>1. /\ ~ connected' /\ ~ open' /\ buffer' = <<>> /\ state' = "HTTP_HEADERS" /\ pongs' = 0
          /\ UNCHANGED <<arrived, frames>> /\ handled' = handled /\ loop' # "handled"
      BY <2>9 DEF OnError, Ended, Close, netVars
    <3> QED BY <1>3, <3>1, InputClosed
  <2> QED BY <1>6, <2>1, <2>2, <2>3, <2>4, <2>5, <2>6, <2>7, <2>8, <2>9 DEF LoopStep
<1>7. CASE Fails \/ TimeOut
  <2>1. CloseNow /\ Ended
    BY <1>7 DEF Fails, HandshakeFails, SendFails, ReadFails, TimeOut
  <2>2. /\ ~ connected' /\ ~ open' /\ buffer' = <<>> /\ state' = "HTTP_HEADERS" /\ pongs' = 0
        /\ UNCHANGED <<arrived, frames>> /\ handled' = handled /\ loop' # "handled"
    BY <2>1 DEF CloseNow, Ended, Close, netVars
  <2> QED BY <1>3, <2>2, InputClosed
<1>8. CASE TimerWrites
  BY <1>1, <1>8 DEF TimerWrites, LoopWrites, loopVars, netVars
<1>9. CASE Server
  <2>1. \A n \in FrameLens : n \in Nat /\ n >= 1
    BY WebSocketAssumption
  <2>2. CASE \E n \in FrameLens, k \in {"response", "data"} : ServerFrame(k, n)
    BY <2>1, <2>2, InputFrame DEF FrameKind
  <2>3. CASE \E k \in {"ping", "pong"} : ServerFrame(k, 1)
    BY <2>3, InputFrame DEF FrameKind
  <2>4. CASE ServerFrame("close", 2)
    BY <2>4, InputFrame DEF FrameKind
  <2> QED BY <1>9, <2>2, <2>3, <2>4, InputFlight, InputSendTicket, InputEnds DEF Server
<1>10. CASE RoomAgain /\ UNCHANGED wsVars
  BY <1>1, <1>10 DEF RoomAgain, loopVars
<1>11. CASE UNCHANGED vars
  BY <1>1, <1>11 DEF vars, sslVars, loopVars, netVars
<1> QED BY <1>4, <1>5, <1>6, <1>7, <1>8, <1>9, <1>10, <1>11 DEF Next

\* The frames that wait are the ones FramesInOrder speaks of.
LEMMA InputInOrder ==
    ASSUME InputInv
    PROVE  FramesInOrder
<1>1. SUFFICES ASSUME state = "CONNECTED"
               PROVE  LET rest == buffer \o Stream(arrived)
                      IN  /\ rest = <<>> => handled = frames - 1
                          /\ rest # <<>> => rest[1].frame = handled + 1 /\ rest[1].at = 1
                          /\ \A i \in 2..Len(rest) :
                              \/ rest[i].frame = rest[i - 1].frame /\ rest[i].at = rest[i - 1].at + 1
                              \/ /\ rest[i].frame = rest[i - 1].frame + 1
                                 /\ rest[i].at = 1 /\ rest[i - 1].at = rest[i - 1].len
  BY DEF FramesInOrder
<1>2. connected
  BY <1>1 DEF InputInv
<1>3. PICK d \in Seq(Unit), lo \in Nat :
        Ends(arrived, d) /\ Laid(buffer \o d, lo, frames) /\ lo = handled + 1
  BY <1>1, <1>2 DEF InputInv, Waiting
<1>4. Stream(arrived) = d
  <2>1. PICK a : a = arrived
    OBVIOUS
  <2>2. /\ a \in Seq(Any) /\ Len(a) \in {Len(d), Len(d) + 1} /\ Len(d) \in Nat
        /\ \A i \in 1..Len(d) : a[i] = d[i]
        /\ Len(a) = Len(d) => a = d
        /\ Len(a) = Len(d) + 1 => a = Append(d, Mark("eof")) /\ a[Len(d) + 1] = Mark("eof")
    BY <1>3, <2>1, EndsAt
  <2>3. CASE Len(a) = Len(d)
    <3>1. a = d
      BY <2>2, <2>3
    <3>2. a # <<>> => a[Len(a)].kind # "eof"
      <4>1. ASSUME a # <<>> PROVE a[Len(a)].kind # "eof"
        <5>1. Len(d) \in 1..Len(d) /\ a[Len(a)] = d[Len(d)]
          BY <2>2, <3>1, <4>1
        <5>2. d[Len(d)] \in Unit
          BY <5>1, ElementOfSeq
        <5> QED BY <5>1, <5>2, Marks
      <4> QED BY <4>1
    <3> QED BY <2>1, <3>1, <3>2 DEF Stream
  <2>4. CASE Len(a) = Len(d) + 1
    <3>1. a # <<>> /\ a[Len(a)].kind = "eof" /\ Len(a) - 1 = Len(d)
      <4>1. a[Len(a)] = Mark("eof") /\ Len(a) # 0
        BY <2>2, <2>4
      <4> QED BY <2>2, <2>4, <4>1, Marks
    <3>2. SubSeq(a, 1, Len(d)) = d
      <4>1. Len(d) \in 0..Len(a)
        BY <2>2, <2>4
      <4>2. /\ SubSeq(a, 1, Len(d)) \in Seq(Any) /\ Len(SubSeq(a, 1, Len(d))) = Len(d)
            /\ \A i \in 1..Len(d) : SubSeq(a, 1, Len(d))[i] = a[i]
        BY <2>2, <4>1
      <4>3. \A i \in 1..Len(d) : SubSeq(a, 1, Len(d))[i] = d[i]
        BY <2>2, <4>2
      <4>4. d \in Seq(Any)
        <5>1. Unit \subseteq Any
          BY DEF Any
        <5> QED BY <5>1
      <4> QED BY <4>2, <4>3, <4>4, SeqEqual
    <3>3. Stream(a) = SubSeq(a, 1, Len(d))
      BY <3>1 DEF Stream
    <3> QED BY <2>1, <3>2, <3>3
  <2> QED BY <2>2, <2>3, <2>4
<1>5. PICK r : r = buffer \o d /\ Laid(r, lo, frames)
  BY <1>3
<1>6. r \in Seq(Unit)
  BY <1>5 DEF Laid
<1>7. /\ Len(r) \in Nat
      /\ \A i \in 1..Len(r) : r[i].frame \in Nat /\ r[i].at \in Nat /\ r[i].len \in Nat
  BY <1>6, UnitAt
<1>8. handled \in Nat /\ frames \in Nat
  BY WebSocketAssumption DEF InputInv, InputTypeOK
<1>9. r = <<>> => handled = frames - 1
  BY <1>3, <1>5, <1>8 DEF Laid
<1>10. r # <<>> => r[1].frame = handled + 1 /\ r[1].at = 1
  BY <1>3, <1>5 DEF Laid
<1>11. ASSUME NEW i \in 2..Len(r)
       PROVE  \/ r[i].frame = r[i - 1].frame /\ r[i].at = r[i - 1].at + 1
              \/ /\ r[i].frame = r[i - 1].frame + 1
                 /\ r[i].at = 1 /\ r[i - 1].at = r[i - 1].len
  <2>1. i - 1 \in 1..Len(r) /\ i - 1 < Len(r) /\ (i - 1) + 1 = i
    BY <1>7
  <2>2. Follows(r[i - 1], r[(i - 1) + 1])
    BY <1>5, <2>1 DEF Laid
  <2>3. Follows(r[i - 1], r[i])
    BY <2>1, <2>2
  <2> QED BY <2>3 DEF Follows
<1>12. buffer \o Stream(arrived) = r
  BY <1>4, <1>5
<1> QED BY <1>9, <1>10, <1>11, <1>12, Zenon

\* The rest of the connection's types.
EngineTypeOK ==
    /\ connected \in BOOLEAN
    /\ swallowed \in BOOLEAN
    /\ out_mutex \in {"free", "writer"}
    /\ flags \subseteq Flag
    /\ interest \subseteq {"read", "write"}
    /\ listed \in BOOLEAN
    /\ room \in BOOLEAN
    /\ hung_up \in BOOLEAN
    /\ ev \subseteq {"read", "write", "hup"}
    /\ new_events \subseteq Flag
    /\ copy \subseteq Flag

LEMMA UpdateTypes ==
    ASSUME EngineTypeOK, NEW f \in SUBSET Flag, UpdateSocket(f)
    PROVE  flags' \subseteq Flag /\ interest' \subseteq {"read", "write"} /\ listed' \in BOOLEAN
<1>1. CASE flags = {} \/ ~ open
  BY <1>1 DEF UpdateSocket, EpollMod, EngineTypeOK, engineVars
<1>2. CASE flags # {} /\ open
  <2>1. /\ flags' = f /\ interest' = f \intersect {"read", "write"}
        /\ listed' = (f \intersect Ready # {} \/ hung_up)
    BY <1>2 DEF UpdateSocket, EpollMod
  <2>2. listed' \in BOOLEAN
    BY <2>1, Zenon DEF EngineTypeOK
  <2> QED BY <2>1, <2>2
<1> QED BY <1>1, <1>2

LEMMA EngineTypes ==
    ASSUME EngineTypeOK, [Next]_vars
    PROVE  EngineTypeOK'
<1> USE DEF EngineTypeOK
<1>1. RWE \in SUBSET Flag /\ RE \in SUBSET Flag /\ AfterRead \in SUBSET Flag
      /\ flags \union {"write"} \in SUBSET Flag /\ copy \in SUBSET Flag
  BY DEF RWE, RE, AfterRead, Flag
<1> DEFINE Watched == flags' \subseteq Flag /\ interest' \subseteq {"read", "write"} /\ listed' \in BOOLEAN
<1>2. \A f \in SUBSET Flag : UpdateSocket(f) => Watched
  BY UpdateTypes
<1>3. UNCHANGED engineVars => Watched
  BY DEF engineVars
<1> HIDE DEF Watched
<1>4. CASE WriterAppend
  BY <1>4 DEF WriterAppend, engineVars, loopVars, netVars
<1>5. CASE WriterFlag
  BY <1>1, <1>5 DEF WriterFlag, loopVars, netVars
<1>6. CASE WriterUpdate
  <2>1. Watched
    BY <1>1, <1>2, <1>6 DEF WriterUpdate
  <2> QED BY <1>6, <2>1 DEF Watched, WriterUpdate, loopVars, netVars
<1>7. CASE EpollWait
  BY <1>7 DEF EpollWait, Ready, writerVars, netVars
<1>8. CASE ModifyEvent
  <2>1. listed' \in BOOLEAN /\ interest' \subseteq {"read", "write"}
    <3>1. CASE "write" \in ev /\ "write" \in flags /\ open
      <4>1. /\ interest' = (flags \ {"write"}) \intersect {"read", "write"}
            /\ listed' = ((flags \ {"write"}) \intersect Ready # {} \/ hung_up)
        BY <1>8, <3>1 DEF ModifyEvent, EpollMod
      <4>2. listed' \in BOOLEAN
        BY <4>1, Zenon
      <4> QED BY <4>1, <4>2
    <3>2. CASE ~ ("write" \in ev /\ "write" \in flags /\ open)
      BY <1>8, <3>2 DEF ModifyEvent, EpollMod, engineVars
    <3> QED BY <3>1, <3>2
  <2>2. /\ flags' = flags /\ new_events' \subseteq Flag
        /\ UNCHANGED <<connected, swallowed, ev, writerVars, netVars>>
    BY <1>8 DEF ModifyEvent, engineVars
  <2> QED BY <2>1, <2>2 DEF writerVars, netVars
<1>9. CASE StoreFlags \/ Erase
  BY <1>9 DEF StoreFlags, Erase, writerVars, netVars
<1>10. CASE HandshakeWants
  <2>1. Watched
    BY <1>1, <1>2, <1>10 DEF HandshakeWants
  <2>2. room' \in BOOLEAN /\ UNCHANGED <<connected, swallowed, ev, new_events, writerVars, hung_up>>
    BY <1>10 DEF HandshakeWants
  <2> QED BY <2>1, <2>2 DEF Watched, writerVars
<1>11. CASE HandshakeDone
  <2>1. Watched
    BY <1>1, <1>2, <1>11 DEF HandshakeDone
  <2>2. connected' \in BOOLEAN /\ UNCHANGED <<swallowed, ev, new_events, writerVars, room, hung_up>>
    BY <1>11 DEF HandshakeDone
  <2> QED BY <2>1, <2>2 DEF Watched, writerVars
<1>12. CASE CopyOutput \/ NothingToRead \/ \E n, left : ReadData(n, left)
  BY <1>12 DEF CopyOutput, NothingToRead, ReadData, engineVars, writerVars, netVars
<1>22. CASE SendSwallowed \/ ReadSwallowed
  BY <1>22 DEF SendSwallowed, ReadSwallowed, engineVars, writerVars, netVars
<1>13. CASE SendOutput
  <2>1. Watched
    BY <1>1, <1>2, <1>3, <1>13 DEF SendOutput
  <2>2. room' \in BOOLEAN /\ UNCHANGED <<connected, swallowed, ev, new_events, writerVars, hung_up>>
    BY <1>13 DEF SendOutput
  <2> QED BY <2>1, <2>2 DEF Watched, writerVars
<1>14. CASE SendBlocked
  <2>1. Watched
    BY <1>1, <1>2, <1>14 DEF SendBlocked
  <2>2. room' \in BOOLEAN /\ UNCHANGED <<connected, swallowed, ev, new_events, writerVars, hung_up>>
    BY <1>14 DEF SendBlocked
  <2> QED BY <2>1, <2>2 DEF Watched, writerVars
<1>15. CASE ReadWants \/ AfterHandle \/ RearmWrite
  <2>1. Watched
    BY <1>1, <1>2, <1>3, <1>15 DEF ReadWants, AfterHandle, RearmWrite
  <2>2. UNCHANGED <<connected, swallowed, ev, new_events, writerVars, room, hung_up>>
    BY <1>15 DEF ReadWants, AfterHandle, RearmWrite, netVars
  <2> QED BY <2>1, <2>2 DEF Watched, writerVars
<1>16. CASE ReadEof
  BY <1>16 DEF ReadEof, writerVars
<1>17. CASE CloseNow \/ OnError
  BY <1>17 DEF CloseNow, OnError, Close, writerVars, netVars, Flag
<1>18. CASE \E n \in {1, 2} : LoopWrites(n) /\ UNCHANGED loopVars
  <2>1. Watched
    BY <1>1, <1>2, <1>3, <1>18 DEF LoopWrites
  <2>2. UNCHANGED <<connected, swallowed, loopVars, writerVars, netVars>>
    BY <1>18 DEF LoopWrites
  <2> QED BY <2>1, <2>2 DEF Watched, loopVars, writerVars, netVars
<1>19. CASE RoomAgain
  <2>1. listed' \in BOOLEAN
    BY <1>19, Zenon DEF RoomAgain
  <2> QED BY <1>19, <2>1 DEF RoomAgain, loopVars, writerVars
<1>20. CASE \E u : Arrive(u)
  <2>1. listed' \in BOOLEAN /\ UNCHANGED <<connected, swallowed, flags, interest, loopVars, writerVars, room, hung_up>>
    BY <1>20, Zenon DEF Arrive
  <2> QED BY <2>1 DEF loopVars, writerVars
<1>21. CASE UNCHANGED sslVars
  BY <1>21 DEF sslVars, engineVars, loopVars, writerVars, netVars
<1> QED BY <1>4, <1>5, <1>6, <1>7, <1>8, <1>9, <1>10, <1>11, <1>12, <1>13, <1>14, <1>15,
        <1>16, <1>17, <1>18, <1>19, <1>20, <1>21, <1>22, ConnectionSteps

LEMMA InputInit ==
    ASSUME Init
    PROVE  InputInv
<1>1. InputTypeOK
  BY WebSocketAssumption DEF Init, SslInit, InputTypeOK
<1>2. BeforeHandshake
  BY DEF Init, SslInit, BeforeHandshake
<1> QED BY <1>1, <1>2 DEF Init, SslInit, InputInv

-----------------------------------------------------------------------------
(* The theorems.                                                           *)

\* The output stream is intact: SSL_write is given exactly what was written, in
\* order and once, whatever the size of the raw buffer and however socket_write
\* from another thread, partial copies and blocked sends interleave.
THEOREM OutputIntact == Spec => []StreamIntact
<1>1. Init => OutInv
  BY SslAssumption DEF Init, SslInit, OutInv, OutTypeOK, Aligned, Run
<1>2. OutInv /\ [Next]_vars => OutInv'
  BY OutStep
<1>3. OutInv => StreamIntact
  BY AlignedIntact
<1> QED BY <1>1, <1>2, <1>3, PTL DEF Spec

\* No write request is lost between inplace_modify_fd on the writer's thread and
\* the loop, which takes WANT_WRITE back without a common lock, as long as no
\* error of the TLS session has been passed over.
THEOREM NoLostWrite == Spec => []PendingIsArmed
<1>1. Init => EngineInv
  BY DEF Init, SslInit, EngineInv, PlaceInv, EntryInv, FlagInv, PendingInv, Armed, TakesBack,
     Live, LoopPC, RWE
<1>2. EngineInv /\ [Next]_vars => EngineInv'
  BY EngineStep
<1>3. EngineInv => PendingIsArmed
  BY DEF EngineInv, PlaceInv, FlagInv, PendingInv, Armed, TakesBack, PendingIsArmed
<1> QED BY <1>1, <1>2, <1>3, PTL DEF Spec

\* However the stream is cut into reads, handle_buffer has handled exactly the
\* frames that came since the upgrade, each whole, once and in order, and the
\* buffer begins with the next one.
THEOREM FramesWhole == Spec => []FramesInOrder
<1>1. Init => InputInv /\ EngineInv
  BY InputInit DEF Init, SslInit, EngineInv, PlaceInv, EntryInv, FlagInv, PendingInv, Armed,
     TakesBack, Live, LoopPC, RWE
<1>2. InputInv /\ EngineInv /\ [Next]_vars => (InputInv /\ EngineInv)'
  BY InputStep, EngineStep DEF EngineInv
<1>3. InputInv => FramesInOrder
  BY InputInOrder
<1> QED BY <1>1, <1>2, <1>3, PTL DEF Spec

\* Every variable of the connection and of the websocket keeps its type: the raw
\* buffer never overflows DPP_BUFSIZE, and no more frames or pings are counted
\* than the server has sent.
THEOREM TypeCorrect == Spec => []TypeOK
<1> DEFINE IInv == InputInv /\ EngineInv /\ OutInv /\ EngineTypeOK
<1>1. Init => IInv
  <2>1. Init => EngineInv /\ EngineTypeOK
    BY DEF Init, SslInit, EngineInv, PlaceInv, EntryInv, FlagInv, PendingInv, Armed,
       TakesBack, Live, LoopPC, RWE, EngineTypeOK, Flag
  <2>2. Init => OutInv
    BY SslAssumption DEF Init, SslInit, OutInv, OutTypeOK, Aligned, Run
  <2> QED BY <2>1, <2>2, InputInit
<1>2. IInv /\ [Next]_vars => IInv'
  BY InputStep, EngineStep, OutStep, EngineTypes DEF EngineInv
<1>3. IInv => TypeOK
  BY DEF InputInv, InputTypeOK, Any, EngineInv, PlaceInv, OutInv, OutTypeOK, EngineTypeOK,
     TypeOK, SslTypeOK
<1> QED BY <1>1, <1>2, <1>3, PTL DEF Spec

=============================================================================
