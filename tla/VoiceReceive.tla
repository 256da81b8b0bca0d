---------------------------- MODULE VoiceReceive ----------------------------
(***************************************************************************)
(* The receiving side of discord_voice_client: read_ready, which parks the *)
(* payloads of each speaker, the courier thread, which takes them in       *)
(* batches and hands them to the handlers in order, with an event for each *)
(* packet it believes lost, and cleanup, which stops the courier when the  *)
(* connection is made anew or the client destroyed.                        *)
(*                                                                         *)
(* read_ready runs on the event loop's thread, and so does the timer of    *)
(* on_disconnect that calls cleanup to connect again.  The destructor runs *)
(* cleanup on any other thread: a worker of the pool or one of the user's. *)
(* Nothing but the mutex of the shared state keeps them apart.  Each       *)
(* critical section of that state is one action.                           *)
(*                                                                         *)
(* A packet is its number in the speaker's stream.  Its timestamp is that  *)
(* number, its sequence number the number modulo SeqMod (2^16 in the code).*)
(* UDP may lose packets and change their order within a window.            *)
(*                                                                         *)
(* Not modelled: duplicated packets, wrap-around of the 32-bit timestamp,  *)
(* bots without a handler, payloads Opus can not decode, decoder settings  *)
(* and the mixed stream.                                                   *)
(***************************************************************************)
EXTENDS Naturals, Sequences, FiniteSets

CONSTANTS
    Speaker,       \* ssrc_map's users, as numbers: std::map iterates in order
    SeqMod,        \* rtp_seq_t wraps around here
    MaxPackets,    \* bound: packets of one speaker
    MaxGap,        \* bound: packets lost in a row
    Window,        \* how late a packet may arrive, in packets
    Caller,        \* who may call cleanup: "timer" and "destructor"
    MaxCleanups    \* bound: calls of cleanup by the timer

ASSUME VoiceAssumption ==
    /\ Speaker \subseteq Nat
    /\ SeqMod \in Nat \ {0}
    /\ MaxPackets \in Nat
    /\ MaxGap \in Nat /\ MaxGap + 1 < SeqMod
    /\ Window \in Nat
    /\ Caller \subseteq {"timer", "destructor"}
    /\ MaxCleanups \in Nat

VARIABLES
    \* shared_state, under its mutex
    parked,         \* parked_payloads of each speaker
    decoder,        \* does the speaker have a decoder?
    min_seq, max_seq, min_timestamp, max_timestamp,
    terminating,
    \* the courier
    courier,        \* "none" while the thread is not joinable
    flush,          \* parked_payloads in flush_data
    position,       \* seq of the delivery loop, from d.min_seq
    \* the event loop's thread and the callers of cleanup
    loop,
    cleaner,
    cleanups,
    client,         \* "undefined" once the code has no defined behaviour
    \* history
    arrived,        \* packets that UDP has delivered
    jumbled,        \* did one arrive after a later one?
    accepted,       \* packets that were parked
    heard,          \* events given to on_voice_receive; Lost for a lost packet
    failed          \* has the courier given up?

rangeVars == <<decoder, min_seq, max_seq, min_timestamp, max_timestamp>>
courierVars == <<courier, flush, position>>
netVars == <<arrived, jumbled, accepted>>
cleanVars == <<cleaner, cleanups, client>>
vars == <<parked, rangeVars, terminating, courierVars, loop, cleanVars, netVars,
          heard, failed>>

Packet == 1..MaxPackets
Lost == 0
SeqNo(i) == i % SeqMod

TypeOK ==
    /\ parked \in [Speaker -> SUBSET Packet]
    /\ decoder \in [Speaker -> BOOLEAN]
    /\ min_seq \in [Speaker -> 0..(SeqMod - 1)]
    /\ max_seq \in [Speaker -> 0..(SeqMod - 1)]
    /\ min_timestamp \in [Speaker -> 0..(MaxPackets + 1)]
    /\ max_timestamp \in [Speaker -> 0..MaxPackets]
    /\ terminating \in BOOLEAN
    /\ courier \in {"none", "collect", "wait", "woken", "deliver", "ended"}
    /\ flush \in [Speaker -> SUBSET Packet]
    /\ position \in [Speaker -> 0..(SeqMod - 1)]
    /\ loop \in {"run", "notify", "start"}
    /\ cleaner \in [Caller -> {"idle", "terminate", "notify", "join", "leave"}]
    /\ cleanups \in 0..MaxCleanups
    /\ client \in {"live", "destroyed", "undefined"}
    /\ arrived \in [Speaker -> SUBSET Packet]
    /\ jumbled \in [Speaker -> BOOLEAN]
    /\ accepted \in [Speaker -> SUBSET Packet]
    /\ heard \in [Speaker -> Seq(Packet \union {Lost})]
    /\ failed \in BOOLEAN

Init ==
    /\ parked = [s \in Speaker |-> {}]
    /\ decoder = [s \in Speaker |-> FALSE]
    /\ min_seq = [s \in Speaker |-> 0]
    /\ max_seq = [s \in Speaker |-> 0]
    /\ min_timestamp = [s \in Speaker |-> 0]
    /\ max_timestamp = [s \in Speaker |-> 0]
    /\ terminating = FALSE
    /\ courier = "none"
    /\ flush = [s \in Speaker |-> {}]
    /\ position = [s \in Speaker |-> 0]
    /\ loop = "run"
    /\ cleaner = [c \in Caller |-> "idle"]
    /\ cleanups = 0
    /\ client = "live"
    /\ arrived = [s \in Speaker |-> {}]
    /\ jumbled = [s \in Speaker |-> FALSE]
    /\ accepted = [s \in Speaker |-> {}]
    /\ heard = [s \in Speaker |-> <<>>]
    /\ failed = FALSE

-----------------------------------------------------------------------------
(* read_ready.                                                             *)

Highest(S) == IF S = {} THEN 0 ELSE CHOOSE i \in S : \A j \in S : j <= i
Lowest(S) == CHOOSE i \in S : \A j \in S : i <= j

\* The packets UDP may deliver next: one that follows, or a late one.
MayArrive(s) ==
    LET top == Highest(arrived[s])
    IN  {i \in Packet \ arrived[s] :
            i <= top + 1 + MaxGap /\ (i > top \/ i + Window >= top)}

\* "This packet arrived too late."
TooLate(s, i) == decoder[s] /\ SeqNo(i) < min_seq[s] /\ i < min_timestamp[s]

\* Is the event loop's thread in a call of cleanup?
Reconnecting == \E c \in Caller : c = "timer" /\ cleaner[c] # "idle"

\* The datagram is received and parked, or discarded.
ReadReady(s, i) ==
    /\ client = "live"
    /\ loop = "run" /\ ~ Reconnecting
    /\ arrived' = [arrived EXCEPT ![s] = @ \union {i}]
    /\ jumbled' = [jumbled EXCEPT ![s] = @ \/ i < Highest(arrived[s])]
    /\ IF TooLate(s, i)
       THEN UNCHANGED <<parked, rangeVars, accepted, loop>>
       ELSE /\ parked' = [parked EXCEPT ![s] = @ \union {i}]
            /\ decoder' = [decoder EXCEPT ![s] = TRUE]
            /\ min_seq' = [min_seq EXCEPT ![s] = IF decoder[s] THEN @ ELSE SeqNo(i)]
            /\ min_timestamp' = [min_timestamp EXCEPT ![s] = IF decoder[s] THEN @ ELSE i]
            /\ max_seq' = [max_seq EXCEPT ![s] = SeqNo(i)]
            /\ max_timestamp' = [max_timestamp EXCEPT ![s] = i]
            /\ accepted' = [accepted EXCEPT ![s] = @ \union {i}]
            /\ loop' = "notify"
    /\ UNCHANGED <<terminating, courierVars, cleanVars, heard, failed>>

\* notify_one, after the unlock.
Notified == IF courier = "wait" THEN "woken" ELSE courier

NotifyCourier ==
    /\ client = "live"
    /\ loop = "notify"
    /\ courier' = Notified
    /\ loop' = "start"
    /\ UNCHANGED <<parked, rangeVars, terminating, flush, position, cleanVars, netVars,
                   heard, failed>>

\* The thread is started when it is not joinable.
StartCourier ==
    /\ client = "live"
    /\ loop = "start"
    /\ courier' = IF courier = "none" THEN "collect" ELSE courier
    /\ loop' = "run"
    /\ UNCHANGED <<parked, rangeVars, terminating, flush, position, cleanVars, netVars,
                   heard, failed>>

-----------------------------------------------------------------------------
(* cleanup, by the timer that connects again or by the destructor.         *)

\* The test of joinable, without a lock.
Cleanup(c) ==
    /\ client = "live"
    /\ cleaner[c] = "idle"
    /\ c = "timer" => loop = "run" /\ cleanups < MaxCleanups
    /\ cleaner' = [cleaner EXCEPT ![c] = IF courier = "none" THEN "leave" ELSE "terminate"]
    /\ cleanups' = IF c = "timer" THEN cleanups + 1 ELSE cleanups
    /\ UNCHANGED <<parked, rangeVars, terminating, courierVars, loop, client, netVars, heard, failed>>

CleanupTerminate(c) ==
    /\ client = "live"
    /\ cleaner[c] = "terminate"
    /\ terminating' = TRUE
    /\ cleaner' = [cleaner EXCEPT ![c] = "notify"]
    /\ UNCHANGED <<parked, rangeVars, courierVars, loop, cleanups, client, netVars, heard, failed>>

CleanupNotify(c) ==
    /\ client = "live"
    /\ cleaner[c] = "notify"
    /\ courier' = Notified
    /\ cleaner' = [cleaner EXCEPT ![c] = "join"]
    /\ UNCHANGED <<parked, rangeVars, terminating, flush, position, loop, cleanups, client,
                   netVars, heard, failed>>

CleanupJoin(c) ==
    /\ client = "live"
    /\ cleaner[c] = "join"
    /\ courier = "ended"
    /\ courier' = "none"
    /\ cleaner' = [cleaner EXCEPT ![c] = "leave"]
    /\ UNCHANGED <<parked, rangeVars, terminating, flush, position, loop, cleanups, client,
                   netVars, heard, failed>>

\* The timer connects again; the destructor destroys the members, and a
\* std::thread that has become joinable again ends the program.
CleanupLeave(c) ==
    /\ client = "live"
    /\ cleaner[c] = "leave"
    /\ cleaner' = [cleaner EXCEPT ![c] = "idle"]
    /\ client' = IF c = "timer" THEN client
                 ELSE IF courier = "none" THEN "destroyed" ELSE "undefined"
    /\ UNCHANGED <<parked, rangeVars, terminating, courierVars, loop, cleanups, netVars, heard, failed>>

\* read_ready or the timer goes on in a client that has been destroyed.
UsedDestroyed ==
    /\ client = "destroyed"
    /\ loop # "run" \/ Reconnecting
    /\ client' = "undefined"
    /\ UNCHANGED <<parked, rangeVars, terminating, courierVars, loop, cleaner, cleanups, netVars,
                   heard, failed>>

\* Both callers join the courier: at the same time, or one after the other.
JoinedTwice ==
    /\ client = "live"
    /\ \E c \in Caller :
        /\ cleaner[c] = "join"
        /\ courier = "none" \/ \E d \in Caller \ {c} : cleaner[d] = "join"
    /\ client' = "undefined"
    /\ UNCHANGED <<parked, rangeVars, terminating, courierVars, loop, cleaner, cleanups, netVars,
                   heard, failed>>

-----------------------------------------------------------------------------
(* voice_courier_loop.                                                     *)

HasPayload == \E s \in Speaker : parked[s] # {}

NextMinSeq_unwrapped(s) == max_seq[s] + 1
NextMinSeq_same(s) == max_seq[s]
NextMinSeq(s) == (max_seq[s] + 1) % SeqMod

\* The critical section: the payloads are taken, the ranges moved on.
CourierCollect ==
    /\ courier = "collect"
    /\ flush' = parked
    /\ parked' = [s \in Speaker |-> {}]
    /\ position' = min_seq
    /\ min_seq' = [s \in Speaker |-> IF decoder[s] THEN NextMinSeq(s) ELSE min_seq[s]]
    /\ min_timestamp' = [s \in Speaker |-> IF decoder[s] THEN max_timestamp[s] + 1
                                           ELSE min_timestamp[s]]
    /\ courier' = IF HasPayload THEN "deliver"
                  ELSE IF terminating THEN "ended" ELSE "wait"
    /\ UNCHANGED <<decoder, max_seq, max_timestamp, terminating, loop, cleanVars, netVars,
                   heard, failed>>

\* The condition variable wakes without a reason.
CourierSpurious ==
    /\ courier = "wait"
    /\ courier' = "woken"
    /\ UNCHANGED <<parked, rangeVars, terminating, flush, position, loop, cleanVars, netVars,
                   heard, failed>>

WakesUp_terminating == terminating
WakesUp == terminating \/ HasPayload

\* The wait's predicate.
CourierWakes ==
    /\ courier = "woken"
    /\ courier' = IF WakesUp THEN "collect" ELSE "wait"
    /\ UNCHANGED <<parked, rangeVars, terminating, flush, position, loop, cleanVars, netVars,
                   heard, failed>>

Speaking == {s \in Speaker : flush[s] # {}}

\* One turn of the delivery loop: the payload whose turn it is, or else an
\* event for a lost packet.  The oldest timestamp is on top of the queue.
CourierDeliver ==
    /\ courier = "deliver"
    /\ Speaking # {}
    /\ LET s == Lowest(Speaking)
           top == Lowest(flush[s])
           due == SeqNo(top) = position[s]
       IN  /\ heard' = [heard EXCEPT ![s] = Append(@, IF due THEN top ELSE Lost)]
           /\ flush' = [flush EXCEPT ![s] = IF due THEN @ \ {top} ELSE @]
           /\ position' = [position EXCEPT ![s] = (@ + 1) % SeqMod]
    /\ UNCHANGED <<parked, rangeVars, terminating, courier, loop, cleanVars, netVars, failed>>

CourierFlushed ==
    /\ courier = "deliver"
    /\ Speaking = {}
    /\ courier' = "collect"
    /\ UNCHANGED <<parked, rangeVars, terminating, flush, position, loop, cleanVars, netVars,
                   heard, failed>>

\* A payload that can not be decrypted, or an exception of a handler, ends the
\* thread.
CourierFails ==
    /\ courier = "deliver"
    /\ Speaking # {}
    /\ courier' = "ended"
    /\ flush' = [s \in Speaker |-> {}]
    /\ failed' = TRUE
    /\ UNCHANGED <<parked, rangeVars, terminating, position, loop, cleanVars, netVars, heard>>

-----------------------------------------------------------------------------
LoopStep == NotifyCourier \/ StartCourier \/ UsedDestroyed
CleanupStep(c) == CleanupTerminate(c) \/ CleanupNotify(c) \/ CleanupJoin(c) \/ CleanupLeave(c)
CourierStep == CourierCollect \/ CourierWakes \/ CourierDeliver \/ CourierFlushed

Next ==
    \/ \E s \in Speaker : \E i \in MayArrive(s) : ReadReady(s, i)
    \/ \E c \in Caller : Cleanup(c) \/ CleanupStep(c)
    \/ LoopStep
    \/ JoinedTwice
    \/ CourierStep
    \/ CourierSpurious
    \/ CourierFails

\* The threads run, and none comes back from a second join; packets, spurious
\* wakeups, failures and calls of cleanup need not happen.
Spec ==
    /\ Init /\ [][Next]_vars
    /\ WF_vars(LoopStep) /\ WF_vars(CourierStep) /\ WF_vars(JoinedTwice)
    /\ \A c \in Caller : WF_vars(CleanupStep(c))

-----------------------------------------------------------------------------
(* Properties.                                                             *)

Times(s, i) == Cardinality({k \in 1..Len(heard[s]) : heard[s][k] = i})

\* Where packet i of speaker s is, counted.
Places(s, i) ==
    (IF i \in parked[s] THEN 1 ELSE 0) + (IF i \in flush[s] THEN 1 ELSE 0) + Times(s, i)

\* A payload that was parked is in one place, and so is handed over once and
\* not lost between the two threads, as long as the courier has not failed.
\* When the packets of a speaker came in order, losses and wrap-around of the
\* sequence number included, the handlers get one event per packet of the
\* stream in its order: the payload, or a lost packet in its place.
HeardFaithfully ==
    ~ failed =>
        \A s \in Speaker :
            /\ \A i \in Packet : Places(s, i) = IF i \in accepted[s] THEN 1 ELSE 0
            /\ ~ jumbled[s] /\ accepted[s] # {} =>
                \A k \in 1..Len(heard[s]) :
                    heard[s][k] = LET i == Lowest(accepted[s]) + k - 1
                                  IN  IF i \in accepted[s] THEN i ELSE Lost

\* A payload that was parked before the courier was told to terminate is handed
\* over, whatever cleanup does on its thread meanwhile, and a call of cleanup
\* comes back from its join, unless the courier has failed or the code has no
\* defined behaviour: no notification is lost although all are given after the
\* unlock and joinable is tested without a lock.
CourierServes ==
    /\ \A s \in Speaker, i \in Packet :
        i \in parked[s] /\ ~ terminating ~> Times(s, i) = 1 \/ failed \/ client = "undefined"
    /\ \A c \in Caller : cleaner[c] = "join" ~> cleaner[c] # "join" \/ client = "undefined"

\* "Packets less than the minimum have been delivered to voice handlers and
\* there is no going back. Unfortunately we just have to drop them."
\* (discordvoiceclient.h): the payloads of a speaker are heard in order.
HeardInOrder ==
    \A s \in Speaker : \A j, k \in 1..Len(heard[s]) :
        j < k /\ heard[s][k] # Lost => heard[s][j] < heard[s][k]

=============================================================================
