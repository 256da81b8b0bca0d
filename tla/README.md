# D++ verified: TLA+ models of the core of DPP

D++ (DPP) is a C++ library for Discord bots. This directory holds TLA+ modules
that model its core, the TLC configurations that check them on small
instances, and TLAPS proofs of the results that hold for every instance.
`PROJECT.json` maps every definition to the lines it models and lists runs,
findings, hazards and theorems. Paths below are relative to `src/`.

To check a module: `tlc -config MC_X.cfg MC_X`; `Timers`,
`WebSocket` and `VoiceReceive` need no definitions for their constants and are
checked themselves with `MC_X.cfg`. To check a proof: `tlapm XProofs.tla`.

## The system

A bot makes a `cluster`. The cluster owns a *socket engine* (epoll, kqueue or
poll), a *timer queue*, a *thread pool* and two *request queues* (one for the
API, one for other hosts), and one `discord_client` per *shard*, its connection
to Discord's gateway. `cluster::start` runs the **event loop**: it waits for
socket events, calls the handlers of the sockets, and once a second `prune`
ticks the timers. Everything else runs on the threads of the pool or of the
user.

| Component | State | Operations | Talks to |
|---|---|---|---|
| timers (`cluster/timer.cpp`) | `next_timer` (priority queue), `deleted_timers`, `timer_guard` | `start_timer`, `stop_timer`, `tick_timers`, `oneshot_timer` | ticked by the socket engine's `prune`, drained by `shutdown`; its callbacks run request queues, reconnections and heartbeats |
| socket engine (`socketengine.cpp`, `socketengines/`) | `fds`, `to_delete_count`, `last_time` | `register_socket`, `update_socket`, `delete_socket`, `prune`, `process_events` | calls `on_read`, `on_write`, `on_error` of connections |
| REST queues (`queues.cpp`) | `requests_in`, `removals`, `buckets`, `globally_ratelimited` | `post_request`, `tick_and_deliver_requests`, `http_request::run` and its completion, the purge | timers; an `https_client` per request; the thread pool runs completions |
| HTTPS client (`httpsclient.cpp`) | parser `state`, `buffer`, `body`, chunk counters, `timeout`, `completed` | `handle_buffer`, `one_second_timer`, `close` | is an `ssl_connection`; its callback completes a REST request |
| TLS connection (`sslconnection.cpp`) | `sfd`, `connected`, `obuffer`, the raw buffer and its offset, retries | `socket_write`, `connect`, `on_read`, `on_write`, `on_error`, `close` | socket engine, a timer each |
| websocket (`wsclient.cpp`) | `state`, `buffer`, `data_opcode` | upgrade, frames, ping, close | is an `ssl_connection`; gives frames to shard or voice client |
| gateway shards (`discordclient.cpp`, `cluster.cpp`) | `sessionid`, `last_seq`, `ready`, heartbeat times, `message_queue`; the cluster's `shards`, `reconnections`, `last_identify` | `handle_frame`, `one_second_timer`, `on_disconnect`, `add_reconnect`, the reconnect monitor, `start` | websocket, timers, event handlers |
| thread pool (`thread_pool.cpp`) | task queue by priority, `stop`, a condition variable | `enqueue`, the workers' loop, the destructor | event handlers, completions |
| event router (`event_router.h`), events (`events/`) | `dispatch_container`, `coro_awaiters` | attach, detach, call, await, cancel, resume | thread pool, cache, coroutines |
| coroutines (`coro/`) | flags of promises, `owner_state` and jobs of a `when_any` | await, resume, cancel, destroy | event router, timers, REST queues |
| cache (`cache.cpp`) | maps of objects, objects waiting to be freed | store, find, remove, garbage collection | event handlers |
| voice (`discordvoiceclient.cpp`, `voice/`) | parked payloads and ranges per speaker, outgoing queue and markers | send, receive, pause, cleanup | websocket, UDP, courier thread |
| DAVE (`dave/`) | epochs, transitions, ciphers | transitions, encrypt, decrypt | voice |
| HTTP server, command handler, codecs, REST wrappers, data types, utilities | little or none | parse, build, convert | - |

### What is hard

* **Callbacks outside the lock.** `tick_timers` holds a timer outside its queue
  while it calls back without `timer_guard`; `tick_and_deliver_requests` runs
  requests from a snapshot of raw pointers.
* **Several threads at the same queue.** `post_request` delivers on the thread
  of the caller while the timer delivers on the event loop's.
* **Connections fail at any point**, timeouts race late answers, and the
  completion of one client must happen exactly once, because it frees a
  request.
* **Sessions** survive connections: a shard must resume from the last event it
  handled, through failed and refused attempts, while others reconnect too.
* **Condition variables** notified without the mutex, and pools that are
  destroyed while tasks enqueue tasks.
* **Exceptions** thrown by users' callbacks cross `tick_timers`, the loop, and
  the calls of an event with the awaiters they have claimed.
* **Edge-triggered readiness.** Whoever writes asks for a write event in two
  steps without a common lock with the loop, which takes requests back; a lost
  request means a silent connection.
* **Coroutines** are resumed by events, timers and replies on any thread while
  others cancel them or destroy what they wait for.
* **UDP** loses and reorders packets whose 16-bit numbers wrap around, and the
  voice client is destroyed on one thread while another reads for it.

`PROJECT.json` lists the hazards at their lines with the properties that cover
them; those that no property covers are described below.

## The modules

Each critical section of the code, or each callback that runs on the event loop
without interruption, is one action. Variables that the code does not have are
listed as *history* in the module; they count and remember, and change nothing
the code's actions do (`kind` of `Timers` stands for the callback the timer was
made with, `seen` and its like for the other side of a connection). Data that carries no control (headers, URLs, JSON, payloads) is
left out.

### Timers

`now` is `time(nullptr)`, moved by `ClockTick`. `StartTimer` makes the handle
and the record outside the lock, `InsertTimer` is the critical section that
queues it, so the two may be separated by anything. `pc` is the place of
the event loop: `Prune` enters `tick_timers` when a new second is seen, then the top of the queue is examined, popped, looked up in
`deleted_timers`, its `on_tick` begins and ends (or throws, out through
`prune`), and it is put back; or its `on_stop` runs and the handle is erased.
`Shutdown` and `Drain` are the end of the loop and the draining by
`cluster::shutdown`, which joins the loop's thread only if `cluster::start` was
told to make one (`ReturnAfter`); after `st_wait` the queue is drained beside a
loop that still runs. The callback of a `oneshot_timer` stops `th`, which is
stored after `start_timer` has returned (`unset`, `StoreHandle`): a tick before
that stops whatever the uninitialised member holds (`Junk`). Handle 1 is the *service timer*, that of a
`request_concurrency_queue`, which exists for as long as the cluster.

### RestQueue

`requests_in[q]` is the sorted vector of queue `q`, `removals[q]` its second
vector. A thread that delivers keeps its snapshot and its place; every lock of
the code separates two actions, and so does the gap between the unlocked look at
a bucket and the `run` that follows. Snapshots are raw pointers: they may hold a
request the purge has destroyed. Seconds pass wherever the threads are, and a
queue's timer may be `due` several times. `PostRequest` inserts and then begins to
deliver on the posting thread, `TimerTick` does so on the loop's. `buckets`
remembers what the last reply said of an endpoint, times are seconds left. A
reply of any kind, a failed construction and the pool's completion jobs are
actions of their own.

### TaskPool and ThreadPool

`TaskPool` is the promise: a task is submitted, started when none that waits is
more urgent, finished, and the pool closes only when nothing is left. It does
not order tasks of the same priority, because the code does not.
`ThreadPool` is the code: workers that lock, wait in a condition
variable, wake (spuriously too), take and run; `enqueue`'s critical section and
its `notify_one` after it; the destructor's `stop`, `notify_all` and `join`.
`PoolPromise` maps it to `TaskPool`.

### Gateway

`shards[s]` is the `discord_client`: socket, session, sequence number,
readiness. Frames arrive whole, in order. The gateway is
external: per shard it remembers its session and the events handed out, answers
identify and resume, refuses, revokes, signals a reconnect and loses
connections. An event counts as handled once it is handed to `handle_event`:
`last_seq` is stored before, and a handler that throws is not modelled. The reconnect monitor, the delayed identify timers (also those
whose client has been replaced meanwhile), the thread that starts the shards
and missed heartbeat acks are actions. `crashed` is the outcome of a null or
dangling pointer.

### HttpsClient

A response is a framing (length, chunked, none, unknown, malformed, a bad chunk)
and the lengths of its chunks; its bytes are numbered, so that the body can be
compared. The network delivers any number of bytes per read, loses the
connection or falls silent anywhere. The parser takes one turn of
`handle_buffer`'s loop per action.

### EventRouter and WhenAny

`EventRouter` is `event_router_t`: listeners in `dispatch_container`, awaiting
coroutines in `coro_awaiters`, each critical section of its two mutexes one
action, several calls of the event at once. An `awaitable` is claimed by the
compare-and-exchange of `resume_awaiters` or of `cancel`. `WhenAny` composes it
with `when_any`: jobs that wait for awaitables of the router and for asyncs, the
flags the jobs and the owner exchange in `owner_state`, the result, and the
destructor that cancels the jobs that lost, on whichever thread each runs. With
`CanThrow`, predicates, listeners, task handlers and resumed coroutines throw at
any point (`PredicateThrows`, `HandlerThrows`, `TaskRethrows`, `ResumeThrows`,
`JobThrows`), and `Unwind` ends the call with whatever it had claimed.

### SslConnection and WebSocket

`SslConnection` is one descriptor in the epoll engine with the connection behind
it: `obuffer`, the raw buffer that `SSL_write` must be given again, TCP that
takes records only later, a handshake, reads that end in the middle of a
record, errors that close and errors that are passed over (`SendSwallowed`,
`ReadSwallowed`), and a second thread in `socket_write`. `WebSocket`
puts the upgrade, frames cut into reads anywhere, pings, pongs, close frames and
the timeouts on top. A unit of the stream stands for two bytes, the shortest
frame. A `handle_frame` that returns false is not modelled.

### VoiceReceive

`read_ready` parks a speaker's payloads and moves the maximum of its range;
the courier thread takes all of them, derives the next minimum, and hands over
one event per sequence number up to the last payload, a lost packet where there
is none. `cleanup` tests `joinable`, sets `terminating`, notifies and joins, each
an action, for two callers: the timer of `on_disconnect` on the loop's thread,
and the destructor on any other, beside `read_ready`. `client` becomes
"undefined" when the courier is joined twice, destroyed while joinable, or when
`read_ready` or the timer go on in a destroyed client. A packet is its place in the
speaker's one stream (`ssrc_map`'s default user 0 and a user's second SSRC are
not modelled); UDP loses packets and delays them within a window; the
sequence number is that place modulo `SeqMod`.

### How they fit

`Timers` calls what the others call a timer's tick: `TimerTick` and `Purge` of
`RestQueue`, `TimerStep` of `Gateway`, `OneSecondTimer` of `HttpsClient`,
`TimerWrites` and `TimeOut` of `WebSocket`. `Served` justifies the fairness
these assume of it. `CallsBack` and `CalledOnce` of `HttpsClient` justify that
every request in flight of `RestQueue` ends, and exactly once. `EveryTaskRuns`
of `ThreadPool` justifies the fairness of `RestQueue`'s completion jobs and of
the calls of an event in `WhenAny`. `FramesInOrder` justifies that `Gateway`
and `HttpsClient` take their input as a stream in order. `WhenAny` and `WebSocket`
EXTEND the module below them; the others are composed by these assumptions, not
by one product of all states.

## The runs

| Run | Instance | Shows | Properties, besides `TypeOK` |
|---|---|---|---|
| `timers` | service timer and one more, frequencies 1 and 2, five seconds, loop up to a second late, callbacks may throw, `th` may be read too early, `shutdown` may drain beside the loop (216 k states) | timers conserved, stops honoured once and for all, one-shot timers that read their own handle tick once, ticks neither drift nor come early, `top()` defined unless the queue was drained under the loop, due timers served and stopped ones retired | `TimersConserved`, `StopHonoured`, `OneshotTicksOnce`, `Punctual`, `TopDefined`, `Served` |
| `rest` | three requests, two endpoints of one queue, posted on the loop's thread; failures, late ticks, missed purges (525 k) | at most one run and one callback, freed only when done, every request that got a client called back | `FreedWhenDone`, `AtMostOnce`, `RequestsComplete` |
| `rest_threads` | two requests; a user's thread and the loop's deliver the same queue (3.3 M) | every request owned exactly once; vector stays sorted | `VectorSound` |
| `rest_twice` | the same | **violated**: a request may run twice | `AtMostOnce` |
| `pool` | three workers, four tasks of two priorities (90 k) | conservation, no lost wakeup, `TaskPool` implemented, every task runs, destructor returns | `TasksConserved`, `NoLostWakeup`, `PoolPromise`, `EveryTaskRuns`, `DestructorReturns` |
| `gateway` | two shards, one with two events per session (178 k) | closed and failed shards listed, sessions kept, events in order, closed shards replaced | `NoShardForgotten`, `SessionKept`, `EventsInOrder`, `ClosedIsReplaced` |
| `gateway_ack` | one shard | **violated**: missing acks do not reconnect | `MissedAckReconnects` |
| `https` | seven responses, three bytes of body, two chunks (1.6 k) | one callback, body right for every cut, callback in the end | `CalledOnce`, `BodyFaithful`, `CallsBack` |
| `coro` | a `when_any` of two awaitables and an async, two events, two listeners, exceptions anywhere (2.0 M) | no stale pointer, only calls ended by exceptions forget awaiters, one result, events outlive what uses them unless an exception ends the call, nobody stranded | `AwaitersAlive`, `OneResult`, `ReferencesValid`, `NobodyStranded` |
| `wire` | three units written by two threads, raw buffer of two, two frames of two or three units (835 k) | raw buffer never overrun, output neither lost nor reordered, pending output is armed in epoll, frames whole and in order, data moves | `StreamIntact`, `PendingIsArmed`, `FramesInOrder`, `DataMoves` |
| `voice` | one speaker, four packets, numbers modulo 4, up to two lost in a row, delays up to two, a reconnection and the destructor (179 k) | every parked payload handed over once, in-order streams heard in order with gaps in place, what was parked before termination handed over, every join comes back | `HeardFaithfully`, `CourierServes` |
| `voice_late` | one speaker, four packets | **violated**: a late packet is heard after its successors | `HeardInOrder` |

Each property of a passing run is broken by a mutant, a plausible bug kept in
its module beside the definition it alters (a name with `_` and the bug).

### Why the bounds are enough

The safety properties are also proved for every value of the constants (see What is
proved); for them the runs are a check that the formulas hold where the
interesting cases occur. The bounds matter most for liveness.

*Timers*: every hand-over involves the timer held by `tick_timers` and one that
is queued or being inserted. A loop a second late makes the second that began
during a run of the timers go unseen. Five seconds leave time to serve a timer
although a throw puts it off (`Slack`). An uninitialised `th` holds no handle or
that of the service timer, and `start(st_wait)` lets `shutdown` drain at any time;
a run in which neither happens is one of those behaviours.
*RestQueue*: the races are between two deliveries; two requests and two
endpoints have the orders before, same and behind in the vector. A wait of one
second is long enough to be pending at some tick and over at a later one.
A bucket is known only after a reply, so one request behind a held back one of
another endpoint takes three, which `rest` has. `MaxLate` is how many ticks
a busy loop may owe: with one the purge's second can already be missed.
No reply leaves anything `remaining`, so every known bucket holds back.
*ThreadPool*: three workers and four tasks let notifications overtake each
other, find all busy and arrive before a wait. Tasks are finitely many: that more
urgent ones without end starve the others is not a behaviour of this instance.
*Gateway*: two shards suffice for one in the way of another. The interval and
the period of 5 s are one second each; safety was also explored with both 2 and
with lag 1 and two frames on their way. *HttpsClient*: two chunks and a body of
three bytes make every cut (before, in, between length, content and trailer)
occur. *WhenAny*: the conflicts are between two resumptions, or a resumption and
a cancellation, of one job or of two; a third job of the other kind brings in
the promise of an async; a second listener leaves a task handler suspended while
another throws. The calls of the event are a symmetry set: they differ in nothing
but their names, and the run checks invariants only. *WebSocket*: a raw buffer of two and three units written
let a chunk wait for TCP while more is appended; two frames of up to three units
have every cut, in a frame, between two, and across the upgrade's response.
*VoiceReceive*: four packets, up to two lost before each, with numbers modulo 4
wrap around within a batch and between two; one speaker, since speakers share only the lock and the loop over
them. One reconnection and the destructor are all the callers that can meet.

Deadlock is checked in the runs of `RestQueue`, where the system should go on for ever. The other
runs end where a bounded clock, a destroyed pool or a finished client does.

### Fairness

*Timers*: the loop's steps, the clock, and calls that have begun. The loop
waits at most a second for events and blocks nowhere else; users owe
nothing. *RestQueue*: the clock, the queue's timer, delivering threads, purge
and pool jobs weakly; the replies strongly, since `https_client` times out and
so each request ends (`CallsBack`). *ThreadPool*: each thread that can go on
does; no spurious wakeup is relied on, nobody must enqueue or destroy.
*Gateway*: clock, timers, the starting thread, and reading frames from
connections; the gateway owes nothing. *HttpsClient*: parser, clock and one
second timer; the network owes nothing. *WhenAny*: none; instead of
liveness `NobodyStranded` says that whoever is owed a wakeup is not left when
every thread has come to rest, and every behaviour of the instance is finite. *WebSocket*: the
loop and the writer weakly; TCP has room again after some time, and `SSL_write`
strongly, because it succeeds whenever it is called with room; the server owes
nothing. *VoiceReceive*: the loop, the courier and each caller of `cleanup`
weakly; no packet and no cleanup has to come.

## What disagrees with the documentation

1. **A request may run twice** (`rest_twice`). Posting thread and timer both
   copy raw pointers of `requests_in` under a shared lock, then run them.
   `queues.h:433-434` says it is thread safe to use from anywhere.
2. **Missed heartbeat acks do not reconnect** (`gateway_ack`): only the
   descriptor is closed, nobody is told. (The guard also compares
   seconds with milliseconds.)
3. **A late voice packet is heard out of order** (`voice_late`): every packet,
   and not only one with a larger value, sets the maximum of the range.

`PROJECT.json` quotes the lines. More are in the models, as steps they take and
exceptions their properties make, without a run of their own:

4. **A one-shot timer may tick twice**: its callback stops `th`, which the
   constructor may not have stored yet (`timer.cpp:116`, `timer.h:107`;
   `misread`, which `OneshotTicksOnce` excepts).
5. **`shutdown` may drain the timers under a running loop**: after
   `start(st_wait)` there is no thread to join, and `tick_timers` looks at
   the top of an empty queue (`cluster.cpp:451`, `cluster.h:362-363`; excepted
   by `TopDefined`).
6. **A completion job notifies a destroyed request**: `this_captured` is reset
   before `notify_all` (`queues.cpp:285`, `queues.h:256`; a job at "notify",
   excepted by `FreedWhenDone`).
7. **Rate limits are overrun**: `remaining` is not counted down between replies
   (`queues.cpp:382`, `queues.h:615-616`).
8. **The global rate limit is never set** (`queues.cpp:258`): the completion
   reads `rv`, captured before the request was sent, in place of `result`
   (`Limited` of `RestQueue`; `queues.h:589-590`).
9. **A request whose client can not be constructed is lost** (`queues.cpp:290`):
   no callback, never completed, never freed (`Unconnected`, which
   `RequestsComplete` excepts; `queues.h:377`).
10. **A failed reconnection crashes the next attempt**: the monitor dereferences
   the null shard that the failed attempt left (`MonitorCrashes`;
   `cluster.cpp:242`, `cluster.h:208-209`; `ClosedIsReplaced` is about
   behaviours that do not crash).
11. **Exceptions forget awaiters**: what `resume_awaiters` has claimed when a
   predicate or a resumed coroutine throws stays suspended for ever
   (`event_router.h:384`, `410`, against `347`; `forgotten`, which
   `AwaitersAlive` and `NobodyStranded` except).
12. **Exceptions end an event early**: `handle_coro` leaves task handlers
   suspended on it (`event_router.h:334`, against `341`; `threw`, which
   `ReferencesValid` excepts).
13. **A blocked `SSL_write` is not watched for** when the read served in the same
   round finds part of a record (`sslconnection.cpp:404`, against `578`;
   `PendingIsArmed` speaks of `obuffer` only).
14. **After a reconnection voice is parked for ever**: the `terminating` of the
   shared state is never reset (`cleanup.cpp:47`, `discordvoiceclient.h:415`).
15. **A pending payload is lost at the end**: `read_ready` may park one when the
   courier has ended (`cleanup.cpp:50`, `discordvoiceclient.h:422`).
   `CourierServes` speaks of payloads parked before termination.

### Hazards without a property

Besides those `PROJECT.json` notes. In the models, but no document promises
otherwise: a delayed identify timer whose client has been replaced
(`discordclient.cpp:275`); bytes that came with the upgrade's response and wait
for the next read (`wsclient.cpp:167`); TLS errors that neither close nor ask for
another event (`sslconnection.cpp:594`); a stale snapshot that dereferences a
destroyed request (`queues.cpp:374`); a courier that is joined twice, or started
after the join and destroyed joinable (`cleanup.cpp:44`); a shard that cannot be
started, after which neither it nor those behind it are tried again
(`cluster.cpp:357`); shards that wait for the same second and then identify
together (`discordclient.cpp:274`); a purge missed because no tick returned in
its second (`queues.cpp:315`); a payload that can not
be decrypted, after which packets are parked and never heard
(`courier_loop.cpp:220`); tasks of equal
priority that do not leave the pool in order (`thread_pool.cpp:47`).
Outside the models: the map of buckets read and written without a lock
(`queues.cpp:376`); a task dropped while it finishes on another thread
(`task.h:118`); `sync_wait`'s notification without the mutex (`awaitable.h:727`);
`timed_out` set after the callback was called
(`httpsclient.cpp:342`); header and payload of frames written by two threads
(`wsclient.cpp:131`); a descriptor's number closed twice
(`sslconnection.cpp:614`); `obuffer` cleared by `close` without its mutex
(`sslconnection.cpp:698`); a compressed frame without a flush marker
(`discordclient.cpp:169`); a partial send in plaintext (`sslconnection.cpp:528`);
duplicated packets and late ones after the wrap-around, which make the courier
report some 65,000 losses (`courier_loop.cpp:139`); a speaker who never pauses and
so keeps the destructor in its join (`courier_loop.cpp:81`); a handler that
disconnects and so joins its own thread (`courier_loop.cpp:265`); a marker sent before its
metadata exists (`discordvoiceclient.cpp:353`); `on_stop` callbacks that use
timers while `shutdown` holds their lock (`cluster.cpp:461`); batches of shards
with `max_concurrency` above 1 (`cluster.cpp:372`); readers that hold a cached
object for more than a minute (`cache.cpp:60`).

## What is proved

Every invariant that a passing run checks but `NobodyStranded`, and the
refinement of `TaskPool`, is also a theorem, for every value of the constants;
two of these, and two more theorems, have a premise on the constants, said below.
The assumptions are only those on
the constants, stated in the module that declares them and evaluated by TLC in
the runs. Most say that a bound is a
number. The others: endpoints are numbers other than 0, which stands for a
request not posted (`RestQueueAssumption`); a response that announces no body
has none (`HttpsClientAssumption`); a data frame has a header and a payload, two
units at least (`WebSocketAssumption`); no run of lost packets is as long as a
turn of the sequence number, `MaxGap + 1 < SeqMod` (`VoiceAssumption`), without
which the courier can not tell a packet from one of the turn before.

Hardly any of the properties is inductive. Each proof module defines an invariant
that is, in parts that say something of their own, with one lemma per part and
one step per action, each part using those before it.

**TimersProofs**, for any number of timers, any frequencies, clock and lag:
`TypeCorrect`, `Conservation`, `StopsAreHonoured`, `OneshotsTickOnce`,
`QueueNeverEmpty` and `Punctuality`, whatever `th` holds and whether or not
`shutdown` joins the loop. `Inv` adds
`HandleInv` (handles in use are below `next_handle`, unused ones have no
history, the service timer never throws), `CurInv` (what the loop's place
says of `cur_timer`), `PlaceInv` (every timer is somewhere, those held by
`start_timer` or the queue nowhere else, no handle twice), `StopInv`,
`TickInv` (a timer about to tick has no late tick yet; a one-shot timer that
ticked is stopped, misread, thrown or still running its callback) and `TimeInv`
(each record is on the schedule of its count of ticks, one period on while
it is being called).

**RestQueueProofs**, for any number of requests, endpoints, queues and threads:
`TypeCorrect` and `OwnedAndSorted`.
`VectorInv` says where a posted request is (`HomeInv`, `KeptInv`) and that a
vector is sorted without repetition (`OrderInv`), which is what
`lower_bound` needs to insert and to find. `AtMostOnceAlone` and `FreedAlone` have
the premise `Users = {}`: only the event loop's thread posts. Without it they
are false, as `rest_twice` shows. `LoopInv` then says that the snapshot
is a part of `requests_in` (`ViewInv`), that what waits has not been run but for
the request about to be removed (`WaitingInv`), and in which stage of its life a
request is (`LifeInv`, `JobInv`). `FreedAlone` speaks of all that refers to a
request but the `notify_all` of a job (6 above).

**ThreadPoolProofs**, for any number of workers and tasks: `TypeCorrect`,
`Conservation`, `Wakeups`, `DrainedAtEnd` and `Refinement`,
`Spec => Pool!PoolSpec`. `Inv` adds
`WorkerInv` (a worker has a task iff it runs one; it exits only after
`stop`) and `AliveInv` (not all workers have left while tasks are queued).
`Refinement` shows each action to be one of `TaskPool` or a stutter; that
`TakeTask` is a `Start` rests on the order of the priority queue, that `Joined`
is a `Close` on `AliveInv` and conservation.

**GatewayProofs**, for any number of shards and events, any lag and any number
of frames on their way: `TypeCorrect`, `AlwaysListed`, `SessionsKept` and
`NoEventLost`. `Good` relates, for one shard, the client, the frames, the
request, the gateway's session and the history: the frames carry on, number by
number, from what the client has handled (`Counted`) to where the session
stands, or to the news that it is over (`Doomed`); a request to resume names
what was handled; a client that waits for its identify timer is silent and has
no session. Each operation has a lemma about these values alone, and one that
applies it to the action. `NotStarted` says that shards not yet started do not
exist, so that starting one replaces no client.

**HttpsClientProofs**, for all responses (any number of chunks of any size),
all cuts and timeouts: `TypeCorrect`, `ExactlyOnce` and `BodyAsSent`. `CallInv`
adds that the callback is set iff the client is not done, and that an open
socket or a running parser implies it is set. `ParseInv` says for each state of the
parser how many tokens of the stream it has taken and how much body that gave
(`Parsed`), and that the buffer and what is to come are the rest (`Left`);
`ReportInv` compares the body with the one sent. The places of the chunks are
partial sums of their sizes.

**WhenAnyProofs**, for any number of arguments, events and listeners:
`TypeCorrect`, `AwaitersSafe`, `ResultUnique` and `EventsOutlive`, exceptions
included; `NoneForgotten` and `EventKept` when nothing throws. `AwaiterInv`
says how `awaitable::state`, the place in `cancel` and the two vectors agree,
and that one call at most is to resume an awaiter; `EventInv` that a handler
runs only in the loop over the listeners; `ResultInv` that one job at most is
between its `fetch_or(done)` and its `fetch_or(ready)` and that the
destructor's plain store leaves a flag that stops every later one.

**WebSocketProofs**, for the connection and the websocket on it, any size of
buffer and frames: `TypeCorrect`, `OutputIntact`, `NoLostWrite` and
`FramesWhole`. `Aligned` is `StreamIntact` unit by unit. `EngineInv` says, for
every place of the loop and of the writer, who has the duty to ask epoll for
the write event (`FlagInv` for a flag that is set, `PendingInv` for data that
waits), since the property speaks only of a loop at rest. `NoLostWrite` says
nothing of a connection whose TLS error was passed over (`swallowed`). `InputInv` adds that the
frames that wait are complete at their end too (`Laid`), and what may
wait before the upgrade (`Waiting`, `BeforeHandshake`).

**VoiceReceiveProofs**, for any number of speakers, packets and turns of the
sequence number, whoever calls `cleanup` meanwhile: `TypeCorrect` and
`HeardAsSent`. `PlaceInv` says where each
parked payload is. `OrderInv` is about a speaker whose packets came in order: from
the first packet and the number of events heard follows which packet the courier has
come to, what is in `flush_data` and what in `parked_payloads`, and which sequence
number is next.

No proof uses an induction theorem with an operator as its parameter. Where data
has any length (a stream of chunks, a vector, a run of packets), the proofs
take the least counterexample, which exists because the order of the natural
numbers is well-founded (`WFMin`), and refute it.

### Only model-checked

Liveness, which rests on fairness and `ENABLED`: `Served`, `RequestsComplete`,
`EveryTaskRuns`, `DestructorReturns`, `ClosedIsReplaced`, `CallsBack`,
`DataMoves` and `CourierServes`; and `NobodyStranded`, which names `ENABLED`. And the counterexamples
of the runs that expect a violation.

## What is not modelled

Cryptography, Opus, zlib, ETF and DNS (libraries or byte formats); DAVE, which
follows the vendored MLS library; JSON records, generated REST wrappers and the
command handler (data or sequential text without state); the cache, whose maps
have a lock each and whose freed objects are a matter of what the bot holds on
to; collectors, whose races are in the bot's own class; the HTTP server, which
repeats `HttpsClient` and `SslConnection`; builds, tests and examples. In the
modelled parts: a callback that throws while `shutdown` drains, timers used from
`on_stop` during the drain, the order of destruction of the cluster, outgoing
gateway messages and their pace, `max_concurrency` above 1, several clusters,
compression, `connect`'s retries, plaintext and accepted connections, several
descriptors with reused numbers, the engines for poll and kqueue, fragmented and
masked frames, `dpp::task` and `sync_wait`, and the sending side of voice.

## Plan

The components worth a model are there, and their safety is proved. What
remains would say the same things at a higher level:

1. An abstract stream (written, delivered, closed) that `SslConnection`
   implements, with what `Aligned` says as the refinement mapping.
2. An abstract request (posted, sent, answered, freed) that `RestQueue`
   implements when one thread posts.
3. The lemmas that several proof modules repeat (the least number of a set,
   parts of sequences) in one place.
