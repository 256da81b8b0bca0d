------------------------------ MODULE RestQueue ------------------------------
(***************************************************************************)
(* The REST request queues: request_queue, request_concurrency_queue and   *)
(* the life of an http_request, from post_request over                     *)
(* tick_and_deliver_requests and the reply to the completion callback in   *)
(* the thread pool and the purge of completed requests.                    *)
(*                                                                         *)
(* Any thread may post; the event loop's thread runs the queues' timers    *)
(* and receives the replies; pool threads run the completion callbacks.    *)
(* Every critical section of in_mutex is one action.  Times are kept as    *)
(* the seconds that are left, so no bound on the clock is needed.          *)
(***************************************************************************)
EXTENDS Naturals, Sequences, FiniteSets, SequencesExt

CONSTANTS
    Requests,      \* requests of one behaviour, each posted at most once
    Endpoints,     \* endpoints, a set of numbers: their order is the vector's
    Queues,        \* the pool of concurrency queues
    QueueOf(_),    \* hash(endpoint) % in_queue_pool_size
    Users,         \* threads other than the event loop's that post requests
    Loop,          \* the event loop's thread
    MaxRemaining,  \* bound: x-ratelimit-remaining in a reply
    MaxWait,       \* bound: seconds a reply asks to wait
    MaxLate,       \* bound: ticks a queue's timer may be behind
    PurgePeriod,   \* 90 in the code
    CanFail        \* may the construction of the https_client throw?

ASSUME RestQueueAssumption ==
    /\ Endpoints \subseteq Nat \ {0}
    /\ Queues # {}
    /\ \A e \in Endpoints : QueueOf(e) \in Queues
    /\ Loop \notin Users
    /\ MaxRemaining \in Nat /\ MaxWait \in Nat
    /\ MaxLate \in Nat /\ PurgePeriod \in Nat \ {0}
    /\ CanFail \in BOOLEAN

Threads == Users \union {Loop}

VARIABLES
    clock,        \* time(nullptr) % PurgePeriod
    due,          \* per queue: ticks of its one-second timer that are due
    requests_in,  \* per queue: requests to be made, sorted by endpoint
    removals,     \* per queue: requests sent and not yet freed
    buckets,      \* per endpoint: the last reply's rate limit, or NoBucket
    globally_ratelimited,
    globally_limited_until, \* seconds left of it
    terminating,
    pc,           \* per thread: where it is in tick_and_deliver_requests
    queue,        \* per thread: this
    requests_view,\* per thread: the local snapshot of requests_in
    in_timer,     \* the loop's call is the timer's, not a post of its own
    inflight,     \* requests whose https_client has yet to call back
    jobs,         \* callbacks given to the thread pool
    captured,     \* http_request::this_captured
    completed,    \* http_request::completed
    freed,        \* requests destroyed by the purge
    \* History, not state of the code:
    endpoint,     \* the endpoint a request was posted for, or NotPosted
    runs,         \* per request: calls of http_request::run
    called        \* per request: calls of its completion callback

timeVars == <<clock, due>>
limitVars == <<buckets, globally_ratelimited, globally_limited_until>>
tickVars == <<pc, queue, requests_view, in_timer>>
jobVars == <<inflight, jobs, captured, completed>>
histVars == <<endpoint, runs, called>>
vars == <<timeVars, requests_in, removals, limitVars, terminating, tickVars,
          jobVars, freed, histVars>>

NotPosted == 0
NoBucket == [remaining |-> 0, left |-> 0, known |-> FALSE]
Bucket == [remaining : 0..MaxRemaining, left : 0..(MaxWait + 1), known : BOOLEAN]
Job == [request : Requests, nth : Nat \ {0}, at : {"queued", "called", "notify"}]

Minus1(n) == IF n = 0 THEN 0 ELSE n - 1

TypeOK ==
    /\ clock \in 0..(PurgePeriod - 1)
    /\ due \in [Queues -> Nat]
    /\ requests_in \in [Queues -> Seq(Requests)]
    /\ removals \in [Queues -> SUBSET Requests]
    /\ buckets \in [Endpoints -> Bucket]
    /\ globally_ratelimited \in BOOLEAN
    /\ globally_limited_until \in 0..(MaxWait + 1)
    /\ terminating \in BOOLEAN
    /\ pc \in [Threads -> {"idle", "gather", "send", "run", "remove", "purge"}]
    /\ queue \in [Threads -> Queues]
    /\ requests_view \in [Threads -> Seq(Requests)]
    /\ in_timer \in BOOLEAN
    /\ inflight \subseteq Requests
    /\ jobs \subseteq Job
    /\ captured \subseteq Requests
    /\ completed \subseteq Requests
    /\ freed \subseteq Requests
    /\ endpoint \in [Requests -> Endpoints \union {NotPosted}]
    /\ runs \in [Requests -> Nat]
    /\ called \in [Requests -> Nat]

Init ==
    /\ clock = 1 % PurgePeriod
    /\ due = [q \in Queues |-> 0]
    /\ requests_in = [q \in Queues |-> <<>>]
    /\ removals = [q \in Queues |-> {}]
    /\ buckets = [e \in Endpoints |-> NoBucket]
    /\ globally_ratelimited = FALSE
    /\ globally_limited_until = 0
    /\ terminating = FALSE
    /\ pc = [t \in Threads |-> "idle"]
    /\ queue = [t \in Threads |-> CHOOSE q \in Queues : TRUE]
    /\ requests_view = [t \in Threads |-> <<>>]
    /\ in_timer = FALSE
    /\ inflight = {} /\ jobs = {} /\ captured = {} /\ completed = {} /\ freed = {}
    /\ endpoint = [r \in Requests |-> NotPosted]
    /\ runs = [r \in Requests |-> 0]
    /\ called = [r \in Requests |-> 0]

-----------------------------------------------------------------------------
\* A second passes, wherever the threads are: one more tick of every queue's
\* timer is due.  A loop that is busy makes up for its ticks later, when the
\* clock may show another second.
Second ==
    /\ \A q \in Queues : due[q] < MaxLate
    /\ clock' = (clock + 1) % PurgePeriod
    /\ due' = [q \in Queues |-> due[q] + 1]
    /\ buckets' = [e \in Endpoints |-> [buckets[e] EXCEPT !.left = Minus1(@)]]
    /\ globally_limited_until' = Minus1(globally_limited_until)
    /\ UNCHANGED <<requests_in, removals, globally_ratelimited, terminating,
                   tickVars, jobVars, freed, histVars>>

-----------------------------------------------------------------------------
(* post_request.                                                           *)

\* std::lower_bound: before the first request whose endpoint is not less.
LowerBound(s, e) ==
    CHOOSE i \in 1..(Len(s) + 1) :
        /\ \A j \in 1..(i - 1) : endpoint[s[j]] < e
        /\ i <= Len(s) => endpoint[s[i]] >= e

\* request_queue::post_request and the insertion; then the posting thread
\* itself runs tick_and_deliver_requests.
PostRequest(t, r, e) ==
    LET q == QueueOf(e) IN
    /\ pc[t] = "idle"
    /\ endpoint[r] = NotPosted
    /\ ~ terminating
    /\ requests_in' = [requests_in EXCEPT ![q] = InsertAt(@, LowerBound(@, e), r)]
    /\ endpoint' = [endpoint EXCEPT ![r] = e]
    /\ pc' = [pc EXCEPT ![t] = "gather"]
    /\ queue' = [queue EXCEPT ![t] = q]
    /\ in_timer' = (in_timer /\ t # Loop)
    /\ UNCHANGED <<timeVars, removals, limitVars, terminating, requests_view,
                   jobVars, freed, runs, called>>

-----------------------------------------------------------------------------
(* tick_and_deliver_requests.                                              *)

\* The timer of queue q calls it, on the event loop's thread.
TimerTick(q) ==
    /\ pc[Loop] = "idle"
    /\ due[q] > 0
    /\ due' = [due EXCEPT ![q] = @ - 1]
    /\ pc' = [pc EXCEPT ![Loop] = "gather"]
    /\ queue' = [queue EXCEPT ![Loop] = q]
    /\ in_timer' = TRUE
    /\ UNCHANGED <<clock, requests_in, removals, limitVars, terminating,
                   requests_view, jobVars, freed, histVars>>

\* Where the thread goes when the function returns: the timer's callback
\* still has to purge, when the clock says so.
Returned(t) ==
    IF t = Loop /\ in_timer /\ clock = 0 THEN "purge" ELSE "idle"

\* The function's beginning, up to the snapshot of requests_in.
Gather(t) ==
    /\ pc[t] = "gather"
    /\ LET go == /\ ~ terminating
                 /\ ~ globally_ratelimited
                 /\ requests_in[queue[t]] # <<>>
       IN  /\ pc' = [pc EXCEPT ![t] = IF go THEN "send" ELSE Returned(t)]
           /\ requests_view' = [requests_view EXCEPT ![t] =
                                    IF go THEN requests_in[queue[t]] ELSE <<>>]
    /\ IF globally_ratelimited /\ ~ terminating /\ globally_limited_until = 0
       THEN globally_ratelimited' = FALSE
       ELSE UNCHANGED globally_ratelimited
    /\ UNCHANGED <<timeVars, requests_in, removals, buckets,
                   globally_limited_until, terminating, queue, in_timer, jobVars, freed,
                   histVars>>

\* The bucket of an endpoint lets its requests through.
MayRun_untimed(e) == buckets[e].known => buckets[e].remaining >= 1
MayRun(e) == buckets[e].known /\ buckets[e].remaining < 1 => buckets[e].left = 0

\* http_request::run: the https_client of an earlier run, if there is one, is
\* replaced and will not call back; when the construction throws, nothing
\* will ever call back.
Run(r) ==
    /\ runs' = [runs EXCEPT ![r] = @ + 1]
    /\ \/ inflight' = inflight \union {r}
       \/ CanFail /\ UNCHANGED inflight

\* The check of the bucket, without a lock: the first of the snapshot may be
\* sent.  The snapshot's pointers are followed as they are, also when another
\* thread has removed the request and the purge destroyed it meanwhile.
PassBucket(t) ==
    /\ pc[t] = "send"
    /\ MayRun(endpoint[Head(requests_view[t])])
    /\ pc' = [pc EXCEPT ![t] = "run"]
    /\ UNCHANGED <<timeVars, requests_in, removals, limitVars, terminating, queue,
                   requests_view, in_timer, jobVars, freed, histVars>>

\* The bucket says to wait: the rest of the snapshot waits too.
HoldBack(t) ==
    /\ pc[t] = "send"
    /\ ~ MayRun(endpoint[Head(requests_view[t])])
    /\ pc' = [pc EXCEPT ![t] = Returned(t)]
    /\ requests_view' = [requests_view EXCEPT ![t] = <<>>]
    /\ UNCHANGED <<timeVars, requests_in, removals, limitVars, terminating, queue,
                   in_timer, jobVars, freed, histVars>>

SendRequest(t) ==
    LET r == Head(requests_view[t]) IN
    /\ pc[t] = "run"
    /\ Run(r)
    /\ pc' = [pc EXCEPT ![t] = "remove"]
    /\ UNCHANGED <<timeVars, requests_in, removals, limitVars, terminating, queue,
                   requests_view, in_timer, jobs, captured, completed, freed,
                   endpoint, called>>

\* The request moves from requests_in to removals, if it is still there: the
\* iterator that std::equal_range and the comparison of pointers find is erased.
AfterErase_moved(s, r) == s
AfterErase_first(s, r) == IF r \in ToSet(s) THEN Tail(s) ELSE s
AfterErase(s, r) ==
    IF r \in ToSet(s) THEN RemoveAt(s, CHOOSE i \in 1..Len(s) : s[i] = r) ELSE s

RemoveRequest(t) ==
    LET q == queue[t]
        r == Head(requests_view[t])
        rest == Tail(requests_view[t])
        found == r \in ToSet(requests_in[q])
    IN
    /\ pc[t] = "remove"
    /\ requests_in' = [requests_in EXCEPT ![q] = AfterErase(@, r)]
    /\ removals' = [removals EXCEPT ![q] = IF found THEN @ \union {r} ELSE @]
    /\ requests_view' = [requests_view EXCEPT ![t] = rest]
    /\ pc' = [pc EXCEPT ![t] = IF rest = <<>> THEN Returned(t) ELSE "send"]
    /\ UNCHANGED <<timeVars, limitVars, terminating, queue, in_timer, jobVars, freed,
                   histVars>>

\* The rest of the timer's callback, every PurgePeriod seconds: completed
\* requests are destroyed; ~http_request waits while this_captured.
Purged_inverted(q) == removals[q] \ completed
Purged(q) == removals[q] \intersect completed

Purge ==
    LET q == queue[Loop] IN
    /\ pc[Loop] = "purge"
    /\ Purged(q) \intersect captured = {}
    /\ removals' = [removals EXCEPT ![q] = @ \ Purged(q)]
    /\ freed' = freed \union Purged(q)
    /\ pc' = [pc EXCEPT ![Loop] = "idle"]
    /\ UNCHANGED <<timeVars, requests_in, limitVars, terminating, queue,
                   requests_view, in_timer, jobVars, histVars>>

-----------------------------------------------------------------------------
(* The reply and the completion callback.                                  *)

\* The https_client's completion, on the event loop's thread.  A connection
\* that failed or timed out has no headers: remaining 0 and wait 0.  The
\* completion reads ratelimit_global from rv, the empty result it captured,
\* and not from the reply.
Limited(global) == FALSE

NewBucket_milliseconds(remaining, wait) ==
    [remaining |-> remaining, left |-> 1000 * wait + 1, known |-> TRUE]
NewBucket(remaining, wait) ==
    [remaining |-> remaining, left |-> wait + 1, known |-> TRUE]

Reply(r, remaining, wait, global) ==
    LET e == endpoint[r] IN
    /\ pc[Loop] = "idle"
    /\ r \in inflight
    /\ inflight' = inflight \ {r}
    /\ buckets' = [buckets EXCEPT ![e] = NewBucket(remaining, wait)]
    /\ globally_ratelimited' = Limited(global)
    /\ globally_limited_until' = IF Limited(global) THEN wait + 1
                                 ELSE globally_limited_until
    /\ captured' = captured \union {r}
    /\ jobs' = jobs \union
            {[request |-> r, nth |-> runs[r], at |-> "queued"]}
    /\ UNCHANGED <<timeVars, requests_in, removals, terminating, tickVars,
                   completed, freed, endpoint, runs, called>>

\* A pool thread: the user's callback, which may throw, then completed.
CallBack(j) ==
    /\ j \in jobs /\ j.at = "queued"
    /\ called' = [called EXCEPT ![j.request] = @ + 1]
    /\ completed' = completed \union {j.request}
    /\ jobs' = (jobs \ {j}) \union {[j EXCEPT !.at = "called"]}
    /\ UNCHANGED <<timeVars, requests_in, removals, limitVars, terminating,
                   tickVars, inflight, captured, freed, endpoint, runs>>

\* Then this_captured is reset, under its mutex.
Release(j) ==
    /\ j \in jobs /\ j.at = "called"
    /\ captured' = captured \ {j.request}
    /\ jobs' = (jobs \ {j}) \union {[j EXCEPT !.at = "notify"]}
    /\ UNCHANGED <<timeVars, requests_in, removals, limitVars, terminating,
                   tickVars, inflight, completed, freed, histVars>>

\* Then this_captured_signal.notify_all(), after the mutex was released.
Notify(j) ==
    /\ j \in jobs /\ j.at = "notify"
    /\ jobs' = jobs \ {j}
    /\ UNCHANGED <<timeVars, requests_in, removals, limitVars, terminating,
                   tickVars, inflight, captured, completed, freed, histVars>>

\* The destructor's first statements: nothing more is accepted or sent.
Terminate ==
    /\ ~ terminating
    /\ terminating' = TRUE
    /\ UNCHANGED <<timeVars, requests_in, removals, limitVars, tickVars, jobVars,
                   freed, histVars>>

-----------------------------------------------------------------------------
TickStep(t) ==
    \/ Gather(t) \/ PassBucket(t) \/ HoldBack(t)
    \/ SendRequest(t) \/ RemoveRequest(t)

AnyReply(r) ==
    \E remaining \in 0..MaxRemaining, wait \in 0..MaxWait, global \in BOOLEAN :
        Reply(r, remaining, wait, global)

JobStep(j) == CallBack(j) \/ Release(j) \/ Notify(j)

Next ==
    \/ Second
    \/ \E t \in Threads, r \in Requests, e \in Endpoints : PostRequest(t, r, e)
    \/ \E q \in Queues : TimerTick(q)
    \/ \E t \in Threads : TickStep(t)
    \/ Purge
    \/ \E r \in Requests : AnyReply(r)
    \/ \E j \in jobs : JobStep(j)
    \/ Terminate

Spec == Init /\ [][Next]_vars

\* The loop and the threads go on, the clock too; https_client's timeout makes
\* every request in flight end; a pool thread takes each job in the end.
FairSpec ==
    /\ Spec
    /\ WF_vars(Second)
    /\ WF_vars(\E q \in Queues : TimerTick(q))
    /\ \A t \in Threads : WF_vars(TickStep(t))
    /\ WF_vars(Purge)
    /\ \A r \in Requests : SF_vars(AnyReply(r))
    /\ WF_vars(\E j \in jobs : JobStep(j))

-----------------------------------------------------------------------------
(* Properties.                                                             *)

Waiting(r) == \E q \in Queues : r \in ToSet(requests_in[q])
Removed(r) == \E q \in Queues : r \in removals[q]

OwnedOnce ==
    \A r \in Requests : endpoint[r] # NotPosted =>
        LET q == QueueOf(endpoint[r]) IN
        /\ Cardinality({i \in DOMAIN requests_in[q] : requests_in[q][i] = r})
             + (IF r \in removals[q] THEN 1 ELSE 0)
             + (IF r \in freed THEN 1 ELSE 0) = 1
        /\ \A p \in Queues \ {q} : r \notin removals[p] \union ToSet(requests_in[p])

SortedByEndpoint ==
    \A q \in Queues : \A i, j \in DOMAIN requests_in[q] :
        i < j => endpoint[requests_in[q][i]] <= endpoint[requests_in[q][j]]

\* Whoever posts and whichever threads deliver at the same time, a posted
\* request is owned exactly once, by the requests_in or the removals of the
\* queue its endpoint belongs to, or it was freed; and requests_in stays sorted
\* by endpoint, which std::equal_range relies on to find the one to remove.
VectorSound == OwnedOnce /\ SortedByEndpoint

\* The purge destroys a request only after its callback was called and returned,
\* when no reply is on its way, no job but one that has only its notify_all left
\* holds it, and no delivery's snapshot still has it to look at, run or remove.
FreedWhenDone ==
    \A r \in freed :
        /\ called[r] >= 1 /\ r \notin inflight /\ r \notin captured
        /\ \A j \in jobs : j.request = r => j.at = "notify"
        /\ \A t \in Threads : pc[t] \in {"send", "run", "remove"} =>
              r \notin ToSet(requests_view[t])

\* A request is run at most once and its callback is called at most once.
AtMostOnce == \A r \in Requests : runs[r] <= 1 /\ called[r] <= 1

\* No https_client exists, or will, that could call back for r.
Unconnected(r) ==
    /\ runs[r] >= 1 /\ called[r] = 0
    /\ r \notin inflight /\ \A j \in jobs : j.request # r

\* A posted request whose callback has not been called, and still may be.
Pending(r) ==
    /\ endpoint[r] # NotPosted /\ called[r] = 0
    /\ ~ Unconnected(r) /\ ~ terminating

\* Every posted request has its callback called in the end, unless its
\* https_client could not be made: also one that stands in the vector behind a
\* request of another endpoint that has to wait, however late the ticks are.
\* A request is posted once, so it is enough that again and again none is pending.
RequestsComplete == []<>(\A r \in Requests : ~ Pending(r))

=============================================================================
