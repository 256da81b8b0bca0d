------------------------------- MODULE Timers -------------------------------
(***************************************************************************)
(* The cluster's timers: cluster::start_timer, cluster::stop_timer,        *)
(* cluster::tick_timers, oneshot_timer, the part of                        *)
(* socket_engine_base::prune that ticks them and the part of               *)
(* cluster::shutdown that drains them.                                     *)
(*                                                                         *)
(* One thread, the event loop, runs tick_timers.  start_timer and          *)
(* stop_timer may be called at any moment by any thread, the event loop's  *)
(* own callbacks included.  Every critical section of timer_guard is one   *)
(* action; on_tick and on_stop run with the mutex released, so everything  *)
(* else may happen between their beginning and their end.                  *)
(*                                                                         *)
(* Undefined behaviour: the callback of a oneshot_timer that is called     *)
(* before the constructor has stored the handle in th reads an             *)
(* uninitialised member (Junk), and top() of an empty queue, where the     *)
(* loop stops (TopDefined).                                                *)
(*                                                                         *)
(* Not modelled: a callback that throws while shutdown drains the queue,   *)
(* the destructor of the cluster, which stops the service timer, and what  *)
(* a tick that begins after ~oneshot_timer does with the destroyed object. *)
(***************************************************************************)
EXTENDS Naturals, FiniteSets

CONSTANTS
    MaxTimers,    \* bound: handles given out in one behaviour
    MaxTime,      \* bound: last second of the clock
    MaxLag,       \* bound: seconds the event loop may fall behind the clock
    Frequencies,  \* frequencies that callers pass to start_timer
    CanThrow,     \* may a user's on_tick or on_stop throw?
    ReturnAfter,  \* what cluster::start was called with: who runs the loop?
    Junk          \* what an uninitialised oneshot_timer::th may hold; {} when
                  \* th is always stored before the timer's first tick

ASSUME TimersAssumption ==
    /\ MaxTimers \in Nat \ {0}
    /\ MaxTime \in Nat
    /\ MaxLag \in Nat \ {0}
    /\ Frequencies \subseteq Nat \ {0}
    /\ CanThrow \in BOOLEAN
    /\ ReturnAfter \in {"st_return", "st_wait"}
    /\ Junk \subseteq Nat

Handle == 1..MaxTimers

\* The timer of a request_concurrency_queue, started by the cluster's
\* constructor.  It is stopped only by the cluster's destructor, its callback
\* catches what it throws, and it keeps next_timer from becoming empty.
ServiceTimer == 1

Kinds == {"periodic", "oneshot"}
TimerRec == [handle : Handle, next_tick : Nat, frequency : Nat \ {0}]
NoTimer == [handle |-> 0, next_tick |-> 0, frequency |-> 0]

VARIABLES
    now,            \* time(nullptr)
    last_time,      \* socketengine.cpp's last_time
    next_handle,    \* the next handle start_timer gives out
    starting,       \* timers made by start_timer and not yet in the queue
    unset,          \* oneshot_timers in the queue whose th is not stored yet
    next_timer,     \* the priority queue, as a set
    deleted_timers, \* handles stop_timer has been called for
    terminating,    \* cluster::terminating
    drained,        \* has shutdown drained the queue?
    pc,             \* where the event loop is in tick_timers
    tick_now,       \* tick_timers' local now
    cur_timer,      \* tick_timers' local cur_timer
    \* History, not state of the code:
    kind,           \* how the timer was made
    started,        \* when it was made
    ticks,          \* how many calls of on_tick have begun
    late,           \* how many of them began after stop_timer returned
    stops,          \* how many calls of on_stop have been made
    stopped,        \* handles for which a call of stop_timer has returned,
                    \* also of values that are no timer's
    thrown,         \* handles whose on_tick has thrown
    misread         \* oneshot_timers whose callback found th not stored yet

loopVars == <<last_time, pc, tick_now, cur_timer>>
histVars == <<kind, started, ticks, late, stops, stopped, thrown, misread>>
vars == <<now, next_handle, starting, unset, next_timer, deleted_timers,
          terminating, drained, loopVars, histVars>>

PCs == {"idle", "top", "check", "tick", "running", "reinsert", "stop",
        "erase", "exited"}

\* Where tick_timers holds a timer outside the queue.
Holding == {"check", "tick", "running", "reinsert", "stop", "erase"}

TypeOK ==
    /\ now \in Nat
    /\ last_time \in Nat
    /\ next_handle \in 1..(MaxTimers + 1)
    /\ starting \subseteq TimerRec
    /\ unset \subseteq Handle
    /\ next_timer \subseteq TimerRec
    /\ deleted_timers \subseteq Handle \union Junk
    /\ terminating \in BOOLEAN
    /\ drained \in BOOLEAN
    /\ pc \in PCs
    /\ tick_now \in Nat
    /\ cur_timer \in IF pc \in Holding THEN TimerRec ELSE {NoTimer}
    /\ kind \in [Handle -> Kinds]
    /\ started \in [Handle -> Nat]
    /\ ticks \in [Handle -> Nat]
    /\ late \in [Handle -> Nat]
    /\ stops \in [Handle -> Nat]
    /\ stopped \subseteq Handle \union Junk
    /\ thrown \subseteq Handle
    /\ misread \subseteq Handle

\* The event loop starts with the service timer registered.
Init ==
    /\ now = 0
    /\ last_time = 0
    /\ next_handle = 2
    /\ starting = {}
    /\ unset = {}
    /\ next_timer = {[handle |-> ServiceTimer, next_tick |-> 1, frequency |-> 1]}
    /\ deleted_timers = {}
    /\ terminating = FALSE
    /\ drained = FALSE
    /\ pc = "idle"
    /\ tick_now = 0
    /\ cur_timer = NoTimer
    /\ kind = [h \in Handle |-> "periodic"]
    /\ started = [h \in Handle |-> 0]
    /\ ticks = [h \in Handle |-> 0]
    /\ late = [h \in Handle |-> 0]
    /\ stops = [h \in Handle |-> 0]
    /\ stopped = {}
    /\ thrown = {}
    /\ misread = {}

-----------------------------------------------------------------------------
(* The clock.  One call of tick_timers takes at most MaxLag seconds, and   *)
(* so does what the loop does between two of them.                         *)

InTick == pc \notin {"idle", "exited"}

ClockTick ==
    /\ now < MaxTime
    /\ InTick => now < tick_now + MaxLag
    /\ pc = "idle" => now < last_time + MaxLag
    /\ now' = now + 1
    /\ UNCHANGED <<next_handle, starting, unset, next_timer, deleted_timers,
                   terminating, drained, loopVars, histVars>>

-----------------------------------------------------------------------------
(* Calls that any thread may make at any time.                             *)

\* next_handle++ yields the old value.
NewHandle_preincrement == next_handle + 1
NewHandle == next_handle

\* start_timer, up to the lock: the handle and the first tick are fixed.
StartTimer(f, k) ==
    /\ next_handle <= MaxTimers
    /\ next_handle' = next_handle + 1
    /\ starting' = starting \union
            {[handle |-> NewHandle, next_tick |-> now + f, frequency |-> f]}
    /\ kind' = [kind EXCEPT ![next_handle] = k]
    /\ started' = [started EXCEPT ![next_handle] = now]
    /\ UNCHANGED <<now, unset, next_timer, deleted_timers, terminating, drained,
                   loopVars, ticks, late, stops, stopped, thrown, misread>>

\* start_timer, under the lock; then it returns the handle.
InsertTimer(t) ==
    /\ t \in starting
    /\ starting' = starting \ {t}
    /\ next_timer' = next_timer \union {t}
    /\ unset' = unset \union {h \in {t.handle} : Junk # {} /\ kind[h] = "oneshot"}
    /\ UNCHANGED <<now, next_handle, deleted_timers, terminating, drained, loopVars,
                   histVars>>

\* oneshot_timer's constructor stores the handle that start_timer returned.
StoreHandle(h) ==
    /\ h \in unset
    /\ unset' = unset \ {h}
    /\ UNCHANGED <<now, next_handle, starting, next_timer, deleted_timers,
                   terminating, drained, loopVars, histVars>>

\* stop_timer only records the handle, whether or not such a timer exists.
StopTimer(h) ==
    /\ h < next_handle /\ h # ServiceTimer
    /\ h \notin unset /\ \A t \in starting : t.handle # h
    /\ deleted_timers' = deleted_timers \union {h}
    /\ stopped' = stopped \union {h}
    /\ UNCHANGED <<now, next_handle, starting, unset, next_timer, terminating, drained,
                   loopVars, kind, started, ticks, late, stops, thrown, misread>>

-----------------------------------------------------------------------------
(* The event loop.                                                         *)

\* The last statements of prune, once tick_timers has returned or thrown.
LeaveTick ==
    /\ pc' = "idle"
    /\ last_time' = now
    /\ cur_timer' = NoTimer
    /\ UNCHANGED tick_now

\* prune: a new second has begun; tick_timers reads the clock once.
Prune ==
    /\ pc = "idle"
    /\ now # last_time
    /\ tick_now' = now
    /\ IF next_timer = {}
       THEN /\ last_time' = now
            /\ UNCHANGED pc
       ELSE /\ pc' = "top"
            /\ UNCHANGED last_time
    /\ UNCHANGED <<now, next_handle, starting, unset, next_timer, deleted_timers,
                   terminating, drained, cur_timer, histVars>>

\* next_timer.top(): any of the timers that are due first.
Tops_maxHeap == {t \in next_timer : \A u \in next_timer : t.next_tick >= u.next_tick}
Tops == {t \in next_timer : \A u \in next_timer : t.next_tick <= u.next_tick}

IsDue(t) == t.next_tick <= tick_now

AfterPop_topOnly(t) == next_timer
AfterPop(t) == next_timer \ {t}

TickPop ==
    /\ pc = "top"
    /\ \E t \in Tops :
        /\ IsDue(t)
        /\ cur_timer' = t
        /\ next_timer' = AfterPop(t)
    /\ pc' = "check"
    /\ UNCHANGED <<now, next_handle, starting, unset, deleted_timers, terminating, drained,
                   last_time, tick_now, histVars>>

TickBreak ==
    /\ pc = "top"
    /\ \E t \in Tops : ~ IsDue(t)
    /\ LeaveTick
    /\ UNCHANGED <<now, next_handle, starting, unset, next_timer, deleted_timers,
                   terminating, drained, histVars>>

IsDeleted(h) == h \in deleted_timers

\* deleted_timers.find(cur_timer.handle)
TickCheck_erases ==
    /\ pc = "check"
    /\ pc' = IF IsDeleted(cur_timer.handle) THEN "stop" ELSE "tick"
    /\ deleted_timers' = deleted_timers \ {cur_timer.handle}
    /\ UNCHANGED <<now, next_handle, starting, unset, next_timer, terminating, drained,
                   last_time, tick_now, cur_timer, histVars>>

TickCheck ==
    /\ pc = "check"
    /\ pc' = IF IsDeleted(cur_timer.handle) THEN "stop" ELSE "tick"
    /\ UNCHANGED <<now, next_handle, starting, unset, next_timer, deleted_timers,
                   terminating, drained, last_time, tick_now, cur_timer, histVars>>

\* on_tick is called ...
TickBegin ==
    /\ pc = "tick"
    /\ pc' = "running"
    /\ ticks' = [ticks EXCEPT ![cur_timer.handle] = @ + 1]
    /\ late' = IF cur_timer.handle \in stopped
               THEN [late EXCEPT ![cur_timer.handle] = @ + 1]
               ELSE late
    /\ UNCHANGED <<now, next_handle, starting, unset, next_timer, deleted_timers,
                   terminating, drained, last_time, tick_now, cur_timer,
                   kind, started, stops, stopped, thrown, misread>>

StopsItself_never(h) == FALSE
StopsItself(h) == kind[h] = "oneshot"

\* What the callback of a oneshot_timer may read in th.
ReadHandle(h) == IF h \in unset THEN Junk ELSE {h}

\* ... and returns; a oneshot_timer's callback ends by stopping the timer in th
\* (co_sleep's stops the handle it was called with, like one that is stored).
TickReturn ==
    /\ pc = "running"
    /\ pc' = "reinsert"
    /\ IF StopsItself(cur_timer.handle)
       THEN \E th \in ReadHandle(cur_timer.handle) :
                /\ deleted_timers' = deleted_timers \union {th}
                /\ stopped' = stopped \union {th}
                /\ misread' = misread \union ({cur_timer.handle} \intersect unset)
       ELSE UNCHANGED <<deleted_timers, stopped, misread>>
    /\ UNCHANGED <<now, next_handle, starting, unset, next_timer, terminating, drained, last_time,
                   tick_now, cur_timer, kind, started, ticks, late, stops,
                   thrown>>

NextTick_fromNow(t) == now + t.frequency
NextTick(t) == t.next_tick + t.frequency

Reinserted_ifBehind(t) == {u \in {[t EXCEPT !.next_tick = NextTick(t)]} : u.next_tick <= now}
Reinserted(t) == {[t EXCEPT !.next_tick = NextTick(t)]}

TickReinsert ==
    /\ pc = "reinsert"
    /\ next_timer' = next_timer \union Reinserted(cur_timer)
    /\ pc' = "top"
    /\ cur_timer' = NoTimer
    /\ UNCHANGED <<now, next_handle, starting, unset, deleted_timers, terminating, drained,
                   last_time, tick_now, histVars>>

\* on_tick throws: prune catches it, and cur_timer has not been put back.
TickThrow ==
    /\ CanThrow
    /\ pc = "running"
    /\ cur_timer.handle # ServiceTimer
    /\ thrown' = thrown \union {cur_timer.handle}
    /\ LeaveTick
    /\ UNCHANGED <<now, next_handle, starting, unset, next_timer, deleted_timers,
                   terminating, drained, kind, started, ticks, late, stops, stopped,
                   misread>>

StopRun ==
    /\ pc = "stop"
    /\ stops' = [stops EXCEPT ![cur_timer.handle] = @ + 1]
    /\ pc' = "erase"
    /\ UNCHANGED <<now, next_handle, starting, unset, next_timer, deleted_timers,
                   terminating, drained, last_time, tick_now, cur_timer,
                   kind, started, ticks, late, stopped, thrown, misread>>

\* on_stop throws: the handle stays in deleted_timers.
StopThrow ==
    /\ CanThrow
    /\ pc = "stop"
    /\ stops' = [stops EXCEPT ![cur_timer.handle] = @ + 1]
    /\ LeaveTick
    /\ UNCHANGED <<now, next_handle, starting, unset, next_timer, deleted_timers,
                   terminating, drained, kind, started, ticks, late, stopped, thrown, misread>>

StopErase ==
    /\ pc = "erase"
    /\ deleted_timers' = deleted_timers \ {cur_timer.handle}
    /\ pc' = "top"
    /\ cur_timer' = NoTimer
    /\ UNCHANGED <<now, next_handle, starting, unset, next_timer, terminating, drained, last_time,
                   tick_now, histVars>>

-----------------------------------------------------------------------------
(* cluster::shutdown, called by a thread that is not the event loop, or    *)
(* also by one of its callbacks when engine_thread never started.          *)

Shutdown ==
    /\ ~terminating
    /\ terminating' = TRUE
    /\ UNCHANGED <<now, next_handle, starting, unset, next_timer, deleted_timers,
                   drained, loopVars, histVars>>

\* The event loop's while condition.
LoopExit ==
    /\ pc = "idle"
    /\ terminating
    /\ pc' = "exited"
    /\ UNCHANGED <<now, next_handle, starting, unset, next_timer, deleted_timers,
                   terminating, drained, last_time, tick_now, cur_timer, histVars>>

\* on_stop of every timer still queued, under timer_guard.  engine_thread is
\* joined before; after start(st_wait) there is none, and the loop goes on.
Drain ==
    /\ terminating /\ ~ drained
    /\ ReturnAfter = "st_return" => pc = "exited"
    /\ drained' = TRUE
    /\ stops' = [h \in Handle |->
            stops[h] + IF \E t \in next_timer : t.handle = h THEN 1 ELSE 0]
    /\ next_timer' = {}
    /\ UNCHANGED <<now, next_handle, starting, unset, deleted_timers, terminating,
                   loopVars, kind, started, ticks, late, stopped, thrown, misread>>

-----------------------------------------------------------------------------
LoopStep ==
    \/ Prune \/ TickPop \/ TickBreak \/ TickCheck \/ TickBegin \/ TickReturn
    \/ TickReinsert \/ TickThrow \/ StopRun \/ StopThrow \/ StopErase
    \/ LoopExit

Next ==
    \/ ClockTick
    \/ \E f \in Frequencies, k \in Kinds : StartTimer(f, k)
    \/ \E t \in starting : InsertTimer(t)
    \/ \E h \in unset : StoreHandle(h)
    \/ \E h \in Handle : StopTimer(h)
    \/ LoopStep
    \/ Shutdown
    \/ Drain

Spec == Init /\ [][Next]_vars

\* The event loop never blocks for ever, the clock goes on, and a call of
\* start_timer or shutdown that has begun is finished; nothing forces a user
\* to start or stop a timer or to shut the cluster down.
FairSpec ==
    /\ Spec
    /\ WF_vars(LoopStep)
    /\ WF_vars(ClockTick)
    /\ WF_vars(\E t \in starting : InsertTimer(t))
    /\ WF_vars(Drain)

-----------------------------------------------------------------------------
(* Properties.                                                             *)

Created(h) == h < next_handle
Starting(h) == \E t \in starting : t.handle = h
Queued(h) == \E t \in next_timer : t.handle = h

\* No timer is lost and none is duplicated, whatever start_timer, stop_timer
\* and callbacks do while tick_timers holds one outside the queue: a timer
\* that was started is in next_timer exactly once, or is cur_timer, or was
\* retired through on_stop, or its on_tick threw; one that start_timer or the
\* queue holds is none of the others.
TimersConserved ==
    \A h \in Handle : Created(h) =>
        /\ \/ Starting(h) \/ Queued(h) \/ cur_timer.handle = h
           \/ stops[h] = 1 \/ h \in thrown
        /\ Starting(h) \/ Queued(h) => /\ cur_timer.handle # h
                                       /\ stops[h] = 0
                                       /\ h \notin thrown
        /\ \A t, u \in starting \union next_timer :
                t.handle = h /\ u.handle = h => t = u
        /\ ~ (Starting(h) /\ Queued(h))

\* What became of a stop: on_stop is called at most once per timer, and only
\* for a timer that was stopped or that shutdown drained; until then
\* deleted_timers does not forget the request.
RetiredOnce ==
    \A h \in Handle :
        /\ stops[h] <= 1
        /\ stops[h] = 1 => h \in stopped \/ drained

StopRemembered ==
    \A h \in stopped \intersect Handle :
        stops[h] = 0 /\ h \notin thrown => h \in deleted_timers

OneLateTick == \A h \in Handle : late[h] <= 1

\* A stop is honoured: it is remembered until on_stop is called, once.  After
\* stop_timer has returned at most one more on_tick begins, the one
\* tick_timers had decided on when it looked at deleted_timers; the
\* reinsertion after it does not revive the timer.  This holds also for a
\* handle that a oneshot_timer stops by mistake, and while shutdown drains the
\* queue beside the loop.
StopHonoured == RetiredOnce /\ StopRemembered /\ OneLateTick

\* The callback of a oneshot_timer is "called only once" (timer.h:107), however
\* late the loop is: it is stopped at the end of its callback and put back into
\* the queue afterwards.  Not so when its first tick came before the constructor
\* had stored the handle: the callback has then stopped some other one.
OneshotTicksOnce ==
    \A h \in Handle : kind[h] = "oneshot" /\ ticks[h] > 1 => h \in misread

NoDrift ==
    \A t \in next_timer :
        t.next_tick = started[t.handle] + (ticks[t.handle] + 1) * t.frequency

NotEarly ==
    /\ cur_timer # NoTimer => cur_timer.next_tick <= now
    /\ \A t \in next_timer :
        started[t.handle] + ticks[t.handle] * t.frequency <= now

\* Ticks do not drift, are not skipped and are not early: the next tick of a
\* queued timer is due a whole number of periods after it was started, however
\* late earlier ticks ran, and n ticks of period f have begun only when n * f
\* seconds have passed.
Punctual == NoDrift /\ NotEarly

\* tick_timers never evaluates top() of an empty queue: the service timer is in
\* the queue whenever tick_timers looks at the top, unless an uninitialised th
\* has stopped it or, after start(st_wait), shutdown has drained the queue
\* beside the loop.
TopDefined ==
    pc = "top" /\ next_timer = {} =>
        ServiceTimer \in stopped \/ (ReturnAfter = "st_wait" /\ drained)

\* The loop looks at a timer at most 2 * MaxLag seconds late, and every user
\* timer that throws puts off the others once more.  The bounded clock leaves
\* time for the loop to serve t all the same.
Throws == IF CanThrow THEN MaxTimers - 1 ELSE 0
Slack == 2 * MaxLag * (Throws + 1)
TimeFor(t) == t.next_tick + Slack <= MaxTime + 1 /\ now + Slack <= MaxTime

\* A timer that is due is taken from the queue although other timers are
\* added, stopped, reinserted or throw meanwhile; and a queued timer that was
\* stopped is retired ("the on_stop lambda will be called", stop_timer's note).
\* After shutdown has drained the queue nobody serves it.
Served ==
    \A h \in Handle :
        /\ \A k \in 0..MaxTime :
            (\E t \in next_timer : t.handle = h /\ t.next_tick = k /\ TimeFor(t))
                ~> \/ ~ \E t \in next_timer : t.handle = h /\ t.next_tick = k
                   \/ drained
        /\ (h \in deleted_timers /\ \E t \in next_timer : t.handle = h /\ TimeFor(t))
                ~> stops[h] = 1 \/ drained

=============================================================================
