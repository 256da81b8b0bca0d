------------------------------ MODULE WhenAny ------------------------------
(***************************************************************************)
(* when_any over awaitables of an event router and over asyncs: the        *)
(* constructor and its jobs, the awaiter, the result and the destructor,   *)
(* composed with EventRouter.                                              *)
(*                                                                         *)
(* The owner is the coroutine that makes the when_any.  It may co_await it *)
(* once or drop it, and destroys it at the end.  A job runs on the thread  *)
(* that resumes it: that of a call of the event, or of an async's callback *)
(* (co_sleep's timer, a REST reply).  The owner goes on where it was       *)
(* suspended, on the thread of the job that resumes it.                    *)
(*                                                                         *)
(* An owner may throw when it has come to its end; the job that resumed it *)
(* passes the exception on to the thread of the call or of the callback.   *)
(*                                                                         *)
(* Not modelled: a result whose copy constructor throws, and dpp::task as  *)
(* an awaitable.                                                           *)
(***************************************************************************)
EXTENDS EventRouter

CONSTANTS NumJobs   \* sizeof...(Args)

ASSUME WhenAnyAssumption ==
    /\ NumJobs \in Nat \ {0}
    /\ Awaiter \subseteq 1..NumJobs

Job == 1..NumJobs
Async == Job \ Awaiter      \* the arguments that are asyncs
NoIndex == 0

VARIABLES
    promise,        \* flags of each async's promise
    job,            \* where each job is
    by,             \* the call whose thread runs the job: awaitable::event
    owner_state,    \* state_t::owner_state, as the set of its flags
    index_finished,
    owner,          \* where the owner is
    next,           \* the argument the constructor or destructor has come to
    destroying,     \* has the destructor of the event router begun?
    got             \* history: the index the owner was resumed with

whenAnyVars == <<promise, job, by, owner_state, index_finished, owner, next, got>>
vars == <<routerVars, whenAnyVars, destroying>>

PromiseFlag == {"awaited", "ready"}
OwnerFlag == {"waiting", "done", "ready", "dangling"}
JobPC == {"unborn", "suspended", "resumed", "write", "publish", "resumer", "ended"}
OwnerPC == {"construct", "work", "suspend", "suspended", "have", "cancel", "gone"}

TypeOK ==
    /\ RouterTypeOK
    /\ promise \in [Async -> SUBSET PromiseFlag]
    /\ job \in [Job -> JobPC]
    /\ by \in [Job -> Call \union {NoCall}]
    /\ owner_state \subseteq OwnerFlag
    /\ index_finished \in Job \union {NoIndex}
    /\ owner \in OwnerPC
    /\ next \in 1..(NumJobs + 1)
    /\ destroying \in BOOLEAN
    /\ got \in Job \union {NoIndex}

Init ==
    /\ RouterInit
    /\ promise = [j \in Async |-> {}]
    /\ job = [j \in Job |-> "unborn"]
    /\ by = [j \in Job |-> NoCall]
    /\ owner_state = {}
    /\ index_finished = NoIndex
    /\ owner = "construct"
    /\ next = 1
    /\ destroying = FALSE
    /\ got = NoIndex

Running == {"resumed", "write", "publish", "resumer"}

\* The thread of call c is inside a coroutine it has resumed.
Busy(c) == \E j \in Job : by[j] = c /\ job[j] \in Running

-----------------------------------------------------------------------------
(* The event router, with the coroutines it resumes.                       *)

CallStep(c) ==
    /\ \/ \E accepts \in SUBSET Awaiter : ClaimAwaiters(c, accepts)
       \/ \E a \in Awaiter, S \in SUBSET Awaiter : PredicateThrows(c, a, S)
       \/ ~ Busy(c) /\ EnterListeners(c)
       \/ BeginHandler(c)
       \/ \E cancels \in BOOLEAN, o \in Outcome : EndHandler(c, cancels, o)
       \/ HandlerThrows(c)
       \/ LeaveListeners(c)
       \/ \E h \in Handle, fails \in BOOLEAN : FinishTask(c, h, fails)
       \/ TaskRethrows(c)
       \/ EndCall(c)
    /\ UNCHANGED <<whenAnyVars, destroying>>

ResumeJob(c, j) ==
    /\ ~ Busy(c)
    /\ ResumeAwaiter(c, j)
    /\ job' = [job EXCEPT ![j] = "resumed"]
    /\ by' = [by EXCEPT ![j] = c]
    /\ UNCHANGED <<promise, owner_state, index_finished, owner, next, got, destroying>>

\* Another thread uses the router.
UseRouter ==
    /\ ~ destroying
    /\ \/ Attach
       \/ \E h \in Handle : Detach(h)
       \/ \E c \in Call : CallEvent(c)
    /\ UNCHANGED <<whenAnyVars, destroying>>

\* The job's co_await throws task_cancelled_exception, which ends the job; the
\* one who cancelled it catches the exception.
EndCancelledJob(j) ==
    /\ ResumeCancelled(j)
    /\ job' = [job EXCEPT ![j] = "ended"]

-----------------------------------------------------------------------------
(* make_job.                                                               *)

\* An async whose callback has run: await_ready, or await_suspend returns
\* false.  Otherwise the job suspends.
StartJob(j) ==
    /\ job[j] = "unborn"
    /\ by' = by
    /\ \/ /\ j \in Awaiter
          /\ AttachAwaiter(j)
          /\ job' = [job EXCEPT ![j] = "suspended"]
          /\ UNCHANGED promise
       \/ /\ j \in Async
          /\ job' = [job EXCEPT ![j] = IF "ready" \in promise[j] THEN "resumed"
                                       ELSE "suspended"]
          /\ promise' = [promise EXCEPT ![j] = IF "ready" \in @ THEN @
                                               ELSE @ \union {"awaited"}]
          /\ UNCHANGED routerVars

\* The callback of an async: set_value, which resumes a job that awaits it.
AsyncCallback(j) ==
    /\ "ready" \notin promise[j]
    /\ promise' = [promise EXCEPT ![j] = @ \union {"ready"}]
    /\ job' = IF "awaited" \in promise[j] THEN [job EXCEPT ![j] = "resumed"] ELSE job
    /\ UNCHANGED <<routerVars, by, owner_state, index_finished, owner, next, got, destroying>>

TooLate_dangling(s) == "dangling" \in s
TooLate(s) == s \intersect {"done", "dangling"} # {}

\* fetch_or(done): only the first job goes on.
JobDone(j) ==
    /\ job[j] = "resumed"
    /\ owner_state' = owner_state \union {"done"}
    /\ job' = [job EXCEPT ![j] = IF TooLate(owner_state) THEN "ended" ELSE "write"]
    /\ by' = IF TooLate(owner_state) THEN [by EXCEPT ![j] = NoCall] ELSE by
    /\ UNCHANGED <<routerVars, promise, index_finished, owner, next, got, destroying>>

\* The result is copied from the event and index_finished set.
JobWrite(j) ==
    /\ job[j] = "write"
    /\ index_finished' = j
    /\ job' = [job EXCEPT ![j] = "publish"]
    /\ UNCHANGED <<routerVars, promise, by, owner_state, owner, next, got, destroying>>

\* fetch_or(ready), and handle.resume() if the owner waits.
JobPublish(j) ==
    /\ job[j] = "publish"
    /\ owner_state' = owner_state \union {"ready"}
    /\ IF "waiting" \in owner_state
       THEN /\ job' = [job EXCEPT ![j] = "resumer"]
            /\ owner' = "have"
            /\ got' = index_finished /\ by' = by
       ELSE /\ job' = [job EXCEPT ![j] = "ended"]
            /\ by' = [by EXCEPT ![j] = NoCall]
            /\ UNCHANGED <<owner, got>>
    /\ UNCHANGED <<routerVars, promise, index_finished, next, destroying>>

\* resume() returns when the owner has come to its end.
JobReturns(j) ==
    /\ job[j] = "resumer"
    /\ owner = "gone"
    /\ job' = [job EXCEPT ![j] = "ended"]
    /\ by' = [by EXCEPT ![j] = NoCall]
    /\ UNCHANGED <<routerVars, promise, owner_state, index_finished, owner, next, got,
                   destroying>>

\* resume() throws what the owner has thrown, and the job passes it on.
JobThrows(j) ==
    /\ CanThrow
    /\ job[j] = "resumer"
    /\ owner = "gone"
    /\ job' = [job EXCEPT ![j] = "ended"]
    /\ IF by[j] = NoCall THEN UNCHANGED routerVars ELSE ResumeThrows(by[j])
    /\ by' = [by EXCEPT ![j] = NoCall]
    /\ UNCHANGED <<promise, owner_state, index_finished, owner, next, got, destroying>>

JobStep(j) ==
    JobDone(j) \/ JobWrite(j) \/ JobPublish(j) \/ JobReturns(j) \/ JobThrows(j)

-----------------------------------------------------------------------------
(* The owner.                                                              *)

\* make_jobs: a job that does not suspend runs to its end first.
OwnerConstruct ==
    /\ owner = "construct"
    /\ IF next > NumJobs
       THEN /\ owner' = "work"
            /\ next' = 1
            /\ UNCHANGED <<routerVars, promise, job, by>>
       ELSE /\ StartJob(next)
            /\ next' = next + 1
            /\ UNCHANGED owner
    /\ \A j \in Async : j < next /\ promise[j] = {"ready"} => job[j] = "ended"
    /\ UNCHANGED <<owner_state, index_finished, got, destroying>>

\* co_await: await_ready.
OwnerAwait ==
    /\ owner = "work"
    /\ IF "ready" \in owner_state
       THEN /\ owner' = "have"
            /\ got' = index_finished
       ELSE /\ owner' = "suspend"
            /\ UNCHANGED got
    /\ UNCHANGED <<routerVars, promise, job, by, owner_state, index_finished,
                   next, destroying>>

MustSuspend_always(s) == TRUE
MustSuspend(s) == "ready" \notin s

\* await_suspend: fetch_or(waiting).
OwnerSuspend ==
    /\ owner = "suspend"
    /\ owner_state' = owner_state \union {"waiting"}
    /\ IF MustSuspend(owner_state)
       THEN /\ owner' = "suspended"
            /\ UNCHANGED got
       ELSE /\ owner' = "have"
            /\ got' = index_finished
    /\ UNCHANGED <<routerVars, promise, job, by, index_finished, next, destroying>>

\* ~when_any: the plain store.  The owner may not have awaited at all.
OwnerDestroy ==
    /\ owner \in {"work", "have"}
    /\ ~ destroying
    /\ owner_state' = {"dangling"}
    /\ owner' = "cancel"
    /\ UNCHANGED <<routerVars, promise, job, by, index_finished, next, got, destroying>>

PastLast_late(n) == n > NumJobs + 1
PastLast(n) == n > NumJobs

\* ~when_any: cancel() of the next argument; an async has no cancel.
OwnerCancel ==
    /\ owner = "cancel"
    /\ \A a \in Awaiter : cancelling[a] = "no"
    /\ IF PastLast(next)
       THEN /\ owner' = "gone"
            /\ UNCHANGED <<routerVars, next>>
       ELSE /\ next' = next + 1
            /\ UNCHANGED owner
            /\ IF next \in Awaiter /\ astate[next] = "waiting"
               THEN BeginCancel(next)
               ELSE UNCHANGED routerVars
    /\ UNCHANGED <<promise, job, by, owner_state, index_finished, got, destroying>>

CancelStep(j) ==
    /\ \/ DetachCoro(j) /\ UNCHANGED job
       \/ EndCancelledJob(j)
    /\ UNCHANGED <<promise, by, owner_state, index_finished, owner, next, got, destroying>>

OwnerStep ==
    \/ OwnerConstruct \/ OwnerAwait \/ OwnerSuspend \/ OwnerDestroy \/ OwnerCancel

-----------------------------------------------------------------------------
(* ~event_router_t, when no event is being called and no coroutine that    *)
(* uses the router is running.                                             *)

DestroyRouter ==
    /\ ~ destroying
    /\ \A c \in Call : at[c] \in {"unused", "ended"}
    /\ owner \in {"suspended", "gone"}
    /\ \A j \in Job : job[j] \notin Running
    /\ destroying' = TRUE
    /\ UNCHANGED <<routerVars, whenAnyVars>>

\* coro_awaiters.back()->cancel()
RouterCancel(j) ==
    /\ destroying
    /\ \A a \in Awaiter : cancelling[a] = "no"
    /\ j \in coro_awaiters
    /\ BeginCancel(j)
    /\ UNCHANGED <<whenAnyVars, destroying>>

-----------------------------------------------------------------------------
\* What threads that run do next.
Progress ==
    \/ \E c \in Call : CallStep(c)
    \/ \E c \in Call, j \in Awaiter : ResumeJob(c, j)
    \/ \E j \in Job : JobStep(j)
    \/ \E j \in Awaiter : CancelStep(j)
    \/ OwnerStep
    \/ \E j \in Awaiter : RouterCancel(j)

Next ==
    \/ UseRouter
    \/ \E j \in Async : AsyncCallback(j)
    \/ DestroyRouter
    \/ Progress

Spec == Init /\ [][Next]_vars

-----------------------------------------------------------------------------
(* Properties.                                                             *)

Held(a) ==
    \/ a \in coro_awaiters
    \/ cancelling[a] = "resume"
    \/ \E c \in Call : at[c] = "resume" /\ a \in to_resume[c]

\* resume_awaiters and cancel agree on who resumes an awaiter: every pointer
\* the router or a call holds is to a coroutine that is still suspended, each
\* awaiter is in one place only, and none that waits has been lost but those
\* that a call had claimed when an exception ended it.
AwaitersAlive ==
    /\ \A a \in coro_awaiters :
        /\ job[a] = "suspended"
        /\ astate[a] \in {"waiting", "cancelling"}
        /\ \A c \in Call : a \notin to_resume[c]
    /\ \A c \in Call : \A a \in to_resume[c] :
        /\ job[a] = "suspended"
        /\ astate[a] = "resuming"
        /\ \A d \in Call \ {c} : a \notin to_resume[d]
    /\ \A a \in Awaiter : job[a] = "suspended" => Held(a) \/ a \in forgotten

\* An awaiter that is suspended will be resumed by the event that has claimed
\* it, or can still be resumed by an event or cancelled.
EveryAwaiterHeld == \A a \in Awaiter : job[a] = "suspended" => Held(a)

\* The owner is resumed with the result of one awaitable, completely written,
\* and no other job overwrites it afterwards, although the destructor's store
\* takes the done flag back.
OneResult ==
    got # NoIndex =>
        /\ index_finished = got
        /\ \A j \in Job : job[j] \notin {"write", "publish"}
        /\ owner \in {"have", "cancel", "gone"}

\* The event a reference leads to exists: it lives in the frame of handle_coro,
\* which does not end before the jobs it resumed have copied the event, and,
\* unless an exception ends it, before its task handlers have finished.
ReferencesValid ==
    /\ \A c \in Call : at[c] = "ended" =>
        to_resume[c] = {} /\ (tasks[c] = {} \/ c \in threw)
    /\ \A j \in Awaiter : job[j] \in {"resumed", "write"} => at[by[j]] = "resume"

\* Somebody is owed a wakeup: the owner waits although a job has a result, or an
\* event has claimed one of its awaiters, and no exception has lost a claim; or
\* the when_any or the router is being destroyed and one of the jobs that lost,
\* and that no exception has lost, has not been cancelled and freed.
Owed ==
    \/ /\ owner = "suspended" /\ ~ destroying
       /\ \/ "done" \in owner_state
          \/ forgotten = {} /\ \E c \in Call : to_resume[c] # {}
    \/ /\ owner = "gone" \/ destroying
       /\ \E j \in Awaiter : job[j] # "ended" /\ j \notin forgotten

\* No wakeup is lost between the jobs, the owner and the destructors: as long as
\* somebody is owed one, a thread is running that can go on.  Every behaviour
\* has finitely many steps, so that thread and those after it bring the wakeup.
NobodyStranded == Owed => ENABLED Progress

=============================================================================
