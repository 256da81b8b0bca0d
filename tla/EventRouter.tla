---------------------------- MODULE EventRouter ----------------------------
(***************************************************************************)
(* event_router_t<T>: the listeners of one event and the coroutines that   *)
(* co_await it.                                                            *)
(*                                                                         *)
(* Events are called on the threads of the pool, so several calls of the   *)
(* same router run at once; attach, detach and cancel come from any        *)
(* thread.  Each critical section of mutex and of coro_mutex is one        *)
(* action.  A handler runs with mutex held shared, a resumed coroutine     *)
(* with no lock, and both take as long as they like.                       *)
(*                                                                         *)
(* The vectors coro_awaiters and to_resume are sets: an awaitable is in    *)
(* them at most once, and the order in which one event resumes its         *)
(* awaiters is left open, and so is what a predicate says of an event.     *)
(* A predicate, a handler or a resumed coroutine may throw: the exception  *)
(* ends handle_coro, whose frame holds the event, and is caught by the     *)
(* thread that called or resumed it.                                       *)
(*                                                                         *)
(* The module has no Next of its own: what a resumed coroutine does next   *)
(* is the business of the module that composes it (WhenAny).               *)
(***************************************************************************)
EXTENDS Naturals, FiniteSets

CONSTANTS
    Awaiter,      \* the awaitables that may be attached to the router
    Call,         \* bound: the calls of the event in one behaviour
    NoCall,       \* none of them
    MaxHandles,   \* bound: handles given out by attach
    CanThrow      \* may predicates, handlers and resumed coroutines throw?

ASSUME EventRouterAssumption ==
    /\ NoCall \notin Call
    /\ MaxHandles \in Nat
    /\ CanThrow \in BOOLEAN

Handle == 1..MaxHandles

NoHandle == 0

VARIABLES
    next_handle,
    dispatch_container, \* handles of the attached listeners
    coro_awaiters,
    astate,             \* awaitable::state
    cancelling,         \* where a call of awaitable::cancel is
    at,                 \* where each call of handle_coro is
    to_resume,
    cancelled,          \* event.is_cancelled()
    left,               \* listeners the loop has not come to yet
    current,            \* the handler that is running
    tasks,              \* started task handlers that have not finished
    failed,             \* finished ones whose exception co_await will rethrow
    \* History, not state of the code:
    threw,              \* calls an exception has ended under suspended task handlers
    forgotten           \* awaiters such a call had claimed and not resumed

handlerVars == <<next_handle, dispatch_container>>
awaiterVars == <<coro_awaiters, astate, cancelling>>
endVars == <<failed, threw, forgotten>>
callVars == <<at, to_resume, cancelled, left, current, tasks, endVars>>
routerVars == <<handlerVars, awaiterVars, callVars>>

AwaiterState == {"none", "waiting", "resuming", "cancelling"}
CallPC == {"unused", "awaiters", "resume", "listeners", "tasks", "ended"}

RouterTypeOK ==
    /\ next_handle \in 1..(MaxHandles + 1)
    /\ dispatch_container \subseteq Handle
    /\ coro_awaiters \subseteq Awaiter
    /\ astate \in [Awaiter -> AwaiterState]
    /\ cancelling \in [Awaiter -> {"no", "detach", "resume"}]
    /\ at \in [Call -> CallPC]
    /\ to_resume \in [Call -> SUBSET Awaiter]
    /\ cancelled \in [Call -> BOOLEAN]
    /\ left \in [Call -> SUBSET Handle]
    /\ current \in [Call -> Handle \union {NoHandle}]
    /\ tasks \in [Call -> SUBSET Handle]
    /\ failed \in [Call -> SUBSET Handle]
    /\ threw \subseteq Call
    /\ forgotten \subseteq Awaiter

RouterInit ==
    /\ next_handle = 1
    /\ dispatch_container = {}
    /\ coro_awaiters = {}
    /\ astate = [a \in Awaiter |-> "none"]
    /\ cancelling = [a \in Awaiter |-> "no"]
    /\ at = [c \in Call |-> "unused"]
    /\ to_resume = [c \in Call |-> {}]
    /\ cancelled = [c \in Call |-> FALSE]
    /\ left = [c \in Call |-> {}]
    /\ current = [c \in Call |-> NoHandle]
    /\ tasks = [c \in Call |-> {}]
    /\ failed = [c \in Call |-> {}]
    /\ threw = {}
    /\ forgotten = {}

-----------------------------------------------------------------------------
(* Listeners.                                                              *)

\* A unique_lock on mutex is granted while nobody holds it shared.
CanLock == \A c \in Call : at[c] # "listeners"

Attach ==
    /\ CanLock
    /\ next_handle <= MaxHandles
    /\ next_handle' = next_handle + 1
    /\ dispatch_container' = dispatch_container \union {next_handle}
    /\ UNCHANGED <<awaiterVars, callVars>>

Detach(h) ==
    /\ CanLock
    /\ h \in dispatch_container
    /\ dispatch_container' = dispatch_container \ {h}
    /\ UNCHANGED <<next_handle, awaiterVars, callVars>>

-----------------------------------------------------------------------------
(* call and handle_coro.                                                   *)

CallEvent(c) ==
    /\ at[c] = "unused"
    /\ at' = [at EXCEPT ![c] = "awaiters"]
    /\ UNCHANGED <<handlerVars, awaiterVars, to_resume, cancelled, left,
                   current, tasks, endVars>>

\* An exception ends handle_coro: its locals are destroyed, the locks released,
\* the awaiters in lost never resumed and suspended task handlers not waited for.
\* The exception leaves unhandled_exception; some compilers destroy the frame then,
\* and the event with it, others leak it.  The model takes the first.
Unwind(c, lost) ==
    /\ CanThrow
    /\ at' = [at EXCEPT ![c] = "ended"]
    /\ to_resume' = [to_resume EXCEPT ![c] = {}]
    /\ left' = [left EXCEPT ![c] = {}]
    /\ current' = [current EXCEPT ![c] = NoHandle]
    /\ failed' = [failed EXCEPT ![c] = {}]
    /\ cancelled' = [cancelled EXCEPT ![c] = FALSE]
    /\ threw' = IF tasks[c] = {} THEN threw ELSE threw \union {c}
    /\ forgotten' = forgotten \union lost

\* Of the awaiters whose predicate accepts the event, those the call may resume:
\* compare_exchange from waiting.
Claimed_unchecked(accepts) == coro_awaiters \intersect accepts
Claimed(accepts) == {a \in coro_awaiters \intersect accepts : astate[a] = "waiting"}

\* resume_awaiters, under coro_mutex.
ClaimAwaiters(c, accepts) ==
    /\ at[c] = "awaiters"
    /\ at' = [at EXCEPT ![c] = "resume"]
    /\ to_resume' = [to_resume EXCEPT ![c] = Claimed(accepts)]
    /\ astate' = [a \in Awaiter |-> IF a \in Claimed(accepts) THEN "resuming" ELSE astate[a]]
    /\ coro_awaiters' = coro_awaiters \ Claimed(accepts)
    /\ UNCHANGED <<handlerVars, cancelling, cancelled, left, current, tasks, endVars>>

\* The predicate of awaiter a throws, after those in S have been claimed.
PredicateThrows(c, a, S) ==
    /\ at[c] = "awaiters"
    /\ a \in coro_awaiters
    /\ S \subseteq Claimed(Awaiter \ {a})
    /\ astate' = [b \in Awaiter |-> IF b \in S THEN "resuming" ELSE astate[b]]
    /\ coro_awaiters' = coro_awaiters \ S
    /\ Unwind(c, S)
    /\ UNCHANGED <<handlerVars, cancelling, tasks>>

\* resume_awaiters, after the unlock: resume() of one of them, up to the end
\* of await_resume.  The thread comes back when the coroutine suspends or ends.
ResumeAwaiter(c, a) ==
    /\ at[c] = "resume"
    /\ a \in to_resume[c]
    /\ to_resume' = [to_resume EXCEPT ![c] = @ \ {a}]
    /\ astate' = [astate EXCEPT ![a] = "none"]
    /\ UNCHANGED <<handlerVars, coro_awaiters, cancelling, at,
                   cancelled, left, current, tasks, endVars>>

\* resume() throws what the resumed coroutine has thrown.
ResumeThrows(c) ==
    /\ at[c] = "resume"
    /\ Unwind(c, to_resume[c])
    /\ UNCHANGED <<handlerVars, awaiterVars, tasks>>

AllResumed(c) == to_resume[c] = {}

\* The shared_lock on mutex and the beginning of the loop.
EnterListeners(c) ==
    /\ at[c] = "resume"
    /\ AllResumed(c)
    /\ at' = [at EXCEPT ![c] = "listeners"]
    /\ left' = [left EXCEPT ![c] = dispatch_container]
    /\ UNCHANGED <<handlerVars, awaiterVars, to_resume, cancelled,
                   current, tasks, endVars>>

\* std::map iterates in the order of the handles.
First(S) == CHOOSE h \in S : \A g \in S : h <= g

BeginHandler(c) ==
    /\ at[c] = "listeners"
    /\ current[c] = NoHandle
    /\ left[c] # {}
    /\ left' = [left EXCEPT ![c] = @ \ {First(left[c])}]
    /\ current' = IF cancelled[c] THEN current
                  ELSE [current EXCEPT ![c] = First(left[c])]
    /\ UNCHANGED <<handlerVars, awaiterVars, at, to_resume, cancelled,
                   tasks, endVars>>

\* The handler returns, having cancelled the event or not; one that is a task
\* (which listeners are is left open) may return because it has suspended, or
\* keeps its exception for who awaits it.
Outcome == {"returned", "suspended"} \union (IF CanThrow THEN {"failed"} ELSE {})

EndHandler(c, cancels, outcome) ==
    /\ current[c] # NoHandle
    /\ cancelled' = [cancelled EXCEPT ![c] = @ \/ cancels]
    /\ tasks' = IF outcome = "suspended"
                THEN [tasks EXCEPT ![c] = @ \union {current[c]}] ELSE tasks
    /\ failed' = IF outcome = "failed"
                 THEN [failed EXCEPT ![c] = @ \union {current[c]}] ELSE failed
    /\ current' = [current EXCEPT ![c] = NoHandle]
    /\ UNCHANGED <<handlerVars, awaiterVars, at, to_resume, left, threw,
                   forgotten>>

\* A handler that is not a task throws.
HandlerThrows(c) ==
    /\ current[c] # NoHandle
    /\ Unwind(c, {})
    /\ UNCHANGED <<handlerVars, awaiterVars, tasks>>

LeaveListeners(c) ==
    /\ at[c] = "listeners"
    /\ current[c] = NoHandle
    /\ left[c] = {}
    /\ at' = [at EXCEPT ![c] = "tasks"]
    /\ cancelled' = [cancelled EXCEPT ![c] = FALSE]
    /\ UNCHANGED <<handlerVars, awaiterVars, to_resume, left, current,
                   tasks, endVars>>

\* A suspended task handler comes to its end.
FinishTask(c, h, fails) ==
    /\ h \in tasks[c]
    /\ fails => CanThrow
    /\ tasks' = [tasks EXCEPT ![c] = @ \ {h}]
    /\ failed' = IF fails /\ at[c] # "ended"
                 THEN [failed EXCEPT ![c] = @ \union {h}] ELSE failed
    /\ UNCHANGED <<handlerVars, awaiterVars, at, to_resume, cancelled,
                   left, current, threw, forgotten>>

\* co_await t, in the order of the handlers: the first that has failed rethrows.
TaskRethrows(c) ==
    /\ at[c] = "tasks"
    /\ \E h \in failed[c] : \A g \in tasks[c] \union failed[c] : h <= g
    /\ Unwind(c, {})
    /\ UNCHANGED <<handlerVars, awaiterVars, tasks>>

AllTasksDone_unawaited(c) == TRUE
AllTasksDone(c) == tasks[c] = {} /\ failed[c] = {}

\* Every task has been co_awaited: the coroutine ends, and the event with it.
EndCall(c) ==
    /\ at[c] = "tasks"
    /\ AllTasksDone(c)
    /\ at' = [at EXCEPT ![c] = "ended"]
    /\ UNCHANGED <<handlerVars, awaiterVars, to_resume, cancelled,
                   left, current, tasks, endVars>>

-----------------------------------------------------------------------------
(* detail::event_router::awaitable.                                        *)

\* await_suspend.  Nobody knows of the awaitable before attach_awaiter.
AttachAwaiter(a) ==
    /\ astate[a] = "none"
    /\ astate' = [astate EXCEPT ![a] = "waiting"]
    /\ coro_awaiters' = coro_awaiters \union {a}
    /\ UNCHANGED <<handlerVars, cancelling, callVars>>

\* cancel: the compare_exchange has succeeded, ...
BeginCancel(a) ==
    /\ astate[a] = "waiting"
    /\ astate' = [astate EXCEPT ![a] = "cancelling"]
    /\ cancelling' = [cancelling EXCEPT ![a] = "detach"]
    /\ UNCHANGED <<handlerVars, coro_awaiters, callVars>>

\* ... detach_coro, under coro_mutex, ...
DetachCoro(a) ==
    /\ cancelling[a] = "detach"
    /\ cancelling' = [cancelling EXCEPT ![a] = "resume"]
    /\ coro_awaiters' = coro_awaiters \ {a}
    /\ UNCHANGED <<handlerVars, astate, callVars>>

\* ... and resume(), upon which await_resume throws task_cancelled_exception.
ResumeCancelled(a) ==
    /\ cancelling[a] = "resume"
    /\ cancelling' = [cancelling EXCEPT ![a] = "no"]
    /\ astate' = [astate EXCEPT ![a] = "none"]
    /\ UNCHANGED <<handlerVars, coro_awaiters, callVars>>

-----------------------------------------------------------------------------
\* handle_coro keeps the event object alive until all tasks have finished: it
\* does not end before a task handler that was given a reference to the event.
EventOutlivesTasks == \A c \in Call : at[c] = "ended" => tasks[c] = {}

=============================================================================
