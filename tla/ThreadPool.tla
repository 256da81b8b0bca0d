----------------------------- MODULE ThreadPool -----------------------------
(***************************************************************************)
(* dpp::thread_pool: worker threads that wait on a condition variable for  *)
(* tasks in a priority queue, enqueue, and the destructor that stops them. *)
(*                                                                         *)
(* A critical section of queue_mutex is one action.  notify_one and        *)
(* notify_all are called after the mutex was released and are actions of   *)
(* their own; a notification that finds no waiting thread is lost, and a   *)
(* waiting thread may wake without one.                                    *)
(***************************************************************************)
EXTENDS Integers

CONSTANTS
    Task,      \* tasks of one behaviour, each enqueued at most once
    Priority,  \* thread_pool_task::priority
    Worker,    \* the pool's threads
    NoTask     \* what a worker that runs nothing has

ASSUME ThreadPoolAssumption ==
    /\ Priority \in [Task -> Int]
    /\ NoTask \notin Task
    /\ Worker # {}

VARIABLES
    tasks,      \* the priority queue, as a set
    stop,       \* thread_pool::stop
    pc,         \* per worker
    task,       \* per worker: the local task
    notifying,  \* tasks enqueued for which notify_one is still to be called
    destructor, \* how far the destructor is
    \* History, not state of the code:
    enqueued,   \* tasks that enqueue was called for
    done        \* tasks that have returned or thrown

histVars == <<enqueued, done>>
vars == <<tasks, stop, pc, task, notifying, destructor, histVars>>

TypeOK ==
    /\ tasks \subseteq Task
    /\ stop \in BOOLEAN
    /\ pc \in [Worker -> {"locked", "waiting", "running", "exited"}]
    /\ task \in [Worker -> Task \union {NoTask}]
    /\ notifying \subseteq Task
    /\ destructor \in {"no", "stopping", "joining", "returned"}
    /\ done \subseteq Task
    /\ enqueued \subseteq Task

Init ==
    /\ tasks = {}
    /\ stop = FALSE
    /\ pc = [w \in Worker |-> "locked"]
    /\ task = [w \in Worker |-> NoTask]
    /\ notifying = {}
    /\ destructor = "no"
    /\ done = {}
    /\ enqueued = {}

-----------------------------------------------------------------------------
\* enqueue, under the mutex.  Once the pool is being destroyed only its own
\* tasks may still enqueue.
Enqueue(k) ==
    /\ k \notin enqueued
    /\ stop => \E w \in Worker : pc[w] = "running"
    /\ tasks' = tasks \union {k}
    /\ notifying' = notifying \union {k}
    /\ enqueued' = enqueued \union {k}
    /\ UNCHANGED <<stop, pc, task, destructor, done>>

Wake(W) == pc' = [w \in Worker |-> IF w \in W THEN "locked" ELSE pc[w]]

Waiting == {w \in Worker : pc[w] = "waiting"}

\* The threads that one notification wakes.
Woken == IF Waiting = {} THEN {{}} ELSE {{w} : w \in Waiting}

\* enqueue without its notification.
NotifyOne_forgotten(k) ==
    /\ k \in notifying
    /\ notifying' = notifying \ {k}
    /\ UNCHANGED <<tasks, stop, pc, task, destructor, histVars>>

\* The rest of enqueue.
NotifyOne(k) ==
    /\ k \in notifying
    /\ notifying' = notifying \ {k}
    /\ \E W \in Woken : Wake(W)
    /\ UNCHANGED <<tasks, stop, task, destructor, histVars>>

SpuriousWake(w) ==
    /\ pc[w] = "waiting"
    /\ Wake({w})
    /\ UNCHANGED <<tasks, stop, task, notifying, destructor, histVars>>

-----------------------------------------------------------------------------
(* A worker with the mutex: the predicate of cv.wait and what follows.     *)

\* tasks.top(): any of the most urgent tasks.
Tops_reversed == {k \in tasks : \A l \in tasks : Priority[k] >= Priority[l]}
Tops == {k \in tasks : \A l \in tasks : Priority[k] <= Priority[l]}

AfterPop_topOnly(k) == tasks
AfterPop(k) == tasks \ {k}

\* cv.wait without its predicate.
TakeTask_unchecked(w) ==
    /\ pc[w] = "locked"
    /\ \E k \in IF tasks = {} THEN {NoTask} ELSE Tops :
        /\ task' = [task EXCEPT ![w] = k]
        /\ tasks' = AfterPop(k)
    /\ pc' = [pc EXCEPT ![w] = "running"]
    /\ UNCHANGED <<stop, notifying, destructor, histVars>>

TakeTask(w) ==
    /\ pc[w] = "locked"
    /\ \E k \in Tops :
        /\ task' = [task EXCEPT ![w] = k]
        /\ tasks' = AfterPop(k)
    /\ pc' = [pc EXCEPT ![w] = "running"]
    /\ UNCHANGED <<stop, notifying, destructor, histVars>>

MayExit_atOnce == stop
MayExit == stop /\ tasks = {}

Wait(w) ==
    /\ pc[w] = "locked"
    /\ tasks = {} /\ ~ stop
    /\ pc' = [pc EXCEPT ![w] = "waiting"]
    /\ UNCHANGED <<tasks, stop, task, notifying, destructor, histVars>>

Exit(w) ==
    /\ pc[w] = "locked"
    /\ MayExit
    /\ pc' = [pc EXCEPT ![w] = "exited"]
    /\ UNCHANGED <<tasks, stop, task, notifying, destructor, histVars>>

\* The task returns, or throws: then what it throws is caught and logged.
FinishTask(w) ==
    /\ pc[w] = "running"
    /\ done' = done \union {task[w]}
    /\ task' = [task EXCEPT ![w] = NoTask]
    /\ pc' = [pc EXCEPT ![w] = "locked"]
    /\ UNCHANGED <<tasks, stop, notifying, destructor, enqueued>>

-----------------------------------------------------------------------------
(* The destructor.                                                         *)

SetStop ==
    /\ destructor = "no"
    /\ stop' = TRUE
    /\ destructor' = "stopping"
    /\ UNCHANGED <<tasks, pc, task, notifying, histVars>>

\* cv.notify_all()
WokenByStop_one == IF Waiting = {} THEN {} ELSE {CHOOSE w \in Waiting : TRUE}
WokenByStop == Waiting

NotifyAll ==
    /\ destructor = "stopping"
    /\ Wake(WokenByStop)
    /\ destructor' = "joining"
    /\ UNCHANGED <<tasks, stop, task, notifying, histVars>>

Joined ==
    /\ destructor = "joining"
    /\ \A w \in Worker : pc[w] = "exited"
    /\ destructor' = "returned"
    /\ UNCHANGED <<tasks, stop, pc, task, notifying, histVars>>

-----------------------------------------------------------------------------
WorkerStep(w) == TakeTask(w) \/ Wait(w) \/ Exit(w) \/ FinishTask(w)

Next ==
    \/ \E k \in Task : Enqueue(k) \/ NotifyOne(k)
    \/ \E w \in Worker : WorkerStep(w) \/ SpuriousWake(w)
    \/ SetStop \/ NotifyAll \/ Joined

Spec == Init /\ [][Next]_vars

\* Threads that can go on do so and tasks end; nobody has to enqueue a task or
\* to destroy the pool, and no waiting thread wakes by itself.
FairSpec ==
    /\ Spec
    /\ \A k \in Task : WF_vars(NotifyOne(k))
    /\ \A w \in Worker : WF_vars(WorkerStep(w))
    /\ WF_vars(NotifyAll)
    /\ WF_vars(Joined)

-----------------------------------------------------------------------------
(* Properties.                                                             *)

Running(k) == \E w \in Worker : task[w] = k

\* A task that was enqueued is queued, or run by one worker, or done, and only
\* one of these: none is lost, and none is run twice, by workers that compete
\* for it, nor when the pool is stopped.
TasksConserved ==
    \A k \in Task :
        /\ k \in enqueued <=> k \in tasks \/ Running(k) \/ k \in done
        /\ k \in tasks => ~ Running(k) /\ k \notin done
        /\ Running(k) => k \notin done
        /\ \A v, w \in Worker : task[v] = k /\ task[w] = k => v = w

\* No wakeup is lost: while a task is queued, a worker is awake to take it or
\* a notification is on its way.  (notify_one is called without the mutex, so
\* it may come before the worker it is meant for waits.)
NoLostWakeup ==
    tasks # {} => \/ notifying # {}
                  \/ \E w \in Worker : pc[w] \in {"locked", "running"}

\* The destructor returns only when every task enqueued has been run.
Drained ==
    destructor = "returned" => \A k \in Task : k \in enqueued => k \in done

\* Every task that is enqueued is run to its end.
EveryTaskRuns == \A k \in Task : k \in enqueued ~> k \in done

\* The destructor returns: no worker sleeps through the end of the pool.
DestructorReturns == stop ~> destructor = "returned"

\* The pool does what TaskPool promises.
Progress(k) ==
    IF k \in tasks THEN "queued"
    ELSE IF Running(k) THEN "running"
    ELSE IF k \in done THEN "done" ELSE "new"

Pool == INSTANCE TaskPool WITH
            progress <- [k \in Task |-> Progress(k)],
            closed <- destructor = "returned"

PoolPromise == Pool!PoolSpec

=============================================================================
