--------------------------- MODULE ThreadPoolProofs ---------------------------
(***************************************************************************)
(* Proofs about dpp::thread_pool for any number of workers and tasks: the  *)
(* invariants that the runs of ThreadPool check, and that the pool         *)
(* implements TaskPool.                                                    *)
(***************************************************************************)
EXTENDS ThreadPool, TLAPS

-----------------------------------------------------------------------------
(* The inductive invariant.                                                *)

\* A worker has a task exactly while it runs it, and only leaves once the pool
\* is being stopped.
WorkerInv ==
    \A w \in Worker : /\ task[w] # NoTask <=> pc[w] = "running"
                      /\ pc[w] = "exited" => stop

\* While tasks are queued not every worker has left; the destructor has
\* returned only when all have.
AliveInv ==
    /\ tasks # {} => \E w \in Worker : pc[w] # "exited"
    /\ destructor = "returned" => \A w \in Worker : pc[w] = "exited"

Inv == TypeOK /\ WorkerInv /\ AliveInv /\ TasksConserved /\ NoLostWakeup

-----------------------------------------------------------------------------
LEMMA InitInv == Init => Inv
<1> SUFFICES ASSUME Init PROVE Inv
    OBVIOUS
<1>1. TypeOK /\ WorkerInv /\ AliveInv /\ NoLostWakeup
    BY DEF Init, TypeOK, WorkerInv, AliveInv, NoLostWakeup
<1>2. \A k \in Task : k \notin enqueued /\ ~ Running(k) /\ k \notin tasks /\ k \notin done
  <2> TAKE k \in Task
  <2>1. k \notin enqueued /\ \A w \in Worker : task[w] = NoTask
      BY DEF Init
  <2>2. k # NoTask
      BY ThreadPoolAssumption DEF ThreadPoolAssumption
  <2> QED
      BY <2>1, <2>2 DEF Init, Running
<1>3. TasksConserved
    BY <1>2 DEF TasksConserved, Running
<1> QED
    BY <1>1, <1>3 DEF Inv

LEMMA NextTypeOK == TypeOK /\ WorkerInv /\ [Next]_vars => TypeOK'
<1> SUFFICES ASSUME TypeOK, WorkerInv, [Next]_vars PROVE TypeOK'
    OBVIOUS
<1> USE DEF TypeOK, histVars
<1>1. ASSUME NEW k \in Task, Enqueue(k) PROVE TypeOK'
    BY <1>1 DEF Enqueue
<1>2. ASSUME NEW k \in Task, NotifyOne(k) PROVE TypeOK'
    BY <1>2 DEF NotifyOne, Wake
<1>3. ASSUME NEW w \in Worker, TakeTask(w) PROVE TypeOK'
    BY <1>3 DEF TakeTask, Tops, AfterPop
<1>4. ASSUME NEW w \in Worker, Wait(w) PROVE TypeOK'
    BY <1>4 DEF Wait
<1>5. ASSUME NEW w \in Worker, Exit(w) PROVE TypeOK'
    BY <1>5 DEF Exit
<1>6. ASSUME NEW w \in Worker, FinishTask(w) PROVE TypeOK'
    BY <1>6 DEF FinishTask, WorkerInv
<1>7. ASSUME NEW w \in Worker, SpuriousWake(w) PROVE TypeOK'
    BY <1>7 DEF SpuriousWake, Wake
<1>8. CASE SetStop
    BY <1>8 DEF SetStop
<1>9. CASE NotifyAll
    BY <1>9 DEF NotifyAll, Wake
<1>10. CASE Joined
    BY <1>10 DEF Joined
<1>11. CASE UNCHANGED vars
    BY <1>11 DEF vars
<1> QED
    BY <1>1, <1>2, <1>3, <1>4, <1>5, <1>6, <1>7, <1>8, <1>9, <1>10, <1>11
    DEF Next, WorkerStep

LEMMA NextWorker == TypeOK /\ WorkerInv /\ [Next]_vars => WorkerInv'
<1> SUFFICES ASSUME TypeOK, WorkerInv, [Next]_vars PROVE WorkerInv'
    OBVIOUS
<1> USE ThreadPoolAssumption DEF ThreadPoolAssumption, TypeOK, WorkerInv, histVars
<1>1. ASSUME NEW k \in Task, Enqueue(k) PROVE WorkerInv'
    BY <1>1 DEF Enqueue
<1>2. ASSUME NEW k \in Task, NotifyOne(k) PROVE WorkerInv'
    BY <1>2 DEF NotifyOne, Wake, Woken, Waiting
<1>3. ASSUME NEW w \in Worker, TakeTask(w) PROVE WorkerInv'
    BY <1>3 DEF TakeTask, Tops, AfterPop
<1>4. ASSUME NEW w \in Worker, Wait(w) PROVE WorkerInv'
    BY <1>4 DEF Wait
<1>5. ASSUME NEW w \in Worker, Exit(w) PROVE WorkerInv'
    BY <1>5 DEF Exit, MayExit
<1>6. ASSUME NEW w \in Worker, FinishTask(w) PROVE WorkerInv'
    BY <1>6 DEF FinishTask
<1>7. ASSUME NEW w \in Worker, SpuriousWake(w) PROVE WorkerInv'
    BY <1>7 DEF SpuriousWake, Wake
<1>8. CASE SetStop
    BY <1>8 DEF SetStop
<1>9. CASE NotifyAll
    BY <1>9 DEF NotifyAll, Wake, WokenByStop, Waiting
<1>10. CASE Joined
    BY <1>10 DEF Joined
<1>11. CASE UNCHANGED vars
    BY <1>11 DEF vars
<1> QED
    BY <1>1, <1>2, <1>3, <1>4, <1>5, <1>6, <1>7, <1>8, <1>9, <1>10, <1>11
    DEF Next, WorkerStep

LEMMA NextAlive ==
    TypeOK /\ WorkerInv /\ AliveInv /\ [Next]_vars => AliveInv'
<1> SUFFICES ASSUME TypeOK, WorkerInv, AliveInv, [Next]_vars PROVE AliveInv'
    OBVIOUS
<1> USE ThreadPoolAssumption DEF ThreadPoolAssumption, TypeOK, WorkerInv,
        AliveInv, histVars
<1>1. ASSUME NEW k \in Task, Enqueue(k) PROVE AliveInv'
    BY <1>1 DEF Enqueue
<1>2. ASSUME NEW k \in Task, NotifyOne(k) PROVE AliveInv'
    BY <1>2 DEF NotifyOne, Wake, Woken, Waiting
<1>3. ASSUME NEW w \in Worker, TakeTask(w) PROVE AliveInv'
    BY <1>3 DEF TakeTask, Tops, AfterPop
<1>4. ASSUME NEW w \in Worker, Wait(w) PROVE AliveInv'
    BY <1>4 DEF Wait
<1>5. ASSUME NEW w \in Worker, Exit(w) PROVE AliveInv'
    BY <1>5 DEF Exit, MayExit
<1>6. ASSUME NEW w \in Worker, FinishTask(w) PROVE AliveInv'
    BY <1>6 DEF FinishTask
<1>7. ASSUME NEW w \in Worker, SpuriousWake(w) PROVE AliveInv'
    BY <1>7 DEF SpuriousWake, Wake
<1>8. CASE SetStop
    BY <1>8 DEF SetStop
<1>9. CASE NotifyAll
    BY <1>9 DEF NotifyAll, Wake, WokenByStop, Waiting
<1>10. CASE Joined
    BY <1>10 DEF Joined
<1>11. CASE UNCHANGED vars
    BY <1>11 DEF vars
<1> QED
    BY <1>1, <1>2, <1>3, <1>4, <1>5, <1>6, <1>7, <1>8, <1>9, <1>10, <1>11
    DEF Next, WorkerStep

LEMMA NextWakeup ==
    TypeOK /\ AliveInv /\ NoLostWakeup /\ WorkerInv /\ [Next]_vars => NoLostWakeup'
<1> SUFFICES ASSUME TypeOK, WorkerInv, AliveInv, NoLostWakeup, [Next]_vars PROVE NoLostWakeup'
    OBVIOUS
<1> USE ThreadPoolAssumption DEF ThreadPoolAssumption, TypeOK, NoLostWakeup, histVars
<1>1. ASSUME NEW k \in Task, Enqueue(k) PROVE NoLostWakeup'
    BY <1>1 DEF Enqueue
<1>2. ASSUME NEW k \in Task, NotifyOne(k) PROVE NoLostWakeup'
  <2>1. CASE Waiting = {}
    <3>1. tasks # {} => \E w \in Worker : pc[w] \in {"locked", "running"}
        BY <2>1 DEF AliveInv, Waiting
    <3>2. \A w \in Worker : pc'[w] = pc[w]
        BY <1>2, <2>1 DEF NotifyOne, Wake, Woken
    <3> QED
        BY <1>2, <3>1, <3>2 DEF NotifyOne
  <2>2. CASE Waiting # {}
    <3>1. PICK w \in Waiting : Wake({w})
        BY <1>2, <2>2 DEF NotifyOne, Woken
    <3>2. w \in Worker /\ pc'[w] = "locked"
        BY <3>1 DEF Wake, Waiting
    <3> QED
        BY <3>2
  <2> QED
      BY <2>1, <2>2
<1>3. ASSUME NEW w \in Worker, TakeTask(w) PROVE NoLostWakeup'
    BY <1>3 DEF TakeTask, Tops, AfterPop
<1>4. ASSUME NEW w \in Worker, Wait(w) PROVE NoLostWakeup'
    BY <1>4 DEF Wait
<1>5. ASSUME NEW w \in Worker, Exit(w) PROVE NoLostWakeup'
    BY <1>5 DEF Exit, MayExit
<1>6. ASSUME NEW w \in Worker, FinishTask(w) PROVE NoLostWakeup'
    BY <1>6 DEF FinishTask
<1>7. ASSUME NEW w \in Worker, SpuriousWake(w) PROVE NoLostWakeup'
    BY <1>7 DEF SpuriousWake, Wake
<1>8. CASE SetStop
    BY <1>8 DEF SetStop
<1>9. CASE NotifyAll
    BY <1>9 DEF NotifyAll, Wake, WokenByStop, Waiting
<1>10. CASE Joined
    BY <1>10 DEF Joined
<1>11. CASE UNCHANGED vars
    BY <1>11 DEF vars
<1> QED
    BY <1>1, <1>2, <1>3, <1>4, <1>5, <1>6, <1>7, <1>8, <1>9, <1>10, <1>11
    DEF Next, WorkerStep

LEMMA NextConserved ==
    TypeOK /\ WorkerInv /\ TasksConserved /\ [Next]_vars => TasksConserved'
<1> SUFFICES ASSUME TypeOK, WorkerInv, TasksConserved, [Next]_vars PROVE TasksConserved'
    OBVIOUS
<1> USE ThreadPoolAssumption DEF ThreadPoolAssumption, TypeOK, histVars
<1>1. ASSUME NEW k \in Task, Enqueue(k) PROVE TasksConserved'
  <2>1. enqueued' = enqueued \union {k}
      BY <1>1 DEF Enqueue
  <2>2. tasks' = tasks \union {k} /\ UNCHANGED <<task, done>>
      BY <1>1 DEF Enqueue
  <2>3. k \notin tasks /\ ~ Running(k) /\ k \notin done
      BY <1>1 DEF Enqueue, TasksConserved
  <2>4. ASSUME NEW l \in Task PROVE Running(l)' <=> Running(l)
      BY <2>2 DEF Running
  <2> QED
      BY <2>1, <2>2, <2>3, <2>4 DEF TasksConserved
<1>2. ASSUME NEW k \in Task, NotifyOne(k) PROVE TasksConserved'
  <2>1. UNCHANGED <<tasks, task, done, enqueued>>
      BY <1>2 DEF NotifyOne
  <2> QED
      BY <2>1 DEF TasksConserved, Running
<1>3. ASSUME NEW w \in Worker, TakeTask(w) PROVE TasksConserved'
  <2>1. PICK k \in tasks : task' = [task EXCEPT ![w] = k] /\ tasks' = tasks \ {k}
      BY <1>3 DEF TakeTask, Tops, AfterPop
  <2>2. UNCHANGED <<done, enqueued>> /\ task[w] = NoTask
      BY <1>3 DEF TakeTask, WorkerInv
  <2>3. ASSUME NEW l \in Task PROVE Running(l)' <=> Running(l) \/ l = k
      BY <2>1, <2>2 DEF Running
  <2>4. ASSUME NEW u \in Worker, NEW v \in Worker, NEW l \in Task,
               task'[u] = l, task'[v] = l
        PROVE  u = v
      BY <2>1, <2>4 DEF TasksConserved, Running
  <2> QED
      BY <2>1, <2>2, <2>3, <2>4 DEF TasksConserved
<1>4. ASSUME NEW w \in Worker, Wait(w) PROVE TasksConserved'
  <2>1. UNCHANGED <<tasks, task, done, enqueued>>
      BY <1>4 DEF Wait
  <2> QED
      BY <2>1 DEF TasksConserved, Running
<1>5. ASSUME NEW w \in Worker, Exit(w) PROVE TasksConserved'
  <2>1. UNCHANGED <<tasks, task, done, enqueued>>
      BY <1>5 DEF Exit
  <2> QED
      BY <2>1 DEF TasksConserved, Running
<1>6. ASSUME NEW w \in Worker, FinishTask(w) PROVE TasksConserved'
  <2>1. task[w] \in Task /\ done' = done \union {task[w]} /\ UNCHANGED <<tasks, enqueued>>
      BY <1>6 DEF FinishTask, WorkerInv
  <2>2. task' = [task EXCEPT ![w] = NoTask]
      BY <1>6 DEF FinishTask
  <2>3. ASSUME NEW l \in Task PROVE Running(l)' <=> Running(l) /\ l # task[w]
      BY <2>1, <2>2 DEF Running, TasksConserved
  <2>4. Running(task[w])
      BY DEF Running
  <2>5. ASSUME NEW u \in Worker, NEW v \in Worker, NEW l \in Task,
               task'[u] = l, task'[v] = l
        PROVE  u = v
      BY <2>2, <2>5 DEF TasksConserved
  <2> QED
      BY <2>1, <2>3, <2>4, <2>5 DEF TasksConserved
<1>7. ASSUME NEW w \in Worker, SpuriousWake(w) PROVE TasksConserved'
  <2>1. UNCHANGED <<tasks, task, done, enqueued>>
      BY <1>7 DEF SpuriousWake
  <2> QED
      BY <2>1 DEF TasksConserved, Running
<1>8. CASE SetStop
  <2>1. UNCHANGED <<tasks, task, done, enqueued>>
      BY <1>8 DEF SetStop
  <2> QED
      BY <2>1 DEF TasksConserved, Running
<1>9. CASE NotifyAll
  <2>1. UNCHANGED <<tasks, task, done, enqueued>>
      BY <1>9 DEF NotifyAll
  <2> QED
      BY <2>1 DEF TasksConserved, Running
<1>10. CASE Joined
  <2>1. UNCHANGED <<tasks, task, done, enqueued>>
      BY <1>10 DEF Joined
  <2> QED
      BY <2>1 DEF TasksConserved, Running
<1>11. CASE UNCHANGED vars
  <2>1. UNCHANGED <<tasks, task, done, enqueued>>
      BY <1>11 DEF vars
  <2> QED
      BY <2>1 DEF TasksConserved, Running
<1> QED
    BY <1>1, <1>2, <1>3, <1>4, <1>5, <1>6, <1>7, <1>8, <1>9, <1>10, <1>11
    DEF Next, WorkerStep

-----------------------------------------------------------------------------
(* The theorems.                                                           *)

LEMMA InvHolds == Spec => []Inv
<1>1. Inv /\ [Next]_vars => Inv'
    BY NextTypeOK, NextWorker, NextAlive, NextConserved, NextWakeup DEF Inv
<1> QED
    BY InitInv, <1>1, PTL DEF Spec

\* Every variable of the pool keeps its type.
THEOREM TypeCorrect == Spec => []TypeOK
<1>1. Inv => TypeOK
    BY DEF Inv
<1> QED
    BY InvHolds, <1>1, PTL

\* No task of the pool is lost or run twice, for any number of workers.
THEOREM Conservation == Spec => []TasksConserved
<1>1. Inv => TasksConserved
    BY DEF Inv
<1> QED
    BY InvHolds, <1>1, PTL

\* A queued task always has a worker awake or a notification on its way,
\* although notify_one is called after the mutex was released.
THEOREM Wakeups == Spec => []NoLostWakeup
<1>1. Inv => NoLostWakeup
    BY DEF Inv
<1> QED
    BY InvHolds, <1>1, PTL

\* The destructor returns only when every task has been run.
THEOREM DrainedAtEnd == Spec => []Drained
<1>1. Inv => Drained
  <2> SUFFICES ASSUME Inv, destructor = "returned", NEW k \in Task, k \in enqueued
               PROVE  k \in done
      BY DEF Drained
  <2>1. tasks = {} /\ \A w \in Worker : task[w] = NoTask
      BY DEF Inv, AliveInv, WorkerInv
  <2>2. ~ Running(k)
      BY <2>1, ThreadPoolAssumption DEF Running, ThreadPoolAssumption
  <2> QED
      BY <2>1, <2>2 DEF Inv, TasksConserved
<1> QED
    BY InvHolds, <1>1, PTL

-----------------------------------------------------------------------------
(* ThreadPool implements TaskPool.                                         *)

\* The four cases of Progress, which exclude one another.
LEMMA ProgressIs ==
    ASSUME Inv, NEW k \in Task
    PROVE  /\ Progress(k) = "queued" <=> k \in tasks
           /\ Progress(k) = "running" <=> Running(k)
           /\ Progress(k) = "done" <=> k \in done
           /\ Progress(k) = "new" <=> k \notin enqueued
BY DEF Inv, TasksConserved, Progress

\* The mapped value of TaskPool's progress.
Mapped == [k \in Task |-> Progress(k)]

\* A step that moves one task on.
LEMMA OneMoves ==
    ASSUME NEW k \in Task, NEW p, Progress(k)' = p,
           \A l \in Task : l # k => Progress(l)' = Progress(l)
    PROVE  Mapped' = [Mapped EXCEPT ![k] = p]
BY DEF Mapped

\* A step that leaves the queue, the workers' tasks and what is done alone.
LEMMA NoneMoves ==
    ASSUME UNCHANGED <<tasks, task, done>>
    PROVE  Mapped' = Mapped
BY DEF Mapped, Progress, Running

LEMMA RefinesInit == Init => Pool!PoolInit
<1> SUFFICES ASSUME Init PROVE Pool!PoolInit
    OBVIOUS
<1>1. \A k \in Task : Progress(k) = "new"
  <2> TAKE k \in Task
  <2>1. k \notin enqueued
      BY DEF Init
  <2> QED
      BY <2>1, InitInv, ProgressIs
<1>2. destructor # "returned"
    BY DEF Init
<1> QED
    BY <1>1, <1>2 DEF Pool!PoolInit

LEMMA RefinesNext ==
    Inv /\ Inv' /\ [Next]_vars => [Pool!PoolNext]_(Pool!poolVars)
<1> SUFFICES ASSUME Inv, Inv', [Next]_vars
             PROVE  [Pool!PoolNext]_(Pool!poolVars)
    OBVIOUS
<1> USE DEF histVars
<1>1. ASSUME NEW k \in Task, Enqueue(k) PROVE Pool!Submit(k)
  <2>1. tasks' = tasks \union {k} /\ UNCHANGED <<task, done, destructor>> /\ k \notin enqueued
      BY <1>1 DEF Enqueue
  <2>2. Progress(k) = "new" /\ Progress(k)' = "queued"
      BY <2>1, ProgressIs DEF Progress
  <2>3. \A l \in Task : l # k => Progress(l)' = Progress(l)
      BY <2>1 DEF Progress, Running
  <2>4. Mapped' = [Mapped EXCEPT ![k] = "queued"]
      BY <2>2, <2>3, OneMoves
  <2>5. destructor # "returned"
    <3>1. stop => \E w \in Worker : pc[w] # "exited"
        BY <1>1 DEF Enqueue
    <3>2. ~ stop => \E w \in Worker : pc[w] # "exited"
        BY ThreadPoolAssumption DEF ThreadPoolAssumption, Inv, WorkerInv
    <3> QED
        BY <3>1, <3>2 DEF Inv, AliveInv
  <2> QED
      BY <2>1, <2>2, <2>4, <2>5 DEF Pool!Submit, Mapped
<1>2. ASSUME NEW w \in Worker, TakeTask(w) PROVE \E k \in Task : Pool!Start(k)
  <2>1. PICK k \in Tops : task' = [task EXCEPT ![w] = k] /\ tasks' = tasks \ {k}
      BY <1>2 DEF TakeTask, AfterPop
  <2>2. /\ k \in Task /\ k \in tasks /\ pc[w] = "locked" /\ task[w] = NoTask
        /\ UNCHANGED <<done, destructor>>
      BY <1>2, <2>1 DEF TakeTask, Tops, Inv, TypeOK, WorkerInv
  <2>3. \A l \in Task : Running(l)' <=> Running(l) \/ l = k
      BY <2>1, <2>2, ThreadPoolAssumption
      DEF Running, Inv, TypeOK, ThreadPoolAssumption
  <2>4. Progress(k) = "queued" /\ Progress(k)' = "running"
      BY <2>1, <2>2, <2>3, ProgressIs DEF Progress
  <2>5. \A l \in Task : l # k => Progress(l)' = Progress(l)
      BY <2>1, <2>2, <2>3 DEF Progress
  <2>6. Mapped' = [Mapped EXCEPT ![k] = "running"]
      BY <2>2, <2>4, <2>5, OneMoves
  <2>7. \A l \in Task : Progress(l) = "queued" => Priority[k] <= Priority[l]
      BY <2>1, ProgressIs DEF Tops
  <2>8. destructor # "returned"
      BY <2>2 DEF Inv, AliveInv
  <2> QED
      BY <2>2, <2>4, <2>6, <2>7, <2>8 DEF Pool!Start, Mapped
<1>3. ASSUME NEW w \in Worker, FinishTask(w) PROVE \E k \in Task : Pool!Finish(k)
  <2> DEFINE k == task[w]
  <2>1. /\ k \in Task /\ pc[w] = "running" /\ done' = done \union {k}
        /\ task' = [task EXCEPT ![w] = NoTask] /\ UNCHANGED <<tasks, destructor>>
      BY <1>3 DEF FinishTask, Inv, TypeOK, WorkerInv
  <2>0. PICK j \in Task : j = k
      BY <2>1
  <2>2. \A l \in Task : Running(l)' <=> Running(l) /\ l # j
      BY <2>0, <2>1, ThreadPoolAssumption
      DEF Running, Inv, TypeOK, TasksConserved, ThreadPoolAssumption
  <2>3. Running(j) /\ j \notin tasks
      BY <2>0 DEF Running, Inv, TasksConserved
  <2>4. j \in done' /\ \A l \in Task : l # j => (l \in done' <=> l \in done)
      BY <2>0, <2>1
  <2>5. Progress(j) = "running" /\ Progress(j)' = "done"
      BY <2>1, <2>2, <2>3, <2>4, ProgressIs DEF Progress
  <2>6. \A l \in Task : l # j => Progress(l)' = Progress(l)
      BY <2>1, <2>2, <2>4 DEF Progress
  <2>7. Mapped' = [Mapped EXCEPT ![j] = "done"]
      BY <2>5, <2>6, OneMoves
  <2>8. destructor # "returned"
      BY <2>1 DEF Inv, AliveInv
  <2> QED
      BY <2>1, <2>5, <2>7, <2>8 DEF Pool!Finish, Mapped
<1>4. CASE Joined
  <2>1. tasks = {} /\ \A w \in Worker : task[w] = NoTask
      BY <1>4 DEF Joined, Inv, AliveInv, WorkerInv
  <2>2. \A k \in Task : ~ Running(k)
      BY <2>1, ThreadPoolAssumption DEF Running, ThreadPoolAssumption
  <2>3. \A k \in Task : Progress(k) \in {"new", "done"}
      BY <2>1, <2>2 DEF Progress
  <2>4. Mapped' = Mapped
      BY <1>4, NoneMoves DEF Joined
  <2> QED
      BY <1>4, <2>3, <2>4 DEF Joined, Pool!Close, Pool!PoolNext, Mapped
<1>5. ASSUME UNCHANGED <<tasks, task, done, destructor>>
      PROVE  UNCHANGED Pool!poolVars
    BY <1>5, NoneMoves DEF Pool!poolVars, Mapped
<1>6. ASSUME \/ \E k \in Task : NotifyOne(k)
             \/ \E w \in Worker : Wait(w) \/ Exit(w) \/ SpuriousWake(w)
             \/ UNCHANGED vars
      PROVE  UNCHANGED <<tasks, task, done, destructor>>
    BY <1>6 DEF NotifyOne, Wait, Exit, SpuriousWake, vars
<1>7. ASSUME SetStop \/ NotifyAll PROVE UNCHANGED Pool!poolVars
  <2>1. Mapped' = Mapped
      BY <1>7, NoneMoves DEF SetStop, NotifyAll
  <2>2. destructor # "returned" /\ destructor' # "returned"
      BY <1>7 DEF SetStop, NotifyAll
  <2> QED
      BY <2>1, <2>2 DEF Pool!poolVars, Mapped
<1> QED
    BY <1>1, <1>2, <1>3, <1>4, <1>5, <1>6, <1>7
    DEF Next, WorkerStep, Pool!PoolNext

\* thread_pool, with its mutex, condition variable and two-step enqueue, does
\* what TaskPool promises: every step is one of its steps or changes nothing
\* it can see.
THEOREM Refinement == Spec => PoolPromise
<1>1. Spec => [][Pool!PoolNext]_(Pool!poolVars)
    BY InvHolds, RefinesNext, PTL DEF Spec
<1> QED
    BY RefinesInit, <1>1, PTL DEF Spec, PoolPromise, Pool!PoolSpec

===============================================================================
