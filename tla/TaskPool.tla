------------------------------ MODULE TaskPool ------------------------------
(***************************************************************************)
(* What dpp::thread_pool promises: every task it is given is executed once *)
(* and to its end, a task is begun only when no more urgent one waits, and *)
(* the pool closes only when nothing is left to do.                        *)
(***************************************************************************)
EXTENDS Integers

CONSTANTS
    Task,
    Priority   \* a function from Task to Int

VARIABLES
    progress,   \* of each task
    closed      \* the pool's destructor has returned

poolVars == <<progress, closed>>

PoolInit ==
    /\ progress = [k \in Task |-> "new"]
    /\ closed = FALSE

Submit(k) ==
    /\ ~ closed /\ progress[k] = "new"
    /\ progress' = [progress EXCEPT ![k] = "queued"]
    /\ UNCHANGED closed

\* Lower values are more urgent.
Start(k) ==
    /\ ~ closed /\ progress[k] = "queued"
    /\ \A l \in Task : progress[l] = "queued" => Priority[k] <= Priority[l]
    /\ progress' = [progress EXCEPT ![k] = "running"]
    /\ UNCHANGED closed

Finish(k) ==
    /\ ~ closed /\ progress[k] = "running"
    /\ progress' = [progress EXCEPT ![k] = "done"]
    /\ UNCHANGED closed

Close ==
    /\ ~ closed
    /\ \A k \in Task : progress[k] \in {"new", "done"}
    /\ closed' = TRUE
    /\ UNCHANGED progress

PoolNext ==
    \/ \E k \in Task : Submit(k) \/ Start(k) \/ Finish(k)
    \/ Close

PoolSpec == PoolInit /\ [][PoolNext]_poolVars

=============================================================================
