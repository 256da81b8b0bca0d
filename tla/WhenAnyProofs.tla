---------------------------- MODULE WhenAnyProofs ----------------------------
(***************************************************************************)
(* What when_any and the event router promise, for any number of           *)
(* arguments, events and listeners.                                        *)
(*                                                                         *)
(* The invariants the runs check say where an awaiter is and what the      *)
(* owner has.  They are not inductive: AwaiterInv adds how awaitable::     *)
(* state, the place in cancel and the two vectors agree, EventInv that a   *)
(* handler runs in the loop over the listeners only and that the thread of *)
(* a call is inside one resumed job at most, and ResultInv that one job at *)
(* most is between fetch_or(done) and fetch_or(ready), and that the        *)
(* destructor's store leaves a flag that stops every later one.            *)
(***************************************************************************)
EXTENDS WhenAny, WellFoundedInduction, TLAPS

AwaiterAt(a) ==
    \/ /\ astate[a] = "none" /\ cancelling[a] = "no"
       /\ job[a] # "suspended" /\ a \notin coro_awaiters
    \/ /\ astate[a] = "waiting" /\ cancelling[a] = "no"
       /\ job[a] = "suspended" /\ a \in coro_awaiters
    \/ /\ astate[a] = "resuming" /\ cancelling[a] = "no"
       /\ job[a] = "suspended" /\ a \notin coro_awaiters
       /\ (\E c \in Call : a \in to_resume[c]) \/ a \in forgotten
    \/ /\ astate[a] = "cancelling" /\ cancelling[a] = "detach"
       /\ job[a] = "suspended" /\ a \in coro_awaiters
    \/ /\ astate[a] = "cancelling" /\ cancelling[a] = "resume"
       /\ job[a] = "suspended" /\ a \notin coro_awaiters

AwaiterInv ==
    /\ \A a \in Awaiter : AwaiterAt(a)
    /\ \A c \in Call : \A a \in to_resume[c] :
        astate[a] = "resuming" /\ \A d \in Call \ {c} : a \notin to_resume[d]
    /\ \A c \in Call : at[c] # "resume" => to_resume[c] = {}

EventInv ==
    /\ \A c \in Call : current[c] # NoHandle => at[c] = "listeners"
    /\ \A c \in Call : at[c] = "ended" => tasks[c] = {} \/ c \in threw
    /\ \A j \in Async : by[j] = NoCall
    /\ \A j \in Awaiter : job[j] \in Running => by[j] \in Call /\ at[by[j]] = "resume"
    /\ \A i, j \in Awaiter :
        job[i] \in Running /\ job[j] \in Running /\ by[i] = by[j] => i = j
    /\ ~ CanThrow => threw = {} /\ forgotten = {}

Writing(j) == job[j] \in {"write", "publish"}

ResultInv ==
    /\ \A i, j \in Job : Writing(i) /\ Writing(j) => i = j
    /\ \A j \in Job : Writing(j) =>
        "ready" \notin owner_state /\ got = NoIndex /\ TooLate(owner_state)
    /\ "ready" \in owner_state \/ got # NoIndex => TooLate(owner_state)
    /\ \A j \in Job : job[j] = "publish" => index_finished = j
    /\ got # NoIndex => index_finished = got /\ owner \in {"have", "cancel", "gone"}

-----------------------------------------------------------------------------
\* std::map has a first element.
LEMMA FirstOf ==
    ASSUME NEW S \in SUBSET Handle, S # {}
    PROVE  First(S) \in S
<1>1. S \subseteq Nat
  BY EventRouterAssumption DEF Handle
<1>2. PICK x \in S : \A y \in S : ~ (<<y, x>> \in OpToRel(<, Nat))
  BY <1>1, NatLessThanWellFounded, WFMin
<1>3. \A y \in S : ~ (y < x)
  BY <1>1, <1>2 DEF OpToRel
<1>4. \A y \in S : x <= y
  BY <1>1, <1>3
<1> QED BY <1>4 DEF First

LEMMA TypeStep ==
    ASSUME TypeOK, [Next]_vars
    PROVE  TypeOK'
<1> USE EventRouterAssumption, WhenAnyAssumption
<1>1. CASE UNCHANGED vars
  BY <1>1 DEF vars, routerVars, handlerVars, awaiterVars, callVars, endVars, whenAnyVars, TypeOK, RouterTypeOK
<1>2. CASE UseRouter
  <2> USE <1>2 DEF UseRouter, handlerVars, awaiterVars, callVars, endVars, whenAnyVars, TypeOK, RouterTypeOK
  <2>1. CASE Attach
    BY <2>1 DEF Attach, Handle
  <2>2. ASSUME NEW h \in Handle, Detach(h)
        PROVE  TypeOK'
    BY <2>2 DEF Detach
  <2>3. ASSUME NEW c \in Call, CallEvent(c)
        PROVE  TypeOK'
    BY <2>3 DEF CallEvent, CallPC
  <2> QED BY <2>1, <2>2, <2>3
<1>3. ASSUME NEW j \in Async, AsyncCallback(j)
      PROVE  TypeOK'
  BY <1>3 DEF AsyncCallback, routerVars, handlerVars, awaiterVars, callVars, endVars,
              TypeOK, RouterTypeOK, PromiseFlag, JobPC, Async
<1>4. CASE DestroyRouter
  BY <1>4 DEF DestroyRouter, routerVars, handlerVars, awaiterVars, callVars, endVars, whenAnyVars,
              TypeOK, RouterTypeOK
<1>5. ASSUME NEW c \in Call, CallStep(c)
      PROVE  TypeOK'
  <2> USE <1>5 DEF CallStep, handlerVars, awaiterVars, endVars, whenAnyVars, TypeOK, RouterTypeOK
  <2>1. ASSUME NEW S \in SUBSET Awaiter, ClaimAwaiters(c, S)
        PROVE  TypeOK'
    BY <2>1 DEF ClaimAwaiters, Claimed, CallPC, AwaiterState
  <2>2. CASE EnterListeners(c)
    BY <2>2 DEF EnterListeners, CallPC
  <2>3. CASE BeginHandler(c)
    <3>1. First(left[c]) \in Handle
      BY <2>3, FirstOf DEF BeginHandler
    <3> QED BY <2>3, <3>1 DEF BeginHandler
  <2>4. ASSUME NEW b \in BOOLEAN, NEW o \in Outcome, EndHandler(c, b, o)
        PROVE  TypeOK'
    BY <2>4 DEF EndHandler
  <2>5. CASE LeaveListeners(c)
    BY <2>5 DEF LeaveListeners, CallPC
  <2>6. ASSUME NEW h \in Handle, NEW f \in BOOLEAN, FinishTask(c, h, f)
        PROVE  TypeOK'
    BY <2>6 DEF FinishTask
  <2>7. CASE EndCall(c)
    BY <2>7 DEF EndCall, CallPC
  <2>8. ASSUME NEW a \in Awaiter, NEW S \in SUBSET Awaiter, PredicateThrows(c, a, S)
        PROVE  TypeOK'
    BY <2>8 DEF PredicateThrows, Unwind, CallPC, AwaiterState
  <2>9. CASE HandlerThrows(c) \/ TaskRethrows(c)
    <3>1. Unwind(c, {}) /\ UNCHANGED <<handlerVars, awaiterVars, tasks>>
      BY <2>9 DEF HandlerThrows, TaskRethrows
    <3>2. threw' \subseteq Call
      BY <3>1 DEF Unwind
    <3> QED BY <3>1, <3>2 DEF Unwind, CallPC
  <2> HIDE DEF TypeOK, RouterTypeOK
  <2>10. CASE \E S \in SUBSET Awaiter : ClaimAwaiters(c, S)
    BY <2>1, <2>10
  <2>11. CASE \E b \in BOOLEAN, o \in Outcome : EndHandler(c, b, o)
    BY <2>4, <2>11
  <2>12. CASE \E h \in Handle, f \in BOOLEAN : FinishTask(c, h, f)
    BY <2>6, <2>12
  <2>13. CASE \E a \in Awaiter, S \in SUBSET Awaiter : PredicateThrows(c, a, S)
    BY <2>8, <2>13
  <2> QED BY <2>2, <2>3, <2>5, <2>7, <2>9, <2>10, <2>11, <2>12, <2>13
<1>6. ASSUME NEW c \in Call, NEW j \in Awaiter, ResumeJob(c, j)
      PROVE  TypeOK'
  BY <1>6 DEF ResumeJob, ResumeAwaiter, handlerVars, endVars, TypeOK, RouterTypeOK, AwaiterState, Job, JobPC
<1>7. ASSUME NEW j \in Job, JobStep(j)
      PROVE  TypeOK'
  <2>1. CASE ~ JobThrows(j)
    BY <1>7, <2>1 DEF JobStep, JobDone, JobWrite, JobPublish, JobReturns, routerVars, handlerVars,
                      awaiterVars, callVars, endVars, TypeOK, RouterTypeOK, JobPC, OwnerFlag, OwnerPC
  <2>2. CASE JobThrows(j) /\ UNCHANGED routerVars
    BY <2>2 DEF JobThrows, routerVars, handlerVars, awaiterVars, callVars, endVars,
                TypeOK, RouterTypeOK, JobPC
  <2>3. CASE JobThrows(j) /\ by[j] \in Call /\ ResumeThrows(by[j])
    BY <2>3 DEF JobThrows, ResumeThrows, Unwind, handlerVars, awaiterVars, TypeOK, RouterTypeOK,
                JobPC, CallPC
  <2> QED BY <1>7, <2>1, <2>2, <2>3 DEF JobThrows, TypeOK
<1>8. ASSUME NEW j \in Awaiter, CancelStep(j)
      PROVE  TypeOK'
  <2> USE <1>8 DEF CancelStep, handlerVars, callVars, endVars, TypeOK, RouterTypeOK
  <2>1. CASE DetachCoro(j) /\ UNCHANGED job
    BY <2>1 DEF DetachCoro
  <2>2. CASE EndCancelledJob(j)
    BY <2>2 DEF EndCancelledJob, ResumeCancelled, AwaiterState, Job, JobPC
  <2> QED BY <2>1, <2>2
<1>9. CASE OwnerStep
  <2>1. CASE OwnerConstruct
    <3>1. CASE next > NumJobs
      <4>1. /\ owner' = "work" /\ next' = 1
            /\ UNCHANGED <<routerVars, promise, job, by, owner_state, index_finished, got, destroying>>
        BY <2>1, <3>1 DEF OwnerConstruct
      <4>2. next' \in 1..(NumJobs + 1) /\ owner' \in OwnerPC
        BY <4>1 DEF OwnerPC
      <4> QED BY <4>1, <4>2 DEF routerVars, handlerVars, awaiterVars, callVars, endVars, TypeOK, RouterTypeOK
    <3>2. CASE ~ (next > NumJobs)
      <4>1. next \in Job /\ next' = next + 1 /\ next' \in 1..(NumJobs + 1) /\ StartJob(next)
        BY <2>1, <3>2 DEF OwnerConstruct, TypeOK, Job
      <4>2. CASE next \in Awaiter /\ AttachAwaiter(next)
        BY <2>1, <3>2, <4>1, <4>2
           DEF OwnerConstruct, StartJob, AttachAwaiter, Async, handlerVars, callVars, endVars,
               TypeOK, RouterTypeOK, AwaiterState, JobPC
      <4>3. CASE next \in Async /\ UNCHANGED routerVars
        BY <2>1, <3>2, <4>1, <4>3
           DEF OwnerConstruct, StartJob, Async, routerVars, handlerVars, awaiterVars, callVars, endVars,
               TypeOK, RouterTypeOK, JobPC, PromiseFlag
      <4> QED BY <4>1, <4>2, <4>3 DEF StartJob
    <3> QED BY <3>1, <3>2
  <2>2. CASE OwnerAwait \/ OwnerSuspend \/ OwnerDestroy
    BY <2>2 DEF OwnerAwait, OwnerSuspend, OwnerDestroy, routerVars, handlerVars, awaiterVars,
                callVars, endVars, TypeOK, RouterTypeOK, OwnerPC, OwnerFlag
  <2>3. CASE OwnerCancel
    <3>1. /\ UNCHANGED <<promise, job, by, owner_state, index_finished, got, destroying>>
          /\ next' \in 1..(NumJobs + 1) /\ owner' \in OwnerPC
      BY <2>3 DEF OwnerCancel, PastLast, TypeOK, OwnerPC
    <3>2. CASE UNCHANGED routerVars
      BY <3>1, <3>2 DEF routerVars, handlerVars, awaiterVars, callVars, endVars, TypeOK, RouterTypeOK
    <3>3. CASE next \in Awaiter /\ BeginCancel(next)
      BY <3>1, <3>3 DEF BeginCancel, handlerVars, callVars, endVars, TypeOK, RouterTypeOK, AwaiterState
    <3> QED BY <2>3, <3>2, <3>3 DEF OwnerCancel
  <2> QED BY <1>9, <2>1, <2>2, <2>3 DEF OwnerStep
<1>10. ASSUME NEW j \in Awaiter, RouterCancel(j)
       PROVE  TypeOK'
  BY <1>10 DEF RouterCancel, BeginCancel, whenAnyVars, handlerVars, callVars, endVars,
               TypeOK, RouterTypeOK, AwaiterState
<1> QED BY <1>1, <1>2, <1>3, <1>4, <1>5, <1>6, <1>7, <1>8, <1>9, <1>10 DEF Next, Progress

-----------------------------------------------------------------------------
(* Where the awaiters are.                                                 *)

\* A step that leaves the awaiters alone and suspends or resumes none.
LEMMA AwaitersKept ==
    ASSUME AwaiterInv, UNCHANGED <<coro_awaiters, astate, cancelling, to_resume>>,
           forgotten \subseteq forgotten',
           \A a \in Awaiter : job'[a] = "suspended" <=> job[a] = "suspended",
           \A c \in Call : at'[c] # "resume" => at[c] # "resume" \/ to_resume[c] = {}
    PROVE  AwaiterInv'
<1>1. ASSUME NEW a \in Awaiter PROVE AwaiterAt(a)'
  BY DEF AwaiterInv, AwaiterAt
<1> QED BY <1>1 DEF AwaiterInv

\* cancel() of an awaiter that waits.
LEMMA BeginCancelKeeps ==
    ASSUME TypeOK, AwaiterInv, NEW j \in Awaiter, BeginCancel(j), UNCHANGED job
    PROVE  AwaiterInv'
<1>1. /\ astate[j] = "waiting" /\ UNCHANGED <<coro_awaiters, to_resume, at, forgotten>>
      /\ \A a \in Awaiter : /\ astate'[a] = IF a = j THEN "cancelling" ELSE astate[a]
                            /\ cancelling'[a] = IF a = j THEN "detach" ELSE cancelling[a]
  BY DEF BeginCancel, callVars, endVars, TypeOK, RouterTypeOK
<1>2. ASSUME NEW a \in Awaiter PROVE AwaiterAt(a)'
  BY <1>1 DEF AwaiterInv, AwaiterAt
<1> QED BY <1>1, <1>2 DEF AwaiterInv, TypeOK, RouterTypeOK

LEMMA AwaiterStep ==
    ASSUME TypeOK, AwaiterInv, EventInv, [Next]_vars
    PROVE  AwaiterInv'
<1> USE WhenAnyAssumption
<1>1. CASE UNCHANGED <<at, coro_awaiters, astate, cancelling, to_resume, job, forgotten>>
  BY <1>1, AwaitersKept
<1>2. CASE UseRouter
  <2>1. UNCHANGED <<coro_awaiters, astate, cancelling, to_resume, job, forgotten>>
    BY <1>2 DEF UseRouter, Attach, Detach, CallEvent, awaiterVars, callVars, endVars, whenAnyVars
  <2>2. \A c \in Call : at'[c] # "resume" => at[c] # "resume"
    BY <1>2 DEF UseRouter, Attach, Detach, CallEvent, callVars, endVars, TypeOK, RouterTypeOK
  <2> QED BY <2>1, <2>2, AwaitersKept
<1>3. ASSUME NEW j \in Async, AsyncCallback(j)
      PROVE  AwaiterInv'
  <2>1. UNCHANGED <<at, coro_awaiters, astate, cancelling, to_resume, forgotten>>
    BY <1>3 DEF AsyncCallback, routerVars, awaiterVars, callVars, endVars
  <2>2. \A a \in Awaiter : job'[a] = job[a]
    BY <1>3 DEF AsyncCallback, Async, TypeOK
  <2> QED BY <2>1, <2>2, AwaitersKept
<1>4. ASSUME NEW c \in Call, CallStep(c)
      PROVE  AwaiterInv'
  <2>1. UNCHANGED job
    BY <1>4 DEF CallStep, whenAnyVars
  <2>2. ASSUME NEW S \in SUBSET Awaiter, ClaimAwaiters(c, S)
        PROVE  AwaiterInv'
    <3>1. /\ at[c] = "awaiters" /\ UNCHANGED <<cancelling, forgotten>>
          /\ at' = [at EXCEPT ![c] = "resume"]
          /\ to_resume' = [to_resume EXCEPT ![c] = Claimed(S)]
          /\ coro_awaiters' = coro_awaiters \ Claimed(S)
          /\ \A a \in Awaiter : astate'[a] = IF a \in Claimed(S) THEN "resuming" ELSE astate[a]
          /\ \A a \in Claimed(S) : a \in Awaiter /\ a \in coro_awaiters /\ astate[a] = "waiting"
      BY <2>2 DEF ClaimAwaiters, Claimed, endVars, TypeOK, RouterTypeOK
    <3>2. to_resume[c] = {}
      BY <3>1 DEF AwaiterInv
    <3>3. \A d \in Call : to_resume'[d] = IF d = c THEN Claimed(S) ELSE to_resume[d]
      BY <3>1 DEF TypeOK, RouterTypeOK
    <3>4. ASSUME NEW a \in Awaiter PROVE AwaiterAt(a)'
      <4>1. AwaiterAt(a)
        BY DEF AwaiterInv
      <4>2. CASE a \in Claimed(S)
        BY <2>1, <3>1, <3>3, <4>1, <4>2 DEF AwaiterAt
      <4>3. CASE a \notin Claimed(S)
        BY <2>1, <3>1, <3>2, <3>3, <4>1, <4>3 DEF AwaiterAt
      <4> QED BY <4>2, <4>3
    <3>5. ASSUME NEW d \in Call, NEW a \in to_resume'[d]
          PROVE  astate'[a] = "resuming" /\ \A e \in Call \ {d} : a \notin to_resume'[e]
      <4>1. CASE d = c
        <5>1. a \in Claimed(S) /\ astate[a] = "waiting" /\ astate'[a] = "resuming"
          BY <3>1, <3>3, <3>5, <4>1
        <5>2. \A e \in Call : a \notin to_resume[e]
          BY <5>1 DEF AwaiterInv
        <5> QED BY <3>3, <4>1, <5>1, <5>2
      <4>2. CASE d # c
        <5>1. a \in to_resume[d] /\ a \in Awaiter /\ astate[a] = "resuming"
          BY <3>3, <3>5, <4>2 DEF AwaiterInv, TypeOK, RouterTypeOK
        <5> QED BY <3>1, <3>3, <5>1 DEF AwaiterInv
      <4> QED BY <4>1, <4>2
    <3>6. \A d \in Call : at'[d] # "resume" => to_resume'[d] = {}
      BY <3>1, <3>3 DEF AwaiterInv, TypeOK, RouterTypeOK
    <3> QED BY <3>4, <3>5, <3>6 DEF AwaiterInv
  <2>3. ASSUME NEW b \in Awaiter, NEW S \in SUBSET Awaiter, PredicateThrows(c, b, S)
        PROVE  AwaiterInv'
    <3>1. /\ at[c] = "awaiters" /\ UNCHANGED cancelling
          /\ at' = [at EXCEPT ![c] = "ended"]
          /\ coro_awaiters' = coro_awaiters \ S
          /\ forgotten' = forgotten \union S
          /\ \A a \in Awaiter : astate'[a] = IF a \in S THEN "resuming" ELSE astate[a]
          /\ \A a \in S : a \in Awaiter /\ a \in coro_awaiters /\ astate[a] = "waiting"
      BY <2>3 DEF PredicateThrows, Unwind, Claimed, TypeOK, RouterTypeOK
    <3>2. UNCHANGED to_resume
      <4>1. to_resume[c] = {}
        BY <3>1 DEF AwaiterInv
      <4> QED BY <2>3, <4>1 DEF PredicateThrows, Unwind, TypeOK, RouterTypeOK
    <3>3. ASSUME NEW a \in Awaiter PROVE AwaiterAt(a)'
      <4>1. AwaiterAt(a)
        BY DEF AwaiterInv
      <4>2. CASE a \in S
        BY <2>1, <3>1, <3>2, <4>1, <4>2 DEF AwaiterAt
      <4>3. CASE a \notin S
        BY <2>1, <3>1, <3>2, <4>1, <4>3 DEF AwaiterAt
      <4> QED BY <4>2, <4>3
    <3>4. \A d \in Call : \A a \in to_resume[d] : a \in Awaiter /\ a \notin S
      BY <3>1 DEF AwaiterInv, TypeOK, RouterTypeOK
    <3>5. \A d \in Call : at'[d] # "resume" => at[d] # "resume"
      BY <3>1 DEF TypeOK, RouterTypeOK
    <3> QED BY <3>1, <3>2, <3>3, <3>4, <3>5 DEF AwaiterInv
  <2>4. CASE HandlerThrows(c) \/ TaskRethrows(c)
    <3>1. at[c] # "resume" /\ to_resume[c] = {}
      BY <2>4 DEF HandlerThrows, TaskRethrows, EventInv, AwaiterInv
    <3>2. /\ UNCHANGED <<coro_awaiters, astate, cancelling>>
          /\ to_resume' = [to_resume EXCEPT ![c] = {}]
          /\ at' = [at EXCEPT ![c] = "ended"]
          /\ forgotten \subseteq forgotten'
      BY <2>4 DEF HandlerThrows, TaskRethrows, Unwind, awaiterVars
    <3>3. UNCHANGED to_resume
      BY <3>1, <3>2 DEF TypeOK, RouterTypeOK
    <3>4. \A d \in Call : at'[d] # "resume" => at[d] # "resume" \/ to_resume[d] = {}
      BY <3>1, <3>2 DEF TypeOK, RouterTypeOK
    <3> QED BY <2>1, <3>2, <3>3, <3>4, AwaitersKept
  <2>5. CASE \/ EnterListeners(c) \/ BeginHandler(c) \/ LeaveListeners(c) \/ EndCall(c)
             \/ (\E b \in BOOLEAN, o \in Outcome : EndHandler(c, b, o))
             \/ (\E h \in Handle, f \in BOOLEAN : FinishTask(c, h, f))
    <3>1. UNCHANGED <<coro_awaiters, astate, cancelling, to_resume, forgotten>>
      BY <2>5 DEF EnterListeners, BeginHandler, EndHandler, LeaveListeners,
                  FinishTask, EndCall, awaiterVars, endVars
    <3>2. \A d \in Call : at'[d] # "resume" => at[d] # "resume" \/ to_resume[d] = {}
      BY <2>5 DEF EnterListeners, BeginHandler, EndHandler, LeaveListeners,
                  FinishTask, EndCall, AllResumed, TypeOK, RouterTypeOK
    <3> QED BY <2>1, <3>1, <3>2, AwaitersKept
  <2> QED BY <1>4, <2>2, <2>3, <2>4, <2>5 DEF CallStep
<1>5. ASSUME NEW c \in Call, NEW j \in Awaiter, ResumeJob(c, j)
      PROVE  AwaiterInv'
  <2>1. /\ j \in to_resume[c] /\ UNCHANGED <<coro_awaiters, cancelling, at, forgotten>>
        /\ \A d \in Call : to_resume'[d] = IF d = c THEN to_resume[c] \ {j} ELSE to_resume[d]
        /\ \A a \in Awaiter : /\ astate'[a] = IF a = j THEN "none" ELSE astate[a]
                              /\ job'[a] = IF a = j THEN "resumed" ELSE job[a]
    BY <1>5 DEF ResumeJob, ResumeAwaiter, endVars, TypeOK, RouterTypeOK, Job
  <2>2. ASSUME NEW a \in Awaiter PROVE AwaiterAt(a)'
    <3>1. AwaiterAt(a)
      BY DEF AwaiterInv
    <3>2. CASE a = j
      BY <2>1, <3>1, <3>2 DEF AwaiterInv, AwaiterAt
    <3>3. CASE a # j
      <4>1. (\E d \in Call : a \in to_resume[d]) \/ a \in forgotten
              => (\E d \in Call : a \in to_resume'[d]) \/ a \in forgotten'
        BY <2>1, <3>3
      <4>2. /\ astate'[a] = astate[a] /\ job'[a] = job[a] /\ cancelling'[a] = cancelling[a]
            /\ coro_awaiters' = coro_awaiters
        BY <2>1, <3>3
      <4> QED BY <3>1, <4>1, <4>2 DEF AwaiterAt
    <3> QED BY <3>2, <3>3
  <2>3. ASSUME NEW d \in Call, NEW a \in to_resume'[d]
        PROVE  astate'[a] = "resuming" /\ \A e \in Call \ {d} : a \notin to_resume'[e]
    <3>1. a \in to_resume[d] /\ a \in Awaiter
      BY <2>1, <2>3 DEF TypeOK, RouterTypeOK
    <3>2. a # j
      BY <2>1, <2>3, <3>1 DEF AwaiterInv
    <3>3. astate[a] = "resuming" /\ \A e \in Call \ {d} : a \notin to_resume[e]
      BY <3>1 DEF AwaiterInv
    <3>4. astate'[a] = "resuming"
      BY <2>1, <3>1, <3>2, <3>3
    <3>5. \A e \in Call : to_resume'[e] \subseteq to_resume[e]
      BY <2>1
    <3> QED BY <3>3, <3>4, <3>5
  <2>4. \A d \in Call : at'[d] # "resume" => to_resume'[d] = {}
    BY <2>1 DEF AwaiterInv
  <2> QED BY <2>2, <2>3, <2>4 DEF AwaiterInv
<1>6. ASSUME NEW j \in Job, JobStep(j)
      PROVE  AwaiterInv'
  <2>2. job[j] # "suspended" /\ job'[j] # "suspended" /\ \A a \in Job \ {j} : job'[a] = job[a]
    BY <1>6 DEF JobStep, JobDone, JobWrite, JobPublish, JobReturns, JobThrows, TypeOK
  <2>3. \A a \in Awaiter : job'[a] = "suspended" <=> job[a] = "suspended"
    BY <2>2 DEF Job
  <2>4. CASE UNCHANGED routerVars
    BY <2>3, <2>4, AwaitersKept DEF routerVars, awaiterVars, callVars, endVars
  <2>5. CASE by[j] \in Call /\ ResumeThrows(by[j])
    <3> DEFINE c == by[j]
    <3>1. /\ UNCHANGED <<coro_awaiters, astate, cancelling>>
          /\ \A d \in Call : to_resume'[d] = IF d = c THEN {} ELSE to_resume[d]
          /\ \A d \in Call : at'[d] = IF d = c THEN "ended" ELSE at[d]
          /\ forgotten' = forgotten \union to_resume[c]
      BY <2>5 DEF ResumeThrows, Unwind, awaiterVars, TypeOK, RouterTypeOK
    <3>2. ASSUME NEW a \in Awaiter PROVE AwaiterAt(a)'
      <4>1. AwaiterAt(a)
        BY DEF AwaiterInv
      <4>2. (\E d \in Call : a \in to_resume[d]) \/ a \in forgotten
              => (\E d \in Call : a \in to_resume'[d]) \/ a \in forgotten'
        BY <3>1
      <4> QED BY <2>3, <3>1, <4>1, <4>2 DEF AwaiterAt
    <3> QED BY <3>1, <3>2 DEF AwaiterInv
  <2> QED BY <1>6, <2>4, <2>5
         DEF JobStep, JobDone, JobWrite, JobPublish, JobReturns, JobThrows, TypeOK
<1>7. ASSUME NEW j \in Awaiter, CancelStep(j)
      PROVE  AwaiterInv'
  <2>1. AwaiterAt(j)
    BY DEF AwaiterInv
  <2>2. CASE DetachCoro(j) /\ UNCHANGED job
    <3>1. /\ cancelling[j] = "detach" /\ UNCHANGED <<astate, to_resume, at, job, forgotten>>
          /\ \A a \in Awaiter : cancelling'[a] = IF a = j THEN "resume" ELSE cancelling[a]
          /\ coro_awaiters' = coro_awaiters \ {j}
      BY <2>2 DEF DetachCoro, callVars, endVars, TypeOK, RouterTypeOK
    <3>2. ASSUME NEW a \in Awaiter PROVE AwaiterAt(a)'
      BY <2>1, <3>1 DEF AwaiterInv, AwaiterAt
    <3> QED BY <3>1, <3>2 DEF AwaiterInv
  <2>3. CASE EndCancelledJob(j)
    <3>1. /\ cancelling[j] = "resume" /\ UNCHANGED <<coro_awaiters, to_resume, at, forgotten>>
          /\ \A a \in Awaiter : /\ cancelling'[a] = IF a = j THEN "no" ELSE cancelling[a]
                                /\ astate'[a] = IF a = j THEN "none" ELSE astate[a]
                                /\ job'[a] = IF a = j THEN "ended" ELSE job[a]
      BY <2>3 DEF EndCancelledJob, ResumeCancelled, callVars, endVars, TypeOK, RouterTypeOK, Job
    <3>2. ASSUME NEW a \in Awaiter PROVE AwaiterAt(a)'
      BY <2>1, <3>1 DEF AwaiterInv, AwaiterAt
    <3>3. astate[j] = "cancelling"
      BY <2>1, <3>1 DEF AwaiterAt
    <3>4. \A c \in Call : \A a \in to_resume[c] : a \in Awaiter /\ a # j
      BY <3>3 DEF AwaiterInv, TypeOK, RouterTypeOK
    <3> QED BY <3>1, <3>2, <3>4 DEF AwaiterInv
  <2> QED BY <1>7, <2>2, <2>3 DEF CancelStep
<1>8. CASE OwnerConstruct
  <2>1. CASE next > NumJobs
    BY <1>8, <2>1, <1>1 DEF OwnerConstruct, routerVars, awaiterVars, callVars, endVars
  <2>2. CASE ~ (next > NumJobs)
    <3>1. next \in Job /\ StartJob(next)
      BY <1>8, <2>2 DEF OwnerConstruct, TypeOK, Job
    <3>2. CASE next \in Awaiter /\ AttachAwaiter(next)
      <4>1. /\ astate[next] = "none" /\ UNCHANGED <<cancelling, to_resume, at, forgotten>>
            /\ coro_awaiters' = coro_awaiters \union {next}
            /\ \A a \in Awaiter : /\ astate'[a] = IF a = next THEN "waiting" ELSE astate[a]
                                  /\ job'[a] = IF a = next THEN "suspended" ELSE job[a]
        BY <3>1, <3>2 DEF StartJob, AttachAwaiter, Async, callVars, endVars, TypeOK, RouterTypeOK, Job
      <4>2. ASSUME NEW a \in Awaiter PROVE AwaiterAt(a)'
        BY <4>1 DEF AwaiterInv, AwaiterAt
      <4>3. \A c \in Call : \A a \in to_resume[c] : a \in Awaiter /\ a # next
        BY <4>1 DEF AwaiterInv, TypeOK, RouterTypeOK
      <4> QED BY <4>1, <4>2, <4>3 DEF AwaiterInv
    <3>3. CASE next \in Async /\ UNCHANGED routerVars
      <4>1. \A a \in Awaiter : job'[a] = job[a]
        <5>1. job' = [job EXCEPT ![next] = IF "ready" \in promise[next] THEN "resumed" ELSE "suspended"]
          BY <3>1, <3>3 DEF StartJob, Async
        <5> QED BY <3>3, <5>1 DEF Async, Job, TypeOK
      <4> QED BY <3>3, <4>1, AwaitersKept DEF routerVars, awaiterVars, callVars, endVars
    <3> QED BY <3>1, <3>2, <3>3 DEF StartJob
  <2> QED BY <2>1, <2>2
<1>9. CASE OwnerCancel
  <2>1. UNCHANGED job
    BY <1>9 DEF OwnerCancel
  <2>2. CASE next \in Awaiter /\ BeginCancel(next)
    BY <2>1, <2>2, BeginCancelKeeps
  <2>3. CASE ~ (next \in Awaiter /\ BeginCancel(next))
    <3>1. UNCHANGED <<at, coro_awaiters, astate, cancelling, to_resume, forgotten>>
      BY <1>9, <2>3 DEF OwnerCancel, routerVars, awaiterVars, callVars, endVars
    <3> QED BY <1>1, <2>1, <3>1
  <2> QED BY <2>2, <2>3
<1>10. ASSUME NEW j \in Awaiter, RouterCancel(j)
       PROVE  AwaiterInv'
  BY <1>10, BeginCancelKeeps DEF RouterCancel, whenAnyVars
<1>11. CASE UNCHANGED vars \/ DestroyRouter \/ OwnerAwait \/ OwnerSuspend \/ OwnerDestroy
  BY <1>1, <1>11 DEF vars, DestroyRouter, OwnerAwait, OwnerSuspend, OwnerDestroy, whenAnyVars,
                     routerVars, awaiterVars, callVars, endVars
<1> QED BY <1>2, <1>3, <1>4, <1>5, <1>6, <1>7, <1>8, <1>9, <1>10, <1>11
       DEF Next, Progress, OwnerStep

-----------------------------------------------------------------------------
(* The frame of handle_coro.                                               *)

\* A step that leaves the calls alone and resumes no job of an awaiter.
LEMMA CallsKept ==
    ASSUME EventInv, UNCHANGED <<at, current, tasks, threw, forgotten>>,
           \A a \in Awaiter : job'[a] \in Running => job[a] \in Running /\ by'[a] = by[a],
           \A a \in Async : by'[a] \in {by[a], NoCall}
    PROVE  EventInv'
BY DEF EventInv

\* A step of call c that ends no frame under a job the call has resumed.
LEMMA CallMoves ==
    ASSUME TypeOK, EventInv, NEW c \in Call, UNCHANGED <<job, by>>,
           \A d \in Call : d # c => at'[d] = at[d] /\ current'[d] = current[d] /\ tasks'[d] = tasks[d],
           at[c] = "resume" /\ at'[c] # "resume" => ~ Busy(c),
           current'[c] # NoHandle => at'[c] = "listeners",
           at'[c] = "ended" => tasks'[c] = {} \/ c \in threw',
           threw \subseteq threw', ~ CanThrow => threw' = {} /\ forgotten' = {}
    PROVE  EventInv'
<1> USE WhenAnyAssumption
<1>1. \A d \in Call : current'[d] # NoHandle => at'[d] = "listeners"
  BY DEF EventInv
<1>2. \A d \in Call : at'[d] = "ended" => tasks'[d] = {} \/ d \in threw'
  BY DEF EventInv
<1>3. ASSUME NEW j \in Awaiter, job'[j] \in Running
      PROVE  by'[j] \in Call /\ at'[by'[j]] = "resume"
  <2>1. j \in Job /\ job[j] \in Running /\ by'[j] = by[j] /\ by[j] \in Call /\ at[by[j]] = "resume"
    BY <1>3 DEF EventInv, Job
  <2>2. CASE by[j] = c
    BY <2>1, <2>2 DEF Busy
  <2>3. CASE by[j] # c
    BY <2>1, <2>3
  <2> QED BY <2>2, <2>3
<1> QED BY <1>1, <1>2, <1>3 DEF EventInv

LEMMA EventStep ==
    ASSUME TypeOK, EventInv, [Next]_vars
    PROVE  EventInv'
<1> USE WhenAnyAssumption, EventRouterAssumption
<1>1. \A j \in Awaiter : j \in Job /\ j \notin Async
  BY DEF Job, Async
<1>2. CASE UseRouter
  <2>1. UNCHANGED <<current, tasks, threw, forgotten, by, job>>
    BY <1>2 DEF UseRouter, Attach, Detach, CallEvent, callVars, endVars, whenAnyVars
  <2>2. CASE UNCHANGED at
    BY <2>1, <2>2, CallsKept
  <2>3. ASSUME NEW c \in Call, CallEvent(c)
        PROVE  EventInv'
    <3>1. at[c] = "unused" /\ \A d \in Call : at'[d] = IF d = c THEN "awaiters" ELSE at[d]
      BY <2>3 DEF CallEvent, TypeOK, RouterTypeOK
    <3>2. current'[c] = NoHandle
      BY <2>1, <3>1 DEF EventInv
    <3>3. ~ CanThrow => threw' = {} /\ forgotten' = {}
      BY <2>1 DEF EventInv
    <3> QED BY <2>1, <3>1, <3>2, <3>3, CallMoves
  <2> QED BY <1>2, <2>2, <2>3 DEF UseRouter, Attach, Detach, callVars
<1>3. ASSUME NEW j \in Async, AsyncCallback(j)
      PROVE  EventInv'
  <2>1. UNCHANGED <<at, current, tasks, threw, forgotten, by>>
    BY <1>3 DEF AsyncCallback, routerVars, callVars, endVars
  <2>2. \A a \in Awaiter : job'[a] = job[a]
    BY <1>3 DEF AsyncCallback, Async, TypeOK
  <2> QED BY <2>1, <2>2, CallsKept
<1>4. ASSUME NEW c \in Call, CallStep(c)
      PROVE  EventInv'
  <2>1. UNCHANGED <<job, by>>
    BY <1>4 DEF CallStep, whenAnyVars
  <2>2. ~ CanThrow => threw = {} /\ forgotten = {}
    BY DEF EventInv
  <2>3. CASE (\E S \in SUBSET Awaiter : ClaimAwaiters(c, S)) \/ LeaveListeners(c) \/ EndCall(c)
    <3>1. UNCHANGED <<current, tasks, threw, forgotten>>
      BY <2>3 DEF ClaimAwaiters, LeaveListeners, EndCall, endVars
    <3>2. /\ \A d \in Call : d # c => at'[d] = at[d]
          /\ at[c] \in {"awaiters", "listeners", "tasks"}
          /\ at[c] = "listeners" => current[c] = NoHandle
          /\ at'[c] = "ended" => tasks[c] = {}
      BY <2>3 DEF ClaimAwaiters, LeaveListeners, EndCall, AllTasksDone, TypeOK, RouterTypeOK
    <3>3. current'[c] = NoHandle
      BY <3>1, <3>2 DEF EventInv
    <3> QED BY <2>1, <2>2, <3>1, <3>2, <3>3, CallMoves
  <2>4. CASE ~ Busy(c) /\ EnterListeners(c)
    <3>1. /\ UNCHANGED <<current, tasks, threw, forgotten>>
          /\ \A d \in Call : at'[d] = IF d = c THEN "listeners" ELSE at[d]
      BY <2>4 DEF EnterListeners, endVars, TypeOK, RouterTypeOK
    <3> QED BY <2>1, <2>2, <2>4, <3>1, CallMoves
  <2>5. CASE BeginHandler(c)
    <3>1. /\ UNCHANGED <<at, tasks, threw, forgotten>> /\ at[c] = "listeners"
          /\ \A d \in Call : d # c => current'[d] = current[d]
      BY <2>5 DEF BeginHandler, endVars, TypeOK, RouterTypeOK
    <3> QED BY <2>1, <2>2, <3>1, CallMoves
  <2>6. ASSUME NEW b \in BOOLEAN, NEW o \in Outcome, EndHandler(c, b, o)
        PROVE  EventInv'
    <3>1. /\ UNCHANGED <<at, threw, forgotten>>
          /\ current[c] # NoHandle
          /\ \A d \in Call : d # c => current'[d] = current[d] /\ tasks'[d] = tasks[d]
          /\ current'[c] = NoHandle
      BY <2>6 DEF EndHandler, TypeOK, RouterTypeOK
    <3>2. at[c] = "listeners"
      BY <3>1 DEF EventInv
    <3> QED BY <2>1, <2>2, <3>1, <3>2, CallMoves
  <2>7. ASSUME NEW h \in Handle, NEW f \in BOOLEAN, FinishTask(c, h, f)
        PROVE  EventInv'
    <3>1. /\ UNCHANGED <<at, current, threw, forgotten>>
          /\ \A d \in Call : d # c => tasks'[d] = tasks[d]
          /\ tasks[c] = {} => tasks'[c] = {}
      BY <2>7 DEF FinishTask, TypeOK, RouterTypeOK
    <3>2. current'[c] # NoHandle => at'[c] = "listeners"
      BY <3>1 DEF EventInv
    <3>3. at'[c] = "ended" => tasks'[c] = {} \/ c \in threw'
      BY <3>1 DEF EventInv
    <3> QED BY <2>1, <2>2, <3>1, <3>2, <3>3, CallMoves
  <2>8. ASSUME NEW S, Unwind(c, S), UNCHANGED tasks, at[c] # "resume"
        PROVE  EventInv'
    <3>1. /\ CanThrow /\ threw \subseteq threw' /\ (tasks[c] = {} \/ c \in threw')
          /\ \A d \in Call : d # c => at'[d] = at[d] /\ current'[d] = current[d]
          /\ at'[c] = "ended" /\ current'[c] = NoHandle
      BY <2>8 DEF Unwind, TypeOK, RouterTypeOK
    <3> QED BY <2>1, <2>8, <3>1, CallMoves
  <2>9. CASE HandlerThrows(c) \/ TaskRethrows(c) \/ \E a \in Awaiter, S \in SUBSET Awaiter : PredicateThrows(c, a, S)
    <3>1. at[c] # "resume"
      BY <2>9 DEF HandlerThrows, TaskRethrows, PredicateThrows, EventInv
    <3> QED BY <2>8, <2>9, <3>1 DEF HandlerThrows, TaskRethrows, PredicateThrows
  <2> QED BY <1>4, <2>3, <2>4, <2>5, <2>6, <2>7, <2>9 DEF CallStep
<1>5. ASSUME NEW c \in Call, NEW j \in Awaiter, ResumeJob(c, j)
      PROVE  EventInv'
  <2>1. /\ UNCHANGED <<at, current, tasks, threw, forgotten>> /\ at[c] = "resume"
        /\ \A a \in Job : by'[a] = IF a = j THEN c ELSE by[a]
        /\ \A a \in Job : a # j => job'[a] = job[a]
    BY <1>1, <1>5 DEF ResumeJob, ResumeAwaiter, endVars, TypeOK
  <2>2. \A a \in Awaiter : job[a] \in Running => by[a] # c
    BY <1>1, <1>5 DEF ResumeJob, Busy
  <2>3. \A a \in Async : by'[a] = NoCall
    BY <1>1, <2>1 DEF EventInv, Async
  <2> QED BY <1>1, <2>1, <2>2, <2>3 DEF EventInv
<1>6. ASSUME NEW j \in Job, JobStep(j)
      PROVE  EventInv'
  <2>1. /\ \A a \in Job : job'[a] \in Running => job[a] \in Running /\ by'[a] = by[a]
        /\ \A a \in Job : by'[a] \in {by[a], NoCall}
    BY <1>6 DEF JobStep, JobDone, JobWrite, JobPublish, JobReturns, JobThrows, Running, TypeOK
  <2>2. CASE UNCHANGED routerVars
    BY <1>1, <2>1, <2>2, CallsKept DEF routerVars, callVars, endVars, Async
  <2>3. CASE JobThrows(j) /\ by[j] \in Call /\ ResumeThrows(by[j])
    <3> DEFINE c == by[j]
    <3>1. /\ CanThrow /\ UNCHANGED tasks /\ threw \subseteq threw'
          /\ (tasks[c] = {} \/ c \in threw')
          /\ \A d \in Call : at'[d] = IF d = c THEN "ended" ELSE at[d]
          /\ \A d \in Call : current'[d] = IF d = c THEN NoHandle ELSE current[d]
      BY <2>3 DEF ResumeThrows, Unwind, TypeOK, RouterTypeOK
    <3>2. job[j] \in Running /\ job'[j] \notin Running
      BY <2>3 DEF JobThrows, Running, TypeOK
    <3>3. j \in Awaiter
      BY <2>3 DEF EventInv, Async
    <3>4. \A a \in Awaiter : job'[a] \in Running => job[a] \in Running /\ by[a] # c
      BY <1>1, <2>1, <3>2, <3>3 DEF EventInv
    <3>5. \A a \in Awaiter : job'[a] \in Running => by'[a] \in Call /\ at'[by'[a]] = "resume"
      BY <1>1, <2>1, <3>1, <3>4 DEF EventInv
    <3>6. \A a \in Async : by'[a] = NoCall
      BY <2>1 DEF EventInv, Async
    <3>7. \A a, b \in Awaiter :
            job'[a] \in Running /\ job'[b] \in Running /\ by'[a] = by'[b] => a = b
      BY <1>1, <2>1 DEF EventInv
    <3>8. /\ \A d \in Call : current'[d] # NoHandle => at'[d] = "listeners"
          /\ \A d \in Call : at'[d] = "ended" => tasks'[d] = {} \/ d \in threw'
      BY <2>3, <3>1 DEF EventInv
    <3> QED BY <3>1, <3>5, <3>6, <3>7, <3>8 DEF EventInv
  <2> QED BY <1>6, <2>2, <2>3
         DEF JobStep, JobDone, JobWrite, JobPublish, JobReturns, JobThrows, TypeOK
<1>7. ASSUME NEW j \in Awaiter, CancelStep(j)
      PROVE  EventInv'
  <2>1. UNCHANGED <<at, current, tasks, threw, forgotten, by>>
    BY <1>7 DEF CancelStep, DetachCoro, EndCancelledJob, ResumeCancelled, callVars, endVars
  <2>2. \A a \in Awaiter : job'[a] \in Running => job[a] \in Running
    BY <1>1, <1>7 DEF CancelStep, EndCancelledJob, TypeOK, Running
  <2> QED BY <2>1, <2>2, CallsKept
<1>8. CASE OwnerConstruct
  <2>1. UNCHANGED <<at, current, tasks, threw, forgotten, by>>
    BY <1>8 DEF OwnerConstruct, StartJob, AttachAwaiter, routerVars, callVars, endVars
  <2>2. \A a \in Awaiter : job'[a] \in Running => job[a] \in Running
    BY <1>1, <1>8 DEF OwnerConstruct, StartJob, Async, TypeOK, Running
  <2> QED BY <2>1, <2>2, CallsKept
<1>9. CASE UNCHANGED vars \/ DestroyRouter \/ OwnerAwait \/ OwnerSuspend \/ OwnerDestroy \/ OwnerCancel
            \/ \E j \in Awaiter : RouterCancel(j)
  <2>1. UNCHANGED <<at, current, tasks, threw, forgotten, by, job>>
    BY <1>9 DEF vars, DestroyRouter, OwnerAwait, OwnerSuspend, OwnerDestroy, OwnerCancel,
                RouterCancel, BeginCancel, whenAnyVars, routerVars, callVars, endVars
  <2> QED BY <2>1, CallsKept
<1> QED BY <1>2, <1>3, <1>4, <1>5, <1>6, <1>7, <1>8, <1>9 DEF Next, Progress, OwnerStep

-----------------------------------------------------------------------------
(* The result.                                                             *)

LEMMA ResultStep ==
    ASSUME TypeOK, ResultInv, [Next]_vars
    PROVE  ResultInv'
<1> USE WhenAnyAssumption
\* Steps that take no job to or from the places where the result is written.
<1>1. ASSUME UNCHANGED <<owner_state, index_finished, got>>,
             \A j \in Job : job'[j] = job[j] \/ ~ Writing(j)',
             got # NoIndex /\ owner \in {"have", "cancel", "gone"} => owner' \in {"have", "cancel", "gone"}
      PROVE  ResultInv'
  BY <1>1 DEF ResultInv, Writing
<1>2. CASE UseRouter \/ DestroyRouter \/ UNCHANGED vars
            \/ (\E c \in Call : CallStep(c)) \/ \E j \in Awaiter : RouterCancel(j)
  BY <1>1, <1>2 DEF UseRouter, DestroyRouter, vars, CallStep, RouterCancel, whenAnyVars
<1>3. ASSUME NEW j \in Async, AsyncCallback(j)
      PROVE  ResultInv'
  <2>1. \A i \in Job : job'[i] = job[i] \/ job'[i] = "resumed"
    BY <1>3 DEF AsyncCallback, TypeOK
  <2> QED BY <1>1, <1>3, <2>1 DEF AsyncCallback, Writing
<1>4. ASSUME NEW c \in Call, NEW j \in Awaiter, ResumeJob(c, j)
      PROVE  ResultInv'
  <2>1. \A i \in Job : job'[i] = job[i] \/ job'[i] = "resumed"
    BY <1>4 DEF ResumeJob, TypeOK
  <2> QED BY <1>1, <1>4, <2>1 DEF ResumeJob, Writing
<1>5. ASSUME NEW j \in Awaiter, CancelStep(j)
      PROVE  ResultInv'
  <2>1. \A i \in Job : job'[i] = job[i] \/ job'[i] = "ended"
    BY <1>5 DEF CancelStep, EndCancelledJob, TypeOK
  <2> QED BY <1>1, <1>5, <2>1 DEF CancelStep, Writing
<1>6. CASE OwnerConstruct
  <2>1. \A i \in Job : job'[i] = job[i] \/ job'[i] \in {"resumed", "suspended"}
    BY <1>6 DEF OwnerConstruct, StartJob, TypeOK
  <2>2. UNCHANGED <<owner_state, index_finished, got>> /\ owner = "construct"
    BY <1>6 DEF OwnerConstruct
  <2> QED BY <1>1, <2>1, <2>2 DEF Writing
<1>7. CASE OwnerAwait
  <2>1. owner = "work" /\ UNCHANGED <<job, owner_state, index_finished>>
    BY <1>7 DEF OwnerAwait
  <2>2. \/ got' = index_finished /\ "ready" \in owner_state /\ owner' = "have"
        \/ got' = got /\ got = NoIndex
    BY <1>7, <2>1 DEF OwnerAwait, ResultInv
  <2> QED BY <2>1, <2>2 DEF ResultInv, Writing
<1>8. CASE OwnerSuspend
  <2>1. /\ owner = "suspend" /\ UNCHANGED <<job, index_finished>>
        /\ owner_state' = owner_state \union {"waiting"}
    BY <1>8 DEF OwnerSuspend
  <2>2. \/ got' = index_finished /\ "ready" \in owner_state /\ owner' = "have"
        \/ got' = got /\ got = NoIndex
    BY <1>8, <2>1 DEF OwnerSuspend, MustSuspend, ResultInv
  <2>3. TooLate(owner_state) => TooLate(owner_state')
    BY <2>1 DEF TooLate
  <2>4. "ready" \in owner_state' <=> "ready" \in owner_state
    BY <2>1
  <2> QED BY <2>1, <2>2, <2>3, <2>4 DEF ResultInv, Writing
<1>9. CASE OwnerDestroy
  <2>1. owner_state' = {"dangling"} /\ owner' = "cancel" /\ UNCHANGED <<job, index_finished, got>>
    BY <1>9 DEF OwnerDestroy
  <2>2. TooLate(owner_state') /\ "ready" \notin owner_state'
    BY <2>1 DEF TooLate
  <2> QED BY <2>1, <2>2 DEF ResultInv, Writing
<1>10. CASE OwnerCancel
  <2>1. UNCHANGED <<job, owner_state, index_finished, got>> /\ (owner' = "gone" \/ UNCHANGED owner)
    BY <1>10 DEF OwnerCancel
  <2> QED BY <1>1, <2>1
<1>11. ASSUME NEW j \in Job, JobDone(j)
       PROVE  ResultInv'
  <2>1. /\ job[j] = "resumed" /\ owner_state' = owner_state \union {"done"}
        /\ UNCHANGED <<index_finished, got, owner>>
        /\ \A i \in Job : job'[i] = IF i # j THEN job[i]
                                    ELSE IF TooLate(owner_state) THEN "ended" ELSE "write"
    BY <1>11 DEF JobDone, TypeOK
  <2>2. TooLate(owner_state') /\ ("ready" \in owner_state' <=> "ready" \in owner_state)
    BY <2>1 DEF TooLate
  <2>3. CASE TooLate(owner_state)
    BY <2>1, <2>2, <2>3 DEF ResultInv, Writing
  <2>4. CASE ~ TooLate(owner_state)
    <3>1. "ready" \notin owner_state /\ got = NoIndex /\ \A i \in Job : ~ Writing(i)
      BY <2>4 DEF ResultInv
    <3> QED BY <2>1, <2>2, <2>4, <3>1 DEF ResultInv, Writing
  <2> QED BY <2>3, <2>4
<1>12. ASSUME NEW j \in Job, JobWrite(j)
       PROVE  ResultInv'
  <2>1. /\ job[j] = "write" /\ UNCHANGED <<owner_state, got, owner>> /\ index_finished' = j
        /\ \A i \in Job : job'[i] = IF i = j THEN "publish" ELSE job[i]
    BY <1>12 DEF JobWrite, TypeOK
  <2> QED BY <2>1 DEF ResultInv, Writing
<1>13. ASSUME NEW j \in Job, JobPublish(j)
       PROVE  ResultInv'
  <2>1. /\ job[j] = "publish" /\ owner_state' = owner_state \union {"ready"}
        /\ UNCHANGED index_finished
        /\ (owner' = "have" /\ got' = index_finished) \/ UNCHANGED <<owner, got>>
        /\ \A i \in Job : i # j => job'[i] = job[i]
        /\ job'[j] \in {"resumer", "ended"}
    BY <1>13 DEF JobPublish, TypeOK
  <2>2. \A i \in Job : ~ Writing(i)'
    BY <2>1 DEF ResultInv, Writing
  <2>3. TooLate(owner_state)
    BY <2>1 DEF ResultInv, Writing
  <2>4. TooLate(owner_state')
    BY <2>1, <2>3 DEF TooLate
  <2> QED BY <2>1, <2>2, <2>4 DEF ResultInv, Writing
<1>14. ASSUME NEW j \in Job, JobReturns(j) \/ JobThrows(j)
       PROVE  ResultInv'
  <2>1. \A i \in Job : job'[i] = job[i] \/ job'[i] = "ended"
    BY <1>14 DEF JobReturns, JobThrows, TypeOK
  <2>2. UNCHANGED <<owner_state, index_finished, got, owner>>
    BY <1>14 DEF JobReturns, JobThrows
  <2> QED BY <1>1, <2>1, <2>2 DEF Writing
<1> QED BY <1>2, <1>3, <1>4, <1>5, <1>6, <1>7, <1>8, <1>9, <1>10, <1>11, <1>12, <1>13, <1>14
       DEF Next, Progress, JobStep, OwnerStep

-----------------------------------------------------------------------------
(* The theorems.                                                           *)

IInv == TypeOK /\ AwaiterInv /\ EventInv /\ ResultInv

LEMMA InitInv == ASSUME Init PROVE IInv
<1> USE EventRouterAssumption, WhenAnyAssumption
<1>1. RouterTypeOK
  BY DEF Init, RouterInit, RouterTypeOK, AwaiterState, CallPC
<1>2. TypeOK
  <2>1. 1 \in 1..(NumJobs + 1)
    OBVIOUS
  <2>2. promise \in [Async -> SUBSET PromiseFlag] /\ by \in [Job -> Call \union {NoCall}]
    BY DEF Init
  <2>3. job \in [Job -> JobPC] /\ owner \in OwnerPC
    BY DEF Init, JobPC, OwnerPC
  <2> QED BY <1>1, <2>1, <2>2, <2>3 DEF Init, TypeOK
<1>3. AwaiterInv
  BY DEF Init, RouterInit, AwaiterInv, AwaiterAt, Job
<1>4. EventInv
  BY DEF Init, RouterInit, EventInv, Job, Async, Running
<1>5. ResultInv
  BY DEF Init, ResultInv, Writing
<1> QED BY <1>2, <1>3, <1>4, <1>5 DEF IInv

\* The inductive invariant of when_any and its router.
LEMMA Invariant == Spec => []IInv
<1>1. Init => IInv
  BY InitInv
<1>2. IInv /\ [Next]_vars => IInv'
  BY TypeStep, AwaiterStep, EventStep, ResultStep DEF IInv
<1> QED BY <1>1, <1>2, PTL DEF Spec

\* Every variable of the router and of the when_any keeps its type: the vectors
\* hold only awaiters and calls that exist, each thread is at a known place.
THEOREM TypeCorrect == Spec => []TypeOK
BY Invariant, PTL DEF IInv

\* However calls of the event, cancel(), exceptions and the two destructors
\* interleave, every awaiter a vector of the router holds is suspended and is to
\* be resumed by one of them alone, and a suspended one that nobody holds was
\* claimed by a call that an exception has ended.
THEOREM AwaitersSafe == Spec => []AwaitersAlive
<1>1. IInv => AwaitersAlive
  <2> SUFFICES ASSUME TypeOK, AwaiterInv PROVE AwaitersAlive
    BY DEF IInv
  <2>1. ASSUME NEW a \in coro_awaiters
        PROVE  /\ job[a] = "suspended" /\ astate[a] \in {"waiting", "cancelling"}
               /\ \A c \in Call : a \notin to_resume[c]
    <3>1. a \in Awaiter /\ AwaiterAt(a)
      BY DEF TypeOK, RouterTypeOK, AwaiterInv
    <3>2. astate[a] \in {"waiting", "cancelling"} /\ job[a] = "suspended"
      BY <3>1 DEF AwaiterAt
    <3> QED BY <3>2 DEF AwaiterInv
  <2>2. ASSUME NEW c \in Call, NEW a \in to_resume[c]
        PROVE  /\ job[a] = "suspended" /\ astate[a] = "resuming"
               /\ \A d \in Call \ {c} : a \notin to_resume[d]
    <3>1. a \in Awaiter /\ AwaiterAt(a)
      BY DEF TypeOK, RouterTypeOK, AwaiterInv
    <3> QED BY <3>1 DEF AwaiterInv, AwaiterAt
  <2>3. ASSUME NEW a \in Awaiter, job[a] = "suspended"
        PROVE  Held(a) \/ a \in forgotten
    <3>1. AwaiterAt(a) /\ \A c \in Call : a \in to_resume[c] => at[c] = "resume"
      BY DEF AwaiterInv
    <3> QED BY <2>3, <3>1 DEF AwaiterAt, Held
  <2> QED BY <2>1, <2>2, <2>3 DEF AwaitersAlive
<1> QED BY <1>1, Invariant, PTL

\* As long as no predicate, handler or resumed coroutine throws, resume_awaiters
\* and cancel leave no suspended awaiter behind.
THEOREM NoneForgotten == ~ CanThrow => (Spec => []EveryAwaiterHeld)
<1> SUFFICES ASSUME ~ CanThrow PROVE Spec => []EveryAwaiterHeld
  OBVIOUS
<1>1. IInv => EveryAwaiterHeld
  <2> SUFFICES ASSUME AwaiterInv, EventInv, NEW a \in Awaiter, job[a] = "suspended" PROVE Held(a)
    BY DEF IInv, EveryAwaiterHeld
  <2>1. AwaiterAt(a) /\ forgotten = {} /\ \A c \in Call : a \in to_resume[c] => at[c] = "resume"
    BY DEF AwaiterInv, EventInv
  <2> QED BY <2>1 DEF AwaiterAt, Held
<1> QED BY <1>1, Invariant, PTL

\* The owner goes on with one result that is completely written and that no
\* job overwrites, although the destructor's plain store takes the done flag back.
THEOREM ResultUnique == Spec => []OneResult
<1>1. IInv => OneResult
  BY DEF IInv, ResultInv, Writing, OneResult
<1> QED BY <1>1, Invariant, PTL

\* An event lives in its call's frame as long as a job that has yet to copy it
\* refers to it, and as long as a task handler does unless an exception ends
\* the call.
THEOREM EventsOutlive == Spec => []ReferencesValid
<1>1. IInv => ReferencesValid
  <2> SUFFICES ASSUME AwaiterInv, EventInv PROVE ReferencesValid
    BY DEF IInv
  <2>1. \A c \in Call : at[c] = "ended" => to_resume[c] = {} /\ (tasks[c] = {} \/ c \in threw)
    BY DEF AwaiterInv, EventInv
  <2>2. \A j \in Awaiter : job[j] \in {"resumed", "write"} => at[by[j]] = "resume"
    BY DEF EventInv, Running
  <2> QED BY <2>1, <2>2 DEF ReferencesValid
<1> QED BY <1>1, Invariant, PTL

\* As long as no predicate, handler or resumed coroutine throws, handle_coro
\* keeps the event alive until every task handler has finished.
THEOREM EventKept == ~ CanThrow => (Spec => []EventOutlivesTasks)
<1> SUFFICES ASSUME ~ CanThrow PROVE Spec => []EventOutlivesTasks
  OBVIOUS
<1>1. IInv => EventOutlivesTasks
  BY DEF IInv, EventInv, EventOutlivesTasks
<1> QED BY <1>1, Invariant, PTL

=============================================================================
