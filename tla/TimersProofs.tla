---------------------------- MODULE TimersProofs ----------------------------
(***************************************************************************)
(* Proofs about the cluster's timers, for every value of the constants.    *)
(* The safety invariants that the runs of Timers check are proved from one *)
(* inductive invariant, Inv, whose conjuncts are proved one after the      *)
(* other: a lemma per conjunct, a step per action.                         *)
(***************************************************************************)
EXTENDS Timers, TLAPS

-----------------------------------------------------------------------------
(* Type correctness.                                                       *)

LEMMA InitTypeOK == Init => TypeOK
<1> SUFFICES ASSUME Init PROVE TypeOK
    OBVIOUS
<1> USE TimersAssumption DEF TimersAssumption
<1>1. ServiceTimer \in Handle /\ next_handle \in 1..(MaxTimers + 1)
    BY DEF Init, ServiceTimer, Handle
<1>2. next_timer \subseteq TimerRec
    BY <1>1 DEF Init, TimerRec
<1>3. /\ kind \in [Handle -> Kinds]
      /\ started \in [Handle -> Nat]
      /\ ticks \in [Handle -> Nat]
      /\ late \in [Handle -> Nat]
      /\ stops \in [Handle -> Nat]
    BY DEF Init, Kinds
<1> QED
    BY <1>1, <1>2, <1>3 DEF Init, TypeOK, PCs, Holding

LEMMA NextTypeOK == TypeOK /\ [Next]_vars => TypeOK'
<1> SUFFICES ASSUME TypeOK, [Next]_vars PROVE TypeOK'
    OBVIOUS
<1> USE TimersAssumption DEF TimersAssumption, TypeOK, histVars, loopVars, PCs, Holding
<1>1. CASE ClockTick
    BY <1>1 DEF ClockTick
<1>2. ASSUME NEW f \in Frequencies, NEW k \in Kinds, StartTimer(f, k)
      PROVE  TypeOK'
  <2>1. next_handle \in Handle
      BY <1>2 DEF StartTimer, Handle
  <2>2. [handle |-> NewHandle, next_tick |-> now + f, frequency |-> f] \in TimerRec
      BY <2>1 DEF TimerRec, NewHandle
  <2> QED
      BY <1>2, <2>1, <2>2 DEF StartTimer
<1>3. ASSUME NEW t \in starting, InsertTimer(t)
      PROVE  TypeOK'
    BY <1>3 DEF InsertTimer, TimerRec
<1>4. ASSUME NEW h \in Handle, StopTimer(h)
      PROVE  TypeOK'
    BY <1>4 DEF StopTimer
<1>5. CASE Prune
    BY <1>5 DEF Prune
<1>6. CASE TickPop
    BY <1>6 DEF TickPop, Tops, AfterPop
<1>7. CASE TickBreak
    BY <1>7 DEF TickBreak, LeaveTick
<1>8. CASE TickCheck
    BY <1>8 DEF TickCheck
<1>9. CASE TickBegin
    BY <1>9 DEF TickBegin, TimerRec
<1>10. CASE TickReturn
    BY <1>10 DEF TickReturn, ReadHandle, TimerRec
<1>11. CASE TickReinsert
    BY <1>11 DEF TickReinsert, Reinserted, NextTick, TimerRec
<1>12. CASE TickThrow
    BY <1>12 DEF TickThrow, LeaveTick, TimerRec
<1>13. CASE StopRun
    BY <1>13 DEF StopRun, TimerRec
<1>14. CASE StopThrow
    BY <1>14 DEF StopThrow, LeaveTick, TimerRec
<1>15. CASE StopErase
    BY <1>15 DEF StopErase, TimerRec
<1>16. CASE Shutdown
    BY <1>16 DEF Shutdown
<1>17. CASE LoopExit
    BY <1>17 DEF LoopExit
<1>18. CASE Drain
    BY <1>18 DEF Drain
<1>20. ASSUME NEW h \in unset, StoreHandle(h)
      PROVE  TypeOK'
    BY <1>20 DEF StoreHandle
<1>19. CASE UNCHANGED vars
    BY <1>19 DEF vars
<1> QED
    BY <1>1, <1>2, <1>3, <1>4, <1>5, <1>6, <1>7, <1>8, <1>9, <1>10, <1>11,
       <1>12, <1>13, <1>14, <1>15, <1>16, <1>17, <1>18, <1>19, <1>20
    DEF Next, LoopStep


\* Every state of the timers is well typed, whatever the callers of
\* start_timer, stop_timer and shutdown and the callbacks do; while
\* tick_timers works on a timer, and only then, cur_timer is one.
THEOREM TypeCorrect == Spec => []TypeOK
BY InitTypeOK, NextTypeOK, PTL DEF Spec

-----------------------------------------------------------------------------
(* The inductive invariant.                                                *)

\* Nothing is known of a handle that start_timer has not given out.
HandleInv ==
    /\ next_handle > ServiceTimer
    /\ kind[ServiceTimer] = "periodic"
    /\ \A t \in starting : t.handle < next_handle /\ t.handle # ServiceTimer
    /\ \A t \in next_timer : t.handle < next_handle
    /\ cur_timer.handle < next_handle
    /\ \A h \in thrown : h < next_handle /\ h # ServiceTimer
    /\ deleted_timers \subseteq stopped
    /\ \A h \in Handle : h >= next_handle =>
            ticks[h] = 0 /\ late[h] = 0 /\ stops[h] = 0

\* What tick_timers' place says of cur_timer, and of shutdown.
CurInv ==
    /\ pc \in Holding => cur_timer.handle \notin thrown
    /\ pc \in Holding \ {"erase"} => stops[cur_timer.handle] = 0
    /\ pc = "erase" => stops[cur_timer.handle] = 1
    /\ pc \in {"stop", "erase"} => cur_timer.handle \in stopped
    /\ ReturnAfter = "st_return" /\ drained => pc = "exited"

\* Every timer that was started is somewhere ...
Somewhere ==
    \A h \in Handle : h < next_handle =>
        \/ Starting(h) \/ Queued(h) \/ cur_timer.handle = h
        \/ stops[h] = 1 \/ h \in thrown

\* ... and one that start_timer or the queue holds is nowhere else ...
Exclusive ==
    \A t \in starting \union next_timer :
        /\ t.handle # cur_timer.handle
        /\ stops[t.handle] = 0
        /\ t.handle \notin thrown

\* ... and there once.
Unique ==
    /\ \A t, u \in starting \union next_timer : t.handle = u.handle => t = u
    /\ \A t \in starting : t \notin next_timer

PlaceInv == Somewhere /\ Exclusive /\ Unique

-----------------------------------------------------------------------------
(* Facts about the operators of tick_timers.                               *)

\* The timer put back is the one that ticked, one period later.
LEMMA ReinsertedTimer ==
    ASSUME NEW t \in TimerRec
    PROVE  \E u \in TimerRec : /\ Reinserted(t) = {u}
                               /\ u.handle = t.handle
                               /\ u.frequency = t.frequency
                               /\ u.next_tick = t.next_tick + t.frequency
<1> DEFINE u == [t EXCEPT !.next_tick = NextTick(t)]
<1>1. u \in TimerRec /\ u.handle = t.handle /\ u.frequency = t.frequency
      /\ u.next_tick = t.next_tick + t.frequency
    BY DEF TimerRec, NextTick
<1> QED
    BY <1>1 DEF Reinserted

LEMMA NoTimerIsNoHandle ==
    /\ NoTimer.handle = 0
    /\ \A t \in TimerRec : t.handle \in Handle /\ t.handle # NoTimer.handle
BY TimersAssumption DEF NoTimer, TimerRec, Handle, TimersAssumption

-----------------------------------------------------------------------------
LEMMA InitHandle == Init => HandleInv
BY TimersAssumption DEF Init, HandleInv, ServiceTimer, NoTimer, Handle,
                        TimersAssumption

LEMMA NextHandle == TypeOK /\ HandleInv /\ [Next]_vars => HandleInv'
<1> SUFFICES ASSUME TypeOK, HandleInv, [Next]_vars PROVE HandleInv'
    OBVIOUS
<1> USE TimersAssumption DEF TimersAssumption, TypeOK, HandleInv, histVars,
        loopVars
<1>1. CASE ClockTick
    BY <1>1 DEF ClockTick
<1>2. ASSUME NEW f \in Frequencies, NEW k \in Kinds, StartTimer(f, k)
      PROVE  HandleInv'
  <2>1. /\ next_handle \in Handle /\ next_handle # ServiceTimer
        /\ next_handle' = next_handle + 1
      BY <1>2 DEF StartTimer, Handle, ServiceTimer
  <2>2. \A t \in starting' : t.handle < next_handle' /\ t.handle # ServiceTimer
      BY <1>2, <2>1, NoTimerIsNoHandle DEF StartTimer, NewHandle, Handle
  <2>3. /\ \A t \in next_timer' : t.handle < next_handle'
        /\ cur_timer'.handle < next_handle'
      BY <1>2, <2>1, NoTimerIsNoHandle DEF StartTimer, Handle
  <2>4. \A h \in thrown' : h < next_handle' /\ h # ServiceTimer
      BY <1>2, <2>1 DEF StartTimer, Handle
  <2>5. kind'[ServiceTimer] = "periodic"
      BY <1>2, <2>1 DEF StartTimer, Handle, ServiceTimer
  <2>6. \A h \in Handle : h >= next_handle' =>
            ticks'[h] = 0 /\ late'[h] = 0 /\ stops'[h] = 0
      BY <1>2, <2>1 DEF StartTimer, Handle
  <2> QED
      BY <1>2, <2>1, <2>2, <2>3, <2>4, <2>5, <2>6 DEF StartTimer, ServiceTimer
<1>3. ASSUME NEW t \in starting, InsertTimer(t)
      PROVE  HandleInv'
    BY <1>3 DEF InsertTimer, TimerRec
<1>4. ASSUME NEW h \in Handle, StopTimer(h)
      PROVE  HandleInv'
    BY <1>4 DEF StopTimer
<1>5. CASE Prune
    BY <1>5 DEF Prune
<1>6. CASE TickPop
    BY <1>6 DEF TickPop, Tops, AfterPop
<1>7. CASE TickBreak
    BY <1>7, NoTimerIsNoHandle DEF TickBreak, LeaveTick
<1>8. CASE TickCheck
    BY <1>8 DEF TickCheck
<1>9. CASE TickBegin
  <2>1. cur_timer.handle \in Handle /\ cur_timer.handle < next_handle
      BY <1>9, NoTimerIsNoHandle DEF TickBegin, TypeOK, Holding, HandleInv
  <2>2. \A h \in Handle : h >= next_handle => h # cur_timer.handle
      BY <2>1 DEF HandleInv, Handle, TypeOK
  <2>3. \A h \in Handle : h >= next_handle =>
            ticks'[h] = 0 /\ late'[h] = 0 /\ stops'[h] = 0
      BY <1>9, <2>2 DEF TickBegin, TypeOK, HandleInv
  <2>4. NoTimer.handle < next_handle
      BY NoTimerIsNoHandle DEF TypeOK
  <2> QED
      BY <1>9, <2>3, <2>4 DEF TickBegin, HandleInv, TypeOK
<1>10. CASE TickReturn
    BY <1>10, NoTimerIsNoHandle DEF TickReturn, StopsItself, ReadHandle, Holding
<1>11. CASE TickReinsert
  <2>1. PICK u \in TimerRec : Reinserted(cur_timer) = {u} /\ u.handle = cur_timer.handle
      BY <1>11, ReinsertedTimer DEF TickReinsert, Holding
  <2> QED
      BY <1>11, <2>1, NoTimerIsNoHandle DEF TickReinsert
<1>12. CASE TickThrow
    BY <1>12, NoTimerIsNoHandle DEF TickThrow, LeaveTick, Holding
<1>13. CASE StopRun
  <2>1. cur_timer.handle \in Handle /\ cur_timer.handle < next_handle
      BY <1>13, NoTimerIsNoHandle DEF StopRun, TypeOK, Holding, HandleInv
  <2>2. \A h \in Handle : h >= next_handle => h # cur_timer.handle
      BY <2>1 DEF HandleInv, Handle, TypeOK
  <2>3. \A h \in Handle : h >= next_handle =>
            ticks'[h] = 0 /\ late'[h] = 0 /\ stops'[h] = 0
      BY <1>13, <2>2 DEF StopRun, TypeOK, HandleInv
  <2>4. NoTimer.handle < next_handle
      BY NoTimerIsNoHandle DEF TypeOK
  <2> QED
      BY <1>13, <2>3, <2>4 DEF StopRun, HandleInv, TypeOK
<1>14. CASE StopThrow
  <2>1. cur_timer.handle \in Handle /\ cur_timer.handle < next_handle
      BY <1>14, NoTimerIsNoHandle DEF StopThrow, TypeOK, Holding, HandleInv
  <2>2. \A h \in Handle : h >= next_handle => h # cur_timer.handle
      BY <2>1 DEF HandleInv, Handle, TypeOK
  <2>3. \A h \in Handle : h >= next_handle =>
            ticks'[h] = 0 /\ late'[h] = 0 /\ stops'[h] = 0
      BY <1>14, <2>2 DEF StopThrow, TypeOK, HandleInv, LeaveTick
  <2>4. NoTimer.handle < next_handle
      BY NoTimerIsNoHandle DEF TypeOK
  <2> QED
      BY <1>14, <2>3, <2>4 DEF StopThrow, HandleInv, TypeOK, LeaveTick
<1>15. CASE StopErase
    BY <1>15, NoTimerIsNoHandle DEF StopErase
<1>16. CASE Shutdown
    BY <1>16 DEF Shutdown
<1>17. CASE LoopExit
    BY <1>17 DEF LoopExit
<1>18. CASE Drain
  <2>1. \A h \in Handle : h >= next_handle => ~ \E t \in next_timer : t.handle = h
      BY NoTimerIsNoHandle DEF Handle
  <2>2. \A h \in Handle : h >= next_handle => stops'[h] = 0
      BY <1>18, <2>1 DEF Drain
  <2> QED
      BY <1>18, <2>2 DEF Drain
<1>20. ASSUME NEW h \in unset, StoreHandle(h)
      PROVE  HandleInv'
    BY <1>20 DEF StoreHandle
<1>19. CASE UNCHANGED vars
    BY <1>19 DEF vars
<1> QED
    BY <1>1, <1>2, <1>3, <1>4, <1>5, <1>6, <1>7, <1>8, <1>9, <1>10, <1>11,
       <1>12, <1>13, <1>14, <1>15, <1>16, <1>17, <1>18, <1>19, <1>20
    DEF Next, LoopStep

LEMMA InitCur == Init => CurInv
BY DEF Init, CurInv, Holding

LEMMA NextCur ==
    TypeOK /\ HandleInv /\ PlaceInv /\ CurInv /\ [Next]_vars => CurInv'
<1> SUFFICES ASSUME TypeOK, HandleInv, PlaceInv, CurInv, [Next]_vars PROVE CurInv'
    OBVIOUS
<1> USE TimersAssumption DEF TimersAssumption, TypeOK, CurInv, HandleInv,
        histVars, loopVars, Holding, TimerRec, Handle
<1>1. CASE ClockTick
    BY <1>1 DEF ClockTick
<1>2. ASSUME NEW f \in Frequencies, NEW k \in Kinds, StartTimer(f, k)
      PROVE  CurInv'
    BY <1>2 DEF StartTimer, NewHandle
<1>3. ASSUME NEW t \in starting, InsertTimer(t)
      PROVE  CurInv'
    BY <1>3 DEF InsertTimer, TimerRec
<1>4. ASSUME NEW h \in Handle, StopTimer(h)
      PROVE  CurInv'
    BY <1>4 DEF StopTimer
<1>5. CASE Prune
    BY <1>5 DEF Prune
<1>6. CASE TickPop
    BY <1>6 DEF TickPop, Tops, AfterPop, PlaceInv, Exclusive
<1>7. CASE TickBreak
    BY <1>7 DEF TickBreak, LeaveTick
<1>8. CASE TickCheck
    BY <1>8 DEF TickCheck, IsDeleted
<1>9. CASE TickBegin
    BY <1>9 DEF TickBegin
<1>10. CASE TickReturn
    BY <1>10 DEF TickReturn, StopsItself
<1>11. CASE TickReinsert
    BY <1>11 DEF TickReinsert
<1>12. CASE TickThrow
    BY <1>12 DEF TickThrow, LeaveTick
<1>13. CASE StopRun
    BY <1>13 DEF StopRun
<1>14. CASE StopThrow
    BY <1>14 DEF StopThrow, LeaveTick
<1>15. CASE StopErase
    BY <1>15 DEF StopErase
<1>16. CASE Shutdown
    BY <1>16 DEF Shutdown
<1>17. CASE LoopExit
    BY <1>17 DEF LoopExit
<1>18. CASE Drain
  <2>1. pc \in Holding => cur_timer.handle \in Handle /\ stops'[cur_timer.handle] = stops[cur_timer.handle]
      BY <1>18 DEF Drain, PlaceInv, Exclusive
  <2> QED
      BY <1>18, <2>1 DEF Drain
<1>20. ASSUME NEW h \in unset, StoreHandle(h)
      PROVE  CurInv'
    BY <1>20 DEF StoreHandle
<1>19. CASE UNCHANGED vars
    BY <1>19 DEF vars
<1> QED
    BY <1>1, <1>2, <1>3, <1>4, <1>5, <1>6, <1>7, <1>8, <1>9, <1>10, <1>11,
       <1>12, <1>13, <1>14, <1>15, <1>16, <1>17, <1>18, <1>19, <1>20
    DEF Next, LoopStep

LEMMA InitPlace == Init => PlaceInv
BY TimersAssumption DEF Init, PlaceInv, Somewhere, Exclusive, Unique, Queued,
                        Handle, ServiceTimer, NoTimer, TimersAssumption

LEMMA NextPlace ==
    TypeOK /\ HandleInv /\ CurInv /\ PlaceInv /\ [Next]_vars => PlaceInv'
<1> SUFFICES ASSUME TypeOK, HandleInv, CurInv, PlaceInv, [Next]_vars PROVE PlaceInv'
    OBVIOUS
<1> USE TimersAssumption DEF TimersAssumption, TypeOK, CurInv, PlaceInv,
        histVars, loopVars
<1>1. CASE ClockTick
    BY <1>1 DEF ClockTick, Somewhere, Exclusive, Unique, Starting, Queued
<1>2. ASSUME NEW f \in Frequencies, NEW k \in Kinds, StartTimer(f, k)
      PROVE  PlaceInv'
  <2> DEFINE r == [handle |-> NewHandle, next_tick |-> now + f, frequency |-> f]
  <2>1. r \in TimerRec /\ r.handle = next_handle /\ starting' = starting \union {r}
      BY <1>2 DEF StartTimer, NewHandle, TimerRec, Handle
  <2> HIDE DEF r
  <2>2. /\ \A t \in starting \union next_timer : t.handle # next_handle
        /\ cur_timer.handle # next_handle
      BY NoTimerIsNoHandle DEF HandleInv, Handle
  <2>3. next_handle \in Handle /\ next_handle' = next_handle + 1
      BY <1>2 DEF StartTimer, Handle
  <2>4. stops[next_handle] = 0 /\ next_handle \notin thrown
      BY <2>3 DEF HandleInv, Handle
  <2>5. \A h \in Handle : h < next_handle' => h < next_handle \/ h = r.handle
      BY <2>1, <2>3 DEF Handle
  <2>11. Somewhere'
      BY <1>2, <2>1, <2>3, <2>5 DEF StartTimer, Somewhere, Starting, Queued
  <2>12. Exclusive'
      BY <1>2, <2>1, <2>2, <2>3, <2>4 DEF StartTimer, Exclusive
  <2>13. Unique'
      BY <1>2, <2>1, <2>2, <2>3 DEF StartTimer, Unique, Exclusive
  <2> QED
      BY <2>11, <2>12, <2>13 DEF PlaceInv
<1>3. ASSUME NEW t \in starting, InsertTimer(t)
      PROVE  PlaceInv'
  <2>11. Somewhere'
      BY <1>3 DEF InsertTimer, Somewhere, Starting, Queued
  <2>12. Exclusive'
      BY <1>3 DEF InsertTimer, Exclusive
  <2>13. Unique'
      BY <1>3 DEF InsertTimer, Unique, Exclusive
  <2> QED
      BY <2>11, <2>12, <2>13 DEF PlaceInv
<1>4. ASSUME NEW h \in Handle, StopTimer(h)
      PROVE  PlaceInv'
    BY <1>4 DEF StopTimer, Somewhere, Exclusive, Unique, Starting, Queued
<1>5. CASE Prune
    BY <1>5 DEF Prune, Somewhere, Exclusive, Unique, Starting, Queued
<1>6. CASE TickPop
  <2>1. PICK t \in next_timer : cur_timer' = t /\ next_timer' = next_timer \ {t}
      BY <1>6 DEF TickPop, Tops, AfterPop
  <2>2. cur_timer = NoTimer /\ t \in TimerRec
      BY <1>6 DEF TickPop, Holding
  <2>3. \A h \in Handle : h # cur_timer.handle
      BY <2>2, NoTimerIsNoHandle DEF Handle
  <2>4. \A u \in starting \union (next_timer \ {t}) : u.handle # t.handle
      BY DEF Unique
  <2>11. Somewhere'
      BY <1>6, <2>1, <2>3 DEF TickPop, Somewhere, Starting, Queued
  <2>12. Exclusive'
      BY <1>6, <2>1, <2>4 DEF TickPop, Exclusive
  <2>13. Unique'
      BY <1>6, <2>1 DEF TickPop, Unique, Exclusive
  <2> QED
      BY <2>11, <2>12, <2>13 DEF PlaceInv
<1>7. CASE TickBreak
  <2>11. Somewhere'
      BY <1>7 DEF TickBreak, LeaveTick, Holding, Somewhere, Starting, Queued
  <2>12. Exclusive'
      BY <1>7 DEF TickBreak, LeaveTick, Holding, Exclusive
  <2>13. Unique'
      BY <1>7 DEF TickBreak, LeaveTick, Holding, Unique, Exclusive
  <2> QED
      BY <2>11, <2>12, <2>13 DEF PlaceInv
<1>8. CASE TickCheck
    BY <1>8 DEF TickCheck, Somewhere, Exclusive, Unique, Starting, Queued
<1>9. CASE TickBegin
    BY <1>9 DEF TickBegin, Somewhere, Exclusive, Unique, Starting, Queued
<1>10. CASE TickReturn
    BY <1>10 DEF TickReturn, Somewhere, Exclusive, Unique, Starting, Queued
<1>11. CASE TickReinsert
  <2>1. PICK u \in TimerRec : Reinserted(cur_timer) = {u} /\ u.handle = cur_timer.handle
      BY <1>11, ReinsertedTimer DEF TickReinsert, Holding
  <2>2. stops[u.handle] = 0 /\ u.handle \notin thrown /\ u.handle \in Handle
      BY <1>11, <2>1, NoTimerIsNoHandle DEF TickReinsert, Holding
  <2>11. Somewhere'
      BY <1>11, <2>1, <2>2 DEF TickReinsert, Somewhere, Starting, Queued
  <2>12. Exclusive'
      BY <1>11, <2>1, <2>2, NoTimerIsNoHandle DEF TickReinsert, Exclusive
  <2>13. Unique'
      BY <1>11, <2>1 DEF TickReinsert, Unique, Exclusive
  <2> QED
      BY <2>11, <2>12, <2>13 DEF PlaceInv
<1>12. CASE TickThrow
  <2>11. Somewhere'
      BY <1>12 DEF TickThrow, LeaveTick, Holding, Somewhere, Starting, Queued
  <2>12. Exclusive'
      BY <1>12, NoTimerIsNoHandle DEF TickThrow, LeaveTick, Holding, Exclusive
  <2>13. Unique'
      BY <1>12 DEF TickThrow, LeaveTick, Holding, Unique, Exclusive
  <2> QED
      BY <2>11, <2>12, <2>13 DEF PlaceInv
<1>13. CASE StopRun
  <2>1. stops'[cur_timer.handle] = 1 /\ \A h \in Handle : h # cur_timer.handle => stops'[h] = stops[h]
      BY <1>13, NoTimerIsNoHandle DEF StopRun, Holding
  <2>11. Somewhere'
      BY <1>13, <2>1 DEF StopRun, Holding, Somewhere, Starting, Queued
  <2>12. Exclusive'
      BY <1>13, <2>1, NoTimerIsNoHandle DEF StopRun, Holding, Exclusive
  <2>13. Unique'
      BY <1>13 DEF StopRun, Holding, Unique, Exclusive
  <2> QED
      BY <2>11, <2>12, <2>13 DEF PlaceInv
<1>14. CASE StopThrow
  <2>1. stops'[cur_timer.handle] = 1 /\ \A h \in Handle : h # cur_timer.handle => stops'[h] = stops[h]
      BY <1>14, NoTimerIsNoHandle DEF StopThrow, Holding
  <2>11. Somewhere'
      BY <1>14, <2>1 DEF StopThrow, LeaveTick, Holding, Somewhere, Starting, Queued
  <2>12. Exclusive'
      BY <1>14, <2>1, NoTimerIsNoHandle DEF StopThrow, LeaveTick, Holding, Exclusive
  <2>13. Unique'
      BY <1>14 DEF StopThrow, LeaveTick, Holding, Unique, Exclusive
  <2> QED
      BY <2>11, <2>12, <2>13 DEF PlaceInv
<1>15. CASE StopErase
  <2>11. Somewhere'
      BY <1>15 DEF StopErase, Holding, Somewhere, Starting, Queued
  <2>12. Exclusive'
      BY <1>15, NoTimerIsNoHandle DEF StopErase, Holding, Exclusive
  <2>13. Unique'
      BY <1>15 DEF StopErase, Holding, Unique, Exclusive
  <2> QED
      BY <2>11, <2>12, <2>13 DEF PlaceInv
<1>16. CASE Shutdown
    BY <1>16 DEF Shutdown, Somewhere, Exclusive, Unique, Starting, Queued
<1>17. CASE LoopExit
    BY <1>17 DEF LoopExit, Somewhere, Exclusive, Unique, Starting, Queued
<1>18. CASE Drain
  <2>1. \A h \in Handle : stops'[h] = IF Queued(h) THEN 1 ELSE stops[h]
      BY <1>18 DEF Drain, Queued, Exclusive
  <2>2. \A t \in starting : ~ Queued(t.handle)
      BY DEF Unique, Queued
  <2>11. Somewhere'
      BY <1>18, <2>1 DEF Drain, Somewhere, Starting, Queued
  <2>12. Exclusive'
      BY <1>18, <2>1, <2>2, NoTimerIsNoHandle DEF Drain, Exclusive
  <2>13. Unique'
      BY <1>18 DEF Drain, Unique, Exclusive
  <2> QED
      BY <2>11, <2>12, <2>13 DEF PlaceInv
<1>20. ASSUME NEW h \in unset, StoreHandle(h)
      PROVE  PlaceInv'
    BY <1>20 DEF StoreHandle, Somewhere, Exclusive, Unique, Starting, Queued
<1>19. CASE UNCHANGED vars
    BY <1>19 DEF vars, Somewhere, Exclusive, Unique, Starting, Queued
<1> QED
    BY <1>1, <1>2, <1>3, <1>4, <1>5, <1>6, <1>7, <1>8, <1>9, <1>10, <1>11,
       <1>12, <1>13, <1>14, <1>15, <1>16, <1>17, <1>18, <1>19, <1>20
    DEF Next, LoopStep

-----------------------------------------------------------------------------
(* Stopped timers.                                                        *)

StopInv == StopRemembered /\ RetiredOnce

LEMMA InitStop == Init => StopInv
BY DEF Init, StopInv, StopRemembered, RetiredOnce

LEMMA NextStop ==
    TypeOK /\ HandleInv /\ CurInv /\ PlaceInv /\ StopInv /\ [Next]_vars
        => StopInv'
<1> SUFFICES ASSUME TypeOK, HandleInv, CurInv, PlaceInv, StopInv, [Next]_vars PROVE StopInv'
    OBVIOUS
<1> USE DEF TypeOK, StopInv, StopRemembered, RetiredOnce, histVars, loopVars
<1>1. CASE ClockTick
    BY <1>1 DEF ClockTick
<1>2. ASSUME NEW f \in Frequencies, NEW k \in Kinds, StartTimer(f, k)
      PROVE  StopInv'
    BY <1>2 DEF StartTimer, NewHandle
<1>3. ASSUME NEW t \in starting, InsertTimer(t)
      PROVE  StopInv'
    BY <1>3 DEF InsertTimer, TimerRec
<1>4. ASSUME NEW h \in Handle, StopTimer(h)
      PROVE  StopInv'
    BY <1>4 DEF StopTimer
<1>5. CASE Prune
    BY <1>5 DEF Prune
<1>6. CASE TickPop
    BY <1>6 DEF TickPop, Tops, AfterPop
<1>7. CASE TickBreak
    BY <1>7 DEF TickBreak, LeaveTick
<1>8. CASE TickCheck
    BY <1>8 DEF TickCheck
<1>9. CASE TickBegin
    BY <1>9 DEF TickBegin
<1>10. CASE TickReturn
    BY <1>10, NoTimerIsNoHandle DEF TickReturn, Holding
<1>11. CASE TickReinsert
    BY <1>11 DEF TickReinsert
<1>12. CASE TickThrow
    BY <1>12 DEF TickThrow, LeaveTick
<1>13. CASE StopRun
  <2>1. /\ cur_timer.handle \in stopped
        /\ stops'[cur_timer.handle] = 1
        /\ \A h \in Handle : h # cur_timer.handle => stops'[h] = stops[h]
      BY <1>13, NoTimerIsNoHandle DEF StopRun, Holding, CurInv
  <2> QED
      BY <1>13, <2>1 DEF StopRun
<1>14. CASE StopThrow
  <2>1. /\ cur_timer.handle \in stopped
        /\ stops'[cur_timer.handle] = 1
        /\ \A h \in Handle : h # cur_timer.handle => stops'[h] = stops[h]
      BY <1>14, NoTimerIsNoHandle DEF StopThrow, Holding, CurInv
  <2> QED
      BY <1>14, <2>1 DEF StopThrow, LeaveTick
<1>15. CASE StopErase
    BY <1>15 DEF StopErase, CurInv
<1>16. CASE Shutdown
    BY <1>16 DEF Shutdown
<1>17. CASE LoopExit
    BY <1>17 DEF LoopExit
<1>18. CASE Drain
  <2>1. \A h \in Handle : stops'[h] = IF Queued(h) THEN 1 ELSE stops[h]
      BY <1>18 DEF Drain, Queued, PlaceInv, Exclusive
  <2> QED
      BY <1>18, <2>1 DEF Drain
<1>20. ASSUME NEW h \in unset, StoreHandle(h)
      PROVE  StopInv'
    BY <1>20 DEF StoreHandle
<1>19. CASE UNCHANGED vars
    BY <1>19 DEF vars
<1> QED
    BY <1>1, <1>2, <1>3, <1>4, <1>5, <1>6, <1>7, <1>8, <1>9, <1>10, <1>11,
       <1>12, <1>13, <1>14, <1>15, <1>16, <1>17, <1>18, <1>19, <1>20
    DEF Next, LoopStep

-----------------------------------------------------------------------------
(* Calls of on_tick.                                                       *)

\* A timer that tick_timers has decided to tick was not stopped when it
\* looked, so none of its ticks was late; a oneshot_timer that has ticked is
\* stopped, or it is being ticked, or its callback threw, or found th not stored.
TickInv ==
    /\ OneLateTick
    /\ OneshotTicksOnce
    /\ \A h \in Handle : late[h] > 0 => h \in stopped
    /\ \A h \in Handle : kind[h] = "oneshot" /\ ticks[h] > 0 =>
            \/ h \in stopped \/ h \in thrown \/ h \in misread
            \/ pc = "running" /\ cur_timer.handle = h
    /\ pc = "tick" =>
            /\ late[cur_timer.handle] = 0
            /\ kind[cur_timer.handle] = "oneshot" =>
                    ticks[cur_timer.handle] = 0 \/ cur_timer.handle \in misread

LEMMA InitTick == Init => TickInv
BY DEF Init, TickInv, OneLateTick, OneshotTicksOnce

LEMMA NextTickInv ==
    TypeOK /\ HandleInv /\ CurInv /\ PlaceInv /\ StopInv /\ TickInv /\ [Next]_vars
        => TickInv'
<1> SUFFICES ASSUME TypeOK, HandleInv, CurInv, PlaceInv, StopInv, TickInv, [Next]_vars PROVE TickInv'
    OBVIOUS
<1> USE DEF TypeOK, TickInv, OneLateTick, OneshotTicksOnce, histVars, loopVars
<1>1. CASE ClockTick
    BY <1>1 DEF ClockTick
<1>2. ASSUME NEW f \in Frequencies, NEW k \in Kinds, StartTimer(f, k)
      PROVE  TickInv'
  <2>1. next_handle \in Handle /\ ticks[next_handle] = 0 /\ late[next_handle] = 0
      BY <1>2, TimersAssumption DEF StartTimer, Handle, HandleInv, TimersAssumption
  <2>2. \A h \in Handle : h # next_handle => kind'[h] = kind[h]
      BY <1>2 DEF StartTimer
  <2>3. pc = "tick" => cur_timer.handle # next_handle /\ cur_timer.handle \in Handle
      BY NoTimerIsNoHandle DEF HandleInv, Holding, Handle
  <2> QED
      BY <1>2, <2>1, <2>2, <2>3 DEF StartTimer
<1>3. ASSUME NEW t \in starting, InsertTimer(t)
      PROVE  TickInv'
    BY <1>3 DEF InsertTimer, TimerRec
<1>4. ASSUME NEW h \in Handle, StopTimer(h)
      PROVE  TickInv'
    BY <1>4 DEF StopTimer
<1>5. CASE Prune
    BY <1>5 DEF Prune
<1>6. CASE TickPop
    BY <1>6 DEF TickPop, Tops, AfterPop
<1>7. CASE TickBreak
    BY <1>7 DEF TickBreak, LeaveTick
<1>8. CASE TickCheck
  <2>1. cur_timer.handle \in Handle
      BY <1>8, NoTimerIsNoHandle DEF TickCheck, Holding
  <2>2. pc' = "tick" => cur_timer.handle \notin stopped /\ cur_timer.handle \notin thrown
      BY <1>8, <2>1 DEF TickCheck, IsDeleted, CurInv, Holding, StopInv, StopRemembered
  <2> QED
      BY <1>8, <2>1, <2>2 DEF TickCheck
<1>9. CASE TickBegin
  <2>1. cur_timer.handle \in Handle
      BY <1>9, NoTimerIsNoHandle DEF TickBegin, Holding
  <2>2. /\ ticks'[cur_timer.handle] = ticks[cur_timer.handle] + 1
        /\ \A h \in Handle : h # cur_timer.handle => ticks'[h] = ticks[h]
      BY <1>9, <2>1 DEF TickBegin
  <2>3. /\ late'[cur_timer.handle] \in {0, 1}
        /\ late'[cur_timer.handle] = 1 => cur_timer.handle \in stopped
        /\ \A h \in Handle : h # cur_timer.handle => late'[h] = late[h]
      BY <1>9, <2>1 DEF TickBegin
  <2> QED
      BY <1>9, <2>1, <2>2, <2>3 DEF TickBegin
<1>10. CASE TickReturn
  <2>1. cur_timer.handle \in Handle
      BY <1>10, NoTimerIsNoHandle DEF TickReturn, Holding
  <2> QED
      BY <1>10, <2>1 DEF TickReturn, StopsItself, ReadHandle, HandleInv
<1>11. CASE TickReinsert
    BY <1>11 DEF TickReinsert
<1>12. CASE TickThrow
    BY <1>12 DEF TickThrow, LeaveTick
<1>13. CASE StopRun
    BY <1>13 DEF StopRun
<1>14. CASE StopThrow
    BY <1>14 DEF StopThrow, LeaveTick
<1>15. CASE StopErase
    BY <1>15 DEF StopErase
<1>16. CASE Shutdown
    BY <1>16 DEF Shutdown
<1>17. CASE LoopExit
    BY <1>17 DEF LoopExit
<1>18. CASE Drain
    BY <1>18 DEF Drain
<1>20. ASSUME NEW h \in unset, StoreHandle(h)
      PROVE  TickInv'
    BY <1>20 DEF StoreHandle
<1>19. CASE UNCHANGED vars
    BY <1>19 DEF vars
<1> QED
    BY <1>1, <1>2, <1>3, <1>4, <1>5, <1>6, <1>7, <1>8, <1>9, <1>10, <1>11,
       <1>12, <1>13, <1>14, <1>15, <1>16, <1>17, <1>18, <1>19, <1>20
    DEF Next, LoopStep

-----------------------------------------------------------------------------
(* The times of ticks.                                                     *)

\* A timer's next tick is a whole number of periods after it was started, in
\* the queue as in tick_timers' hands, and its last one is in the past.
OnSchedule(t, n) == t.next_tick = started[t.handle] + n * t.frequency

InPast(t) == started[t.handle] + ticks[t.handle] * t.frequency <= now

TimeInv ==
    /\ tick_now <= now
    /\ pc \in Holding => cur_timer.next_tick <= tick_now
    /\ \A t \in starting \union next_timer :
            OnSchedule(t, ticks[t.handle] + 1) /\ InPast(t)
    /\ pc \in {"check", "tick", "stop"} =>
            OnSchedule(cur_timer, ticks[cur_timer.handle] + 1)
    /\ pc \in {"running", "reinsert"} =>
            OnSchedule(cur_timer, ticks[cur_timer.handle])

LEMMA OnePeriodMore ==
    ASSUME NEW n \in Nat, NEW f \in Nat
    PROVE  n * f \in Nat /\ (n + 1) * f = n * f + f /\ 0 * f = 0 /\ 1 * f = f
BY SMT

LEMMA TimerRecFields ==
    \A t \in TimerRec : /\ t.handle \in Handle
                        /\ t.next_tick \in Nat
                        /\ t.frequency \in Nat
BY DEF TimerRec

LEMMA InitTime == Init => TimeInv
<1> SUFFICES ASSUME Init PROVE TimeInv
    OBVIOUS
<1>1. ServiceTimer \in Handle
    BY TimersAssumption DEF ServiceTimer, Handle, TimersAssumption
<1> QED
    BY <1>1 DEF Init, TimeInv, OnSchedule, InPast, Holding

LEMMA NextTimeInv ==
    TypeOK /\ HandleInv /\ CurInv /\ PlaceInv /\ TimeInv /\ [Next]_vars => TimeInv'
<1> SUFFICES ASSUME TypeOK, HandleInv, CurInv, PlaceInv, TimeInv, [Next]_vars PROVE TimeInv'
    OBVIOUS
<1> USE DEF TypeOK, TimeInv, histVars, loopVars
<1>1. CASE ClockTick
  <2>1. \A t \in starting \union next_timer : InPast(t)'
    <3> SUFFICES ASSUME NEW t \in starting \union next_timer PROVE InPast(t)'
        BY DEF InPast
    <3>1. started[t.handle] \in Nat /\ ticks[t.handle] \in Nat /\ t.frequency \in Nat
        BY TimerRecFields
    <3>2. ticks[t.handle] * t.frequency \in Nat
        BY <3>1, OnePeriodMore
    <3> QED
        BY <1>1, <3>1, <3>2 DEF ClockTick, InPast
  <2> QED
      BY <1>1, <2>1 DEF ClockTick, OnSchedule
<1>2. ASSUME NEW f \in Frequencies, NEW k \in Kinds, StartTimer(f, k)
      PROVE  TimeInv'
  <2>1. PICK r \in TimerRec :
            /\ r.handle = next_handle /\ r.frequency = f /\ r.next_tick = now + f
            /\ starting' = starting \union {r} /\ f \in Nat
    <3> DEFINE new == [handle |-> NewHandle, next_tick |-> now + f, frequency |-> f]
    <3>1. /\ new \in TimerRec
          /\ new.handle = next_handle /\ new.frequency = f /\ new.next_tick = now + f
          /\ starting' = starting \union {new} /\ f \in Nat
        BY <1>2, TimersAssumption
        DEF StartTimer, NewHandle, TimerRec, Handle, TimersAssumption
    <3> QED
        BY <3>1
  <2>2. /\ \A t \in starting \union next_timer : t.handle # next_handle
        /\ pc \in Holding => cur_timer.handle # next_handle
      BY NoTimerIsNoHandle DEF HandleInv, Handle
  <2>3. next_handle \in Handle /\ ticks[next_handle] = 0
      BY <1>2, TimersAssumption DEF StartTimer, Handle, HandleInv, TimersAssumption
  <2>4. /\ started'[next_handle] = now
        /\ \A h \in Handle : h # next_handle => started'[h] = started[h]
      BY <1>2, <2>3 DEF StartTimer
  <2>5. OnSchedule(r, ticks[r.handle] + 1)' /\ InPast(r)'
      BY <1>2, <2>1, <2>3, <2>4, OnePeriodMore DEF StartTimer, OnSchedule, InPast
  <2>6. \A t \in starting \union next_timer :
            OnSchedule(t, ticks[t.handle] + 1)' /\ InPast(t)'
      BY <1>2, <2>2, <2>4, TimerRecFields DEF StartTimer, OnSchedule, InPast
  <2>7. pc \in Holding => started'[cur_timer.handle] = started[cur_timer.handle]
      BY <2>2, <2>4, TimerRecFields
  <2> QED
      BY <1>2, <2>1, <2>5, <2>6, <2>7 DEF StartTimer, OnSchedule, Holding
<1>3. ASSUME NEW t \in starting, InsertTimer(t)
      PROVE  TimeInv'
    BY <1>3 DEF InsertTimer, OnSchedule, InPast, Holding
<1>4. ASSUME NEW h \in Handle, StopTimer(h)
      PROVE  TimeInv'
    BY <1>4 DEF StopTimer, OnSchedule, InPast, Holding
<1>5. CASE Prune
    BY <1>5 DEF Prune, OnSchedule, InPast, Holding
<1>6. CASE TickPop
    BY <1>6 DEF TickPop, Tops, AfterPop, IsDue, OnSchedule, InPast, Holding
<1>7. CASE TickBreak
    BY <1>7 DEF TickBreak, LeaveTick, OnSchedule, InPast, Holding
<1>8. CASE TickCheck
    BY <1>8 DEF TickCheck, OnSchedule, InPast, Holding
<1>9. CASE TickBegin
  <2>1. cur_timer \in TimerRec
      BY <1>9 DEF TickBegin, Holding
  <2>2. /\ ticks'[cur_timer.handle] = ticks[cur_timer.handle] + 1
        /\ \A h \in Handle : h # cur_timer.handle => ticks'[h] = ticks[h]
      BY <1>9, <2>1, TimerRecFields DEF TickBegin
  <2>3. \A t \in starting \union next_timer : ticks'[t.handle] = ticks[t.handle]
      BY <2>2, TimerRecFields DEF PlaceInv, Exclusive
  <2>4. \A t \in starting \union next_timer :
            OnSchedule(t, ticks[t.handle] + 1)' /\ InPast(t)'
      BY <1>9, <2>3 DEF TickBegin, OnSchedule, InPast
  <2> QED
      BY <1>9, <2>1, <2>2, <2>4 DEF TickBegin, OnSchedule, Holding
<1>10. CASE TickReturn
    BY <1>10 DEF TickReturn, OnSchedule, InPast, Holding
<1>11. CASE TickReinsert
  <2>1. cur_timer \in TimerRec
      BY <1>11 DEF TickReinsert, Holding
  <2>2. PICK u \in TimerRec : /\ Reinserted(cur_timer) = {u}
                              /\ u.handle = cur_timer.handle
                              /\ u.frequency = cur_timer.frequency
                              /\ u.next_tick = cur_timer.next_tick + cur_timer.frequency
      BY <2>1, ReinsertedTimer
  <2> DEFINE s == started[u.handle]
             n == ticks[u.handle]
  <2>3. /\ s \in Nat /\ n \in Nat /\ u.frequency \in Nat
        /\ cur_timer.next_tick = s + n * u.frequency
        /\ cur_timer.next_tick <= now
      BY <1>11, <2>1, <2>2, TimerRecFields DEF TickReinsert, OnSchedule, Holding
  <2>4. u.next_tick = s + (n + 1) * u.frequency /\ s + n * u.frequency <= now
      BY <2>2, <2>3, OnePeriodMore
  <2>5. OnSchedule(u, ticks[u.handle] + 1)' /\ InPast(u)'
      BY <1>11, <2>4 DEF TickReinsert, OnSchedule, InPast
  <2> QED
      BY <1>11, <2>2, <2>5 DEF TickReinsert, OnSchedule, InPast, Holding
<1>12. CASE TickThrow
    BY <1>12 DEF TickThrow, LeaveTick, OnSchedule, InPast, Holding
<1>13. CASE StopRun
    BY <1>13 DEF StopRun, OnSchedule, InPast, Holding
<1>14. CASE StopThrow
    BY <1>14 DEF StopThrow, LeaveTick, OnSchedule, InPast, Holding
<1>15. CASE StopErase
    BY <1>15 DEF StopErase, OnSchedule, InPast, Holding
<1>16. CASE Shutdown
    BY <1>16 DEF Shutdown, OnSchedule, InPast, Holding
<1>17. CASE LoopExit
    BY <1>17 DEF LoopExit, OnSchedule, InPast, Holding
<1>18. CASE Drain
    BY <1>18 DEF Drain, OnSchedule, InPast, Holding
<1>20. ASSUME NEW h \in unset, StoreHandle(h)
      PROVE  TimeInv'
    BY <1>20 DEF StoreHandle, OnSchedule, InPast, Holding
<1>19. CASE UNCHANGED vars
    BY <1>19 DEF vars, OnSchedule, InPast, Holding
<1> QED
    BY <1>1, <1>2, <1>3, <1>4, <1>5, <1>6, <1>7, <1>8, <1>9, <1>10, <1>11,
       <1>12, <1>13, <1>14, <1>15, <1>16, <1>17, <1>18, <1>19, <1>20
    DEF Next, LoopStep

-----------------------------------------------------------------------------
(* The theorems.                                                           *)

Inv ==
    /\ TypeOK
    /\ HandleInv
    /\ CurInv
    /\ PlaceInv
    /\ StopInv
    /\ TickInv
    /\ TimeInv

\* Inv is an invariant: it holds at first and every step preserves it.
THEOREM InvHolds == Spec => []Inv
<1>1. Init => Inv
    BY InitTypeOK, InitHandle, InitCur, InitPlace, InitStop, InitTick, InitTime
    DEF Inv
<1>2. Inv /\ [Next]_vars => Inv'
    BY NextTypeOK, NextHandle, NextCur, NextPlace, NextStop, NextTickInv,
       NextTimeInv
    DEF Inv
<1> QED
    BY <1>1, <1>2, PTL DEF Spec

\* No timer is lost or duplicated by the hand-over between start_timer, the
\* queue, tick_timers and on_stop, for any number of timers and any clock.
THEOREM Conservation == Spec => []TimersConserved
<1>1. Inv => TimersConserved
  <2> SUFFICES ASSUME Inv, NEW h \in Handle, Created(h)
               PROVE  /\ \/ Starting(h) \/ Queued(h) \/ cur_timer.handle = h
                         \/ stops[h] = 1 \/ h \in thrown
                      /\ Starting(h) \/ Queued(h) => /\ cur_timer.handle # h
                                                     /\ stops[h] = 0
                                                     /\ h \notin thrown
                      /\ \A t, u \in starting \union next_timer :
                              t.handle = h /\ u.handle = h => t = u
                      /\ ~ (Starting(h) /\ Queued(h))
      BY DEF TimersConserved
  <2> QED
      BY DEF Inv, PlaceInv, Somewhere, Exclusive, Unique, Starting, Queued, Created
<1> QED
    BY InvHolds, <1>1, PTL

\* A stop is honoured: it is not forgotten, on_stop is called at most once and
\* after stop_timer has returned at most one on_tick begins, also while shutdown
\* drains the queue beside the loop.
THEOREM StopsAreHonoured == Spec => []StopHonoured
<1>1. Inv => StopHonoured
    BY DEF Inv, StopInv, TickInv, StopHonoured
<1> QED
    BY InvHolds, <1>1, PTL

\* The callback of a oneshot_timer is called at most once, unless a call found
\* the handle not stored yet.
THEOREM OneshotsTickOnce == Spec => []OneshotTicksOnce
<1>1. Inv => OneshotTicksOnce
    BY DEF Inv, TickInv
<1> QED
    BY InvHolds, <1>1, PTL

\* The ticks of a timer neither drift nor come early.
THEOREM Punctuality == Spec => []Punctual
<1>1. Inv => NoDrift
    BY DEF Inv, TimeInv, OnSchedule, NoDrift
<1>2. Inv => NotEarly
  <2> SUFFICES ASSUME Inv PROVE NotEarly
      OBVIOUS
  <2>1. cur_timer # NoTimer => cur_timer.next_tick <= now
      BY TimerRecFields DEF Inv, TypeOK, TimeInv
  <2> QED
      BY <2>1 DEF Inv, TimeInv, InPast, NotEarly
<1>3. Inv => Punctual
    BY <1>1, <1>2 DEF Punctual
<1> QED
    BY InvHolds, <1>3, PTL

\* tick_timers' unguarded next_timer.top() has an element to return, unless the
\* service timer was stopped through an uninitialised handle or shutdown has
\* drained the queue beside a loop whose thread it could not join.
THEOREM QueueNeverEmpty == Spec => []TopDefined
<1>1. Inv => TopDefined
  <2> SUFFICES ASSUME Inv, pc = "top", ServiceTimer \notin stopped,
                      ReturnAfter = "st_wait" => ~ drained
               PROVE  next_timer # {}
      BY DEF TopDefined
  <2>1. ServiceTimer \in Handle /\ ServiceTimer < next_handle
      BY TimersAssumption DEF Inv, HandleInv, ServiceTimer, Handle, TypeOK,
                              TimersAssumption
  <2>2. cur_timer.handle # ServiceTimer
      BY <2>1, NoTimerIsNoHandle DEF Inv, TypeOK, Holding, ServiceTimer
  <2>3. /\ ServiceTimer \notin stopped /\ ServiceTimer \notin thrown
        /\ ~ Starting(ServiceTimer) /\ ~ drained
      BY TimersAssumption DEF Inv, HandleInv, CurInv, Starting, TimersAssumption
  <2>4. stops[ServiceTimer] # 1
      BY <2>1, <2>3 DEF Inv, StopInv, RetiredOnce
  <2>5. Queued(ServiceTimer)
      BY <2>1, <2>2, <2>3, <2>4 DEF Inv, PlaceInv, Somewhere
  <2> QED
      BY <2>5 DEF Queued
<1> QED
    BY InvHolds, <1>1, PTL

=============================================================================
