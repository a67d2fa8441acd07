---------------------------- MODULE ExecutorProofs ----------------------------
(***************************************************************************)
(* Proofs about Executor for any number of threads, invocables, handles and *)
(* any time bound.                                                          *)
(***************************************************************************)
EXTENDS Executor, QueueLemmas, TLAPS

LEMMA EmptyQueue == m_queue = <<>> => Queued = {}
  BY DEF Queued

-------------------------------------------------------------------------------
LEMMA TypeInit == Init => TypeOK
<1> SUFFICES ASSUME Init PROVE TypeOK
  OBVIOUS
<1>1. m_queue \in Seq(Ids)
  BY DEF Init
<1>2. \A t \in Threads : ~(m_mtx = t) /\ tpc[t] = "idle"
  BY IdAssumption DEF Init
<1>3. tpc \in [Threads -> {"idle", "emplace", "wake", "wakeWait", "wait"}]
  BY DEF Init
<1>4. targ \in [Threads -> [id : Fns \cup {None}, at : 0..MaxTime]]
  BY TimeAssumption DEF Init
<1>5. /\ wpc \in WorkerStates /\ cur = None /\ wpc # "run"
      /\ m_mtx # Worker /\ wpc \notin {"perform", "events", "sched"}
  BY IdAssumption DEF Init, WorkerStates
<1>6. timeout \in 0..PollMax /\ schedNow \in 0..MaxTime /\ now \in 0..MaxTime
  BY TimeAssumption DEF Init
<1> QED
  BY <1>1, <1>2, <1>3, <1>4, <1>5, <1>6 DEF Init, TypeOK

LEMMA TypeCalls ==
  ASSUME TypeOK, NEW t \in Threads, Call(t) \/ Continue(t)
  PROVE  TypeOK'
<1> USE IdAssumption, TimeAssumption
<1>1. ASSUME NEW f \in Fns, NEW next \in {"wake", "wakeWait"}, Enqueue(t, f, next)
      PROVE  TypeOK'
  <2>1. m_queue' \in Seq(Ids)
    BY <1>1, AppendElements DEF Enqueue, TypeOK, Ids
  <2> QED
    BY <1>1, <2>1 DEF Enqueue, TypeOK, worker, locals, curl, clock, Ids, Entry
<1>2. CASE Wakeup(t)
  BY <1>2 DEF Wakeup, TypeOK, worker, locals, shared, curl, others, caller, clock, ghosts
<1>3. ASSUME NEW f \in Fns, NEW at \in 0..MaxTime, SchedLock(t, f, at)
      PROVE  TypeOK'
  BY <1>3 DEF SchedLock, TypeOK, worker, locals, curl, clock, Ids, Entry
<1>4. CASE Wake(t)
  BY <1>4 DEF Wake, TypeOK, worker, locals, shared, curl, clock, ghosts
<1>5. CASE WaitReturn(t)
  BY <1>5 DEF WaitReturn, TypeOK, worker, locals, shared, curl, clock, ghosts
<1>6. CASE SchedEmplace(t)
  <2>1. targ[t] \in Entry
    BY <1>6 DEF SchedEmplace, TypeOK, Entry
  <2>2. m_scheduled' \subseteq Entry
    BY <1>6, <2>1 DEF SchedEmplace, EmplaceOutcomes, TypeOK
  <2> QED
    BY <1>6, <2>2 DEF SchedEmplace, TypeOK, worker, locals, curl, clock, ghosts
<1> QED
  BY <1>1, <1>2, <1>3, <1>4, <1>5, <1>6 DEF Call, Continue, Push, PushWait

LEMMA TypeBody == TypeOK /\ Body => TypeOK'
<1> USE IdAssumption, TimeAssumption
<1> SUFFICES ASSUME TypeOK, Body PROVE TypeOK'
  OBVIOUS
<1>1. ASSUME NEW f \in Fns, BodyPush(f) PROVE TypeOK'
  <2>1. m_queue' \in Seq(Ids)
    BY <1>1, AppendElements DEF BodyPush, TypeOK, Ids
  <2> QED
    BY <1>1, <2>1 DEF BodyPush, TypeOK, worker, locals, curl, others, caller, clock
<1>2. ASSUME NEW f \in Fns, NEW at \in 0..MaxTime, BodySchedule(f, at) PROVE TypeOK'
  BY <1>2 DEF BodySchedule, TypeOK, worker, locals, curl, others, caller, clock, Entry
<1>3. ASSUME NEW h \in Handles, BodyAddHandle(h) PROVE TypeOK'
  BY <1>3 DEF BodyAddHandle, TypeOK, worker, locals, shared, others, caller, clock
<1>4. ASSUME NEW h \in Handles, BodyRemoveHandle(h) PROVE TypeOK'
  BY <1>4 DEF BodyRemoveHandle, TypeOK, worker, locals, shared, others, caller, clock, ghosts
<1> QED
  BY <1>1, <1>2, <1>3, <1>4 DEF Body

LEMMA TypeWorker == TypeOK /\ WorkerStep => TypeOK'
<1> USE IdAssumption, TimeAssumption
<1> SUFFICES ASSUME TypeOK, WorkerStep PROVE TypeOK'
  OBVIOUS
<1> USE DEF TypeOK, WorkerStates, locals, shared, curl, others, caller, clock, ghosts
<1>1. CASE W_Lock
  BY <1>1 DEF W_Lock
<1>2. CASE W_Perform
  BY <1>2 DEF W_Perform
<1>3. ASSUME NEW h \in Handles, W_Event(h) PROVE TypeOK'
  <2>1. m_queue' \in Seq(Ids)
    BY <1>3, AppendElements DEF W_Event, Ids
  <2> QED
    BY <1>3, <2>1 DEF W_Event, worker
<1>4. CASE W_EventsEnd
  BY <1>4 DEF W_EventsEnd
<1>5. CASE W_Pop
  <2>1. Head(m_queue) \in Ids /\ m_queue' \in Seq(Ids)
    BY <1>5, TailElements DEF W_Pop
  <2> QED
    BY <1>5, <2>1 DEF W_Pop
<1>6. CASE BodyReturn
  BY <1>6 DEF BodyReturn
<1>7. CASE W_Empty \/ W_CheckExit \/ W_Again
  BY <1>7 DEF W_Empty, W_CheckExit, W_Again
<1>8. CASE W_Timeout
  BY <1>8 DEF W_Timeout
<1>9. CASE W_SchedBegin
  BY <1>9 DEF W_SchedBegin
<1>10. ASSUME NEW e \in m_scheduled, W_SchedPop(e) PROVE TypeOK'
  <2>1. e.id \in Ids
    BY DEF Entry, Ids
  <2> QED
    BY <1>10, <2>1 DEF W_SchedPop
<1>11. CASE W_Relock
  BY <1>11 DEF W_Relock
<1>12. CASE W_SchedEnd
  <2>1. timeout' \in 0..PollMax
    BY <1>12 DEF W_SchedEnd, Entry
  <2> QED
    BY <1>12, <2>1 DEF W_SchedEnd
<1>13. CASE W_Poll \/ W_CallbacksEnd
  <2>1. CASE W_Poll
    <3>1. pollAt' \in 0..MaxTime /\ behind' \in Nat
      BY <2>1 DEF W_Poll
    <3> QED
      BY <2>1, <3>1 DEF W_Poll
  <2>2. CASE W_CallbacksEnd
    BY <2>2 DEF W_CallbacksEnd
  <2> QED
    BY <1>13, <2>1, <2>2
<1> QED
  BY <1>1, <1>2, <1>3, <1>4, <1>5, <1>6, <1>7, <1>8, <1>9, <1>10, <1>11, <1>12, <1>13
  DEF WorkerStep

LEMMA TypeNext == TypeOK /\ [Next]_vars => TypeOK'
<1> SUFFICES ASSUME TypeOK, [Next]_vars PROVE TypeOK'
  OBVIOUS
<1>1. CASE Destructor
  BY <1>1 DEF Destructor, DestroyBegin, DestroyWake, Join, TypeOK, worker, locals, shared,
              curl, caller, clock, ghosts
<1>2. CASE Tick
  BY <1>2, TimeAssumption DEF Tick, TypeOK, worker, locals, shared, curl, caller, ghosts
<1>3. CASE UNCHANGED vars
  BY <1>3 DEF vars, TypeOK, worker, locals, shared, curl, others, caller, clock, ghosts
<1> QED
  BY <1>1, <1>2, <1>3, TypeCalls, TypeBody, TypeWorker DEF Next, Terminated

(* The type invariant holds: in particular user code never runs on the       *)
(* worker with m_mtx held by it, except inside perform().                    *)
THEOREM TypeCorrect == Safe => []TypeOK
<1>1. Init => TypeOK
  BY TypeInit
<1>2. TypeOK /\ [Next]_vars => TypeOK'
  BY TypeNext
<1> QED
  BY <1>1, <1>2, PTL DEF Safe

-------------------------------------------------------------------------------
(* NoLostWakeup is inductive once it is known that an identity some thread   *)
(* has queued is not used again.                                             *)
ForeignIsUsed == foreign \cap fresh = {} /\ foreign \subseteq Fns

WakeInv == ForeignIsUsed /\ NoLostWakeup

LEMMA WakeCalls ==
  ASSUME TypeOK, WakeInv, NEW t \in Threads, Call(t) \/ Continue(t)
  PROVE  WakeInv'
<1> USE DEF WakeInv, ForeignIsUsed
<1>1. ASSUME NEW f \in Fns, NEW next \in {"wake", "wakeWait"}, Enqueue(t, f, next)
      PROVE  WakeInv'
  <2>1. AboutToWake'
    BY <1>1 DEF Enqueue, AboutToWake, TypeOK
  <2> QED
    BY <1>1, <2>1 DEF Enqueue, NoLostWakeup
<1>2. CASE Wakeup(t) \/ Wake(t)
  BY <1>2 DEF Wakeup, Wake, NoLostWakeup, ghosts
<1>3. ASSUME NEW f \in Fns, NEW at \in 0..MaxTime, SchedLock(t, f, at) PROVE WakeInv'
  <2>1. AboutToWake => AboutToWake'
    BY <1>3 DEF SchedLock, AboutToWake, TypeOK
  <2> QED
    BY <1>3, <2>1 DEF SchedLock, NoLostWakeup, PastDrain, Queued, worker, locals
<1>4. CASE WaitReturn(t)
  <2>1. AboutToWake => AboutToWake'
    BY <1>4 DEF WaitReturn, AboutToWake, TypeOK
  <2> QED
    BY <1>4, <2>1 DEF WaitReturn, NoLostWakeup, PastDrain, Queued, worker, locals, shared, ghosts
<1>5. CASE SchedEmplace(t)
  <2>1. AboutToWake'
    BY <1>5 DEF SchedEmplace, AboutToWake, TypeOK
  <2> QED
    BY <1>5, <2>1 DEF SchedEmplace, NoLostWakeup, ghosts
<1> QED
  BY <1>1, <1>2, <1>3, <1>4, <1>5 DEF Call, Continue, Push, PushWait

(* The worker's own pushes are not foreign, and it makes no thread forget to *)
(* wake it; it reaches PastDrain only with an empty queue.                   *)
LEMMA WakeWorker == TypeOK /\ WakeInv /\ (Body \/ WorkerStep) => WakeInv'
<1> USE DEF WakeInv, ForeignIsUsed
<1> SUFFICES ASSUME TypeOK, WakeInv, Body \/ WorkerStep PROVE WakeInv'
  OBVIOUS
<1>1. ASSUME NEW f \in Fns, BodyPush(f) PROVE WakeInv'
  <2>1. Queued' = Queued \cup {f} /\ f \notin foreign
    BY <1>1, AppendElements DEF BodyPush, TypeOK, Queued, Ids
  <2> QED
    BY <1>1, <2>1 DEF BodyPush, NoLostWakeup, PastDrain, AboutToWake, worker, locals, others, caller, clock
<1> USE DEF NoLostWakeup, PastDrain, AboutToWake, Queued, worker, locals, shared, others, caller, clock, ghosts
<1>2. ASSUME NEW f \in Fns, NEW at \in 0..MaxTime, BodySchedule(f, at) PROVE WakeInv'
  BY <1>2 DEF BodySchedule
<1>3. ASSUME NEW h \in Handles, BodyAddHandle(h) \/ BodyRemoveHandle(h) PROVE WakeInv'
  BY <1>3 DEF BodyAddHandle, BodyRemoveHandle
<1>4. CASE W_Lock \/ W_Perform \/ W_EventsEnd \/ W_Pop \/ W_Again \/ W_Poll \/ W_CallbacksEnd
  BY <1>4 DEF W_Lock, W_Perform, W_EventsEnd, W_Pop, W_Again, W_Poll, W_CallbacksEnd
<1>5. ASSUME NEW h \in Handles, W_Event(h) PROVE WakeInv'
  BY <1>5 DEF W_Event
<1>6. CASE W_Empty
  BY <1>6, EmptyQueue DEF W_Empty
<1>7. CASE BodyReturn
  BY <1>7 DEF BodyReturn, TypeOK
<1>8. CASE W_CheckExit \/ W_Timeout \/ W_SchedBegin \/ W_Relock \/ W_SchedEnd
  BY <1>8 DEF W_CheckExit, W_Timeout, W_SchedBegin, W_Relock, W_SchedEnd
<1>9. ASSUME NEW e \in m_scheduled, W_SchedPop(e) PROVE WakeInv'
  BY <1>9 DEF W_SchedPop
<1> QED
  BY <1>1, <1>2, <1>3, <1>4, <1>5, <1>6, <1>7, <1>8, <1>9 DEF Body, WorkerStep

LEMMA WakeNext == TypeOK /\ WakeInv /\ [Next]_vars => WakeInv'
<1> SUFFICES ASSUME TypeOK, WakeInv, [Next]_vars PROVE WakeInv'
  OBVIOUS
<1>1. CASE Destructor \/ Tick \/ UNCHANGED vars
  BY <1>1 DEF Destructor, DestroyBegin, DestroyWake, Join, Tick, WakeInv, ForeignIsUsed,
              NoLostWakeup, PastDrain, AboutToWake, Queued, vars, worker, locals, shared,
              others, caller, clock, ghosts
<1> QED
  BY <1>1, WakeCalls, WakeWorker DEF Next, Terminated

(* No invocable that another thread has queued is left behind by a worker    *)
(* that goes to sleep.                                                       *)
THEOREM NoWakeupIsLost == Safe => []NoLostWakeup
<1>1. Init => WakeInv
  BY DEF Init, WakeInv, ForeignIsUsed, NoLostWakeup, PastDrain
<1>2. TypeOK /\ WakeInv /\ [Next]_vars => WakeInv'
  BY WakeNext
<1>3. WakeInv => NoLostWakeup
  BY DEF WakeInv
<1> QED
  BY <1>1, <1>2, <1>3, TypeCorrect, PTL DEF Safe

-------------------------------------------------------------------------------
LEMMA ExitNext == TypeOK /\ NoLostExit /\ [Next]_vars => NoLostExit'
<1> SUFFICES ASSUME TypeOK, NoLostExit, [Next]_vars PROVE NoLostExit'
  OBVIOUS
<1> USE DEF NoLostExit, PastDrain, worker, locals, others, caller, clock
<1>1. ASSUME NEW t \in Threads, Call(t) \/ Continue(t) PROVE NoLostExit'
  BY <1>1 DEF Call, Continue, Push, PushWait, Enqueue, Wakeup, SchedLock, Wake, WaitReturn,
              SchedEmplace
<1>2. CASE Body
  BY <1>2 DEF Body, BodyPush, BodySchedule, BodyAddHandle, BodyRemoveHandle
<1>3. CASE W_Lock \/ W_Perform \/ W_EventsEnd \/ W_Pop \/ W_Again \/ W_Poll \/ W_CallbacksEnd
           \/ W_Empty \/ \E h \in Handles : W_Event(h)
  BY <1>3 DEF W_Lock, W_Perform, W_Event, W_EventsEnd, W_Pop, W_Again, W_Poll, W_CallbacksEnd,
              W_Empty
<1>4. CASE W_CheckExit
  BY <1>4 DEF W_CheckExit, m_exit
<1>5. CASE BodyReturn
  BY <1>5 DEF BodyReturn, TypeOK
<1>6. CASE W_Timeout \/ W_SchedBegin \/ W_Relock \/ W_SchedEnd \/ \E e \in m_scheduled : W_SchedPop(e)
  BY <1>6 DEF W_Timeout, W_SchedBegin, W_Relock, W_SchedEnd, W_SchedPop
<1>7. CASE Destructor
  BY <1>7 DEF Destructor, DestroyBegin, DestroyWake, Join
<1>8. CASE Tick \/ UNCHANGED vars
  BY <1>8 DEF Tick, vars
<1> QED
  BY <1>1, <1>2, <1>3, <1>4, <1>5, <1>6, <1>7, <1>8 DEF Next, WorkerStep, Terminated

(* The destructor's wakeup cannot fall between the worker's test of m_exit   *)
(* and its poll().                                                           *)
THEOREM NoExitIsLost == Safe => []NoLostExit
<1>1. Init => NoLostExit
  BY DEF Init, NoLostExit
<1>2. TypeOK /\ NoLostExit /\ [Next]_vars => NoLostExit'
  BY ExitNext
<1> QED
  BY <1>1, <1>2, TypeCorrect, PTL DEF Safe

-------------------------------------------------------------------------------
(* In the scheduled phase the clock is ahead of schedNow by what was counted, *)
(* whoever let the time pass; every entry is at least as late as the one that *)
(* ends the phase, and one that another thread inserts later brings its own   *)
(* wakeup.                                                                    *)
ClockRead ==
  IF InSchedule THEN now = schedNow + behind ELSE wpc = "poll" \/ behind = 0

TimerInv == ClockRead /\ OversleepIsBounded

LEMMA TimerNext == TypeOK /\ TimerInv /\ [Next]_vars => TimerInv'
<1> SUFFICES ASSUME TypeOK, TimerInv, [Next]_vars PROVE TimerInv'
  OBVIOUS
<1> USE DEF TimerInv, ClockRead, OversleepIsBounded, Woken, InSchedule, worker, locals, others, caller,
            clock, shared
<1>1. ASSUME NEW t \in Threads, Call(t) \/ Continue(t) PROVE TimerInv'
  <2>1. CASE SchedEmplace(t) \/ \E f \in Fns : Push(t, f) \/ PushWait(t, f)
    <3>1. AboutToWake'
      BY <2>1 DEF Push, PushWait, Enqueue, SchedEmplace, AboutToWake, TypeOK
    <3> QED
      BY <2>1, <3>1 DEF Push, PushWait, Enqueue, SchedEmplace
  <2>2. CASE Wakeup(t) \/ Wake(t)
    BY <2>2 DEF Wakeup, Wake
  <2>3. CASE WaitReturn(t) \/ \E f \in Fns, at \in 0..MaxTime : SchedLock(t, f, at)
    <3>1. AboutToWake => AboutToWake'
      BY <2>3 DEF WaitReturn, SchedLock, AboutToWake, TypeOK
    <3> QED
      BY <2>3, <3>1 DEF WaitReturn, SchedLock
  <2> QED
    BY <1>1, <2>1, <2>2, <2>3 DEF Call, Continue
<1>2. CASE W_SchedBegin
  <2>1. CASE m_scheduled = {}
    BY <1>2, <2>1 DEF W_SchedBegin
  <2>2. CASE m_scheduled # {}
    <3>1. behind = 0
      BY <1>2 DEF W_SchedBegin
    <3>2. schedNow' = now /\ now' = now /\ behind' = 0 /\ wpc' = "sched" /\ now \in Int
      BY <1>2, <2>2, <3>1, TimeAssumption DEF W_SchedBegin, TypeOK
    <3> QED
      BY <3>2
  <2> QED
    BY <2>1, <2>2
<1>3. CASE W_SchedEnd
  <2>1. CASE m_scheduled = {}
    BY <1>3, <2>1 DEF W_SchedEnd
  <2>2. CASE m_scheduled # {}
    <3>1. PICK e \in m_scheduled :
            IsFirst(e) /\ timeout' = IF timeout > e.at - schedNow THEN e.at - schedNow ELSE timeout
      BY <1>3, <2>2 DEF W_SchedEnd
    <3>2. timeout \in Int /\ schedNow \in Int /\ behind \in Int /\ \A o \in m_scheduled : o.at \in Int
      BY TimeAssumption DEF TypeOK, Entry
    <3>3. timeout' <= e.at - schedNow
      BY <3>1, <3>2
    <3>4. pollAt' = schedNow + behind /\ timeout' \in Int
      BY <1>3, <3>1, <3>2 DEF W_SchedEnd
    <3>5. ASSUME NEW o \in m_scheduled PROVE pollAt' + timeout' <= o.at + behind
      BY <3>1, <3>2, <3>3, <3>4 DEF IsFirst
    <3> QED
      BY <1>3, <3>5 DEF W_SchedEnd
  <2> QED
    BY <2>1, <2>2
<1>4. CASE W_Lock \/ W_Perform \/ W_EventsEnd \/ W_Pop \/ W_Again \/ W_Poll \/ W_CallbacksEnd
           \/ W_Empty \/ W_CheckExit \/ W_Timeout \/ W_Relock \/ BodyReturn
  BY <1>4 DEF W_Lock, W_Perform, W_EventsEnd, W_Pop, W_Again, W_Poll, W_CallbacksEnd,
              W_Empty, W_CheckExit, W_Timeout, W_Relock, BodyReturn, TypeOK
<1>5. CASE (\E h \in Handles : W_Event(h)) \/ \E e \in m_scheduled : W_SchedPop(e)
  BY <1>5 DEF W_Event, W_SchedPop
<1>6. CASE Body
  BY <1>6 DEF Body, BodyPush, BodySchedule, BodyAddHandle, BodyRemoveHandle, InUserCode
<1>7. CASE Tick
  <2>1. now \in Int /\ behind \in Int /\ schedNow \in Int /\ pollAt \in Int /\ timeout \in Int
    BY TimeAssumption DEF TypeOK
  <2>2. /\ now' = now + 1 /\ behind' = (IF InSchedule THEN behind + 1 ELSE behind)
        /\ UNCHANGED <<wpc, ret, schedNow, pollAt, timeout, m_scheduled, wake, tpc>>
    BY <1>7 DEF Tick
  <2>3. ClockRead'
    BY <2>1, <2>2
  <2>4. OversleepIsBounded'
    BY <2>2 DEF AboutToWake
  <2> QED
    BY <2>3, <2>4
<1>8. CASE Destructor \/ UNCHANGED vars
  BY <1>8 DEF Destructor, DestroyBegin, DestroyWake, Join, vars, AboutToWake
<1> QED
  BY <1>1, <1>2, <1>3, <1>4, <1>5, <1>6, <1>7, <1>8 DEF Next, WorkerStep, Terminated

(* poll() outlasts a scheduled invocable by no more than the time that passed *)
(* since the worker read the clock: if no invocable ran in between it is in   *)
(* time.                                                                      *)
THEOREM OversleptByPhaseOnly == Safe => []OversleepIsBounded
<1>1. Init => TimerInv
  BY DEF Init, TimerInv, ClockRead, InSchedule, OversleepIsBounded
<1>2. TypeOK /\ TimerInv /\ [Next]_vars => TimerInv'
  BY TimerNext
<1>3. TimerInv => OversleepIsBounded
  BY DEF TimerInv
<1> QED
  BY <1>1, <1>2, <1>3, TypeCorrect, PTL DEF Safe

-------------------------------------------------------------------------------
(* Between the empty pop() and the test of m_exit only other threads queue.  *)
OwnWorkInv == wpc \in {"check", "exited"} => Queued \subseteq foreign

LEMMA OwnWorkNext == TypeOK /\ OwnWorkInv /\ [Next]_vars => OwnWorkInv'
<1> SUFFICES ASSUME TypeOK, OwnWorkInv, [Next]_vars PROVE OwnWorkInv'
  OBVIOUS
<1>1. ASSUME NEW t \in Threads, NEW f \in Fns, Push(t, f) \/ PushWait(t, f) PROVE OwnWorkInv'
  <2>1. m_queue' = Append(m_queue, f) /\ m_queue \in Seq(Ids) /\ f \in Ids
    BY <1>1 DEF Push, PushWait, Enqueue, TypeOK, Ids
  <2>2. Queued' = Queued \cup {f}
    BY <2>1, AppendElements DEF Queued
  <2> QED
    BY <1>1, <2>2 DEF Push, PushWait, Enqueue, OwnWorkInv, worker
<1> USE DEF OwnWorkInv, Queued, worker, locals, shared, others, caller, clock, ghosts
<1>2. ASSUME NEW t \in Threads, Continue(t) \/ Wakeup(t) \/
                                \E f \in Fns, at \in 0..MaxTime : SchedLock(t, f, at)
      PROVE  OwnWorkInv'
  BY <1>2 DEF Continue, Wakeup, SchedLock, Wake, WaitReturn, SchedEmplace
<1>3. CASE Body
  BY <1>3 DEF Body, BodyPush, BodySchedule, BodyAddHandle, BodyRemoveHandle, InUserCode
<1>4. CASE W_Empty
  BY <1>4, EmptyQueue DEF W_Empty
<1>5. CASE W_CheckExit
  BY <1>5 DEF W_CheckExit
<1>6. CASE W_Lock \/ W_Perform \/ W_EventsEnd \/ W_Pop \/ W_Again \/ W_Poll \/ W_CallbacksEnd
           \/ W_Timeout \/ W_SchedBegin \/ W_Relock \/ W_SchedEnd \/ BodyReturn
  BY <1>6 DEF W_Lock, W_Perform, W_EventsEnd, W_Pop, W_Again, W_Poll, W_CallbacksEnd, W_Timeout,
              W_SchedBegin, W_Relock, W_SchedEnd, BodyReturn, TypeOK
<1>7. CASE (\E h \in Handles : W_Event(h)) \/ \E e \in m_scheduled : W_SchedPop(e)
  BY <1>7 DEF W_Event, W_SchedPop
<1>8. CASE Destructor \/ Tick \/ UNCHANGED vars
  BY <1>8 DEF Destructor, DestroyBegin, DestroyWake, Join, Tick, vars
<1> QED
  BY <1>1, <1>2, <1>3, <1>4, <1>5, <1>6, <1>7, <1>8 DEF Next, Call, WorkerStep, Terminated

(* What the worker queued for itself has run when it exits.                  *)
THEOREM OwnWorkIsRun == Safe => []OwnWorkRunsBeforeExit
<1>1. Init => OwnWorkInv
  BY DEF Init, OwnWorkInv
<1>2. TypeOK /\ OwnWorkInv /\ [Next]_vars => OwnWorkInv'
  BY OwnWorkNext
<1>3. OwnWorkInv => OwnWorkRunsBeforeExit
  BY DEF OwnWorkInv, OwnWorkRunsBeforeExit
<1> QED
  BY <1>1, <1>2, <1>3, TypeCorrect, PTL DEF Safe

-------------------------------------------------------------------------------
(* Executor implements Dispatcher: every step of the worker loop and of its  *)
(* callers is a step of the dispatcher or leaves it as it is.                *)

Known == Queued \cup Deferred \cup {cur} \cup done

(* What keeps an invocable from being in two places: fresh identities and    *)
(* attached handles are nowhere else yet, and the tree a thread emplaces in  *)
(* is the one it has read.                                                   *)
PlaceInv ==
  /\ fresh \cap Known = {}
  /\ inMulti \cap (Known \cup fresh) = {}
  /\ \A e, o \in m_scheduled : e.id = o.id => e = o
  /\ \A t \in Threads : tpc[t] = "emplace" =>
       t \in SchedCallers /\ view = m_scheduled /\ targ[t].id \notin Known \cup fresh

dispatch == <<m_queue, Deferred, cur, done, ~m_exit>>

DispatchStep == Dispatch!Next \/ UNCHANGED dispatch

LEMMA PlaceInit == Init => PlaceInv
  BY IdAssumption DEF Init, PlaceInv, Known, Queued, Deferred

LEMMA PlaceCalls ==
  ASSUME OneSidedSchedule, TypeOK, PlaceInv, NEW t \in Threads, Call(t) \/ Continue(t)
  PROVE  PlaceInv' /\ DispatchStep
<1> USE IdAssumption DEF DispatchStep, dispatch
<1>1. ASSUME NEW f \in Fns, NEW next \in {"wake", "wakeWait"}, Enqueue(t, f, next)
      PROVE  PlaceInv' /\ DispatchStep
  <2>1. f \in Ids /\ f \in fresh /\ m_queue \in Seq(Ids) /\ m_queue' = Append(m_queue, f)
    BY <1>1 DEF Enqueue, TypeOK, Ids
  <2>2. Queued' = Queued \cup {f}
    BY <2>1, AppendElements DEF Queued
  <2>3. /\ UNCHANGED <<Deferred, cur, done, m_exit, inMulti, m_scheduled, view>>
        /\ fresh' = fresh \ {f}
        /\ \A u \in Threads : tpc'[u] = "emplace" => tpc[u] = "emplace" /\ targ'[u] = targ[u]
    BY <1>1 DEF Enqueue, TypeOK, Deferred, m_exit, worker, locals, curl
  <2>4. Dispatch!Submit(f)
    BY <2>1, <2>3 DEF Dispatch!Submit, Dispatch!Known, Dispatch!Waiting, PlaceInv, Known, Queued
  <2>5. PlaceInv'
    BY <2>1, <2>2, <2>3 DEF PlaceInv, Known
  <2> QED
    BY <2>1, <2>4, <2>5 DEF Dispatch!Next
<1>2. CASE Wakeup(t) \/ Wake(t) \/ WaitReturn(t)
  <2>1. /\ UNCHANGED <<m_queue, Queued, Deferred, cur, done, m_exit, inMulti, m_scheduled, view,
                       fresh, targ>>
        /\ \A u \in Threads : tpc'[u] = "emplace" => tpc[u] = "emplace"
    BY <1>2 DEF Wakeup, Wake, WaitReturn, TypeOK, Queued, Deferred, m_exit, worker, locals, shared,
                curl, others, caller, clock, ghosts
  <2> QED
    BY <2>1 DEF PlaceInv, Known
<1>3. ASSUME NEW f \in Fns, NEW at \in 0..MaxTime, SchedLock(t, f, at)
      PROVE  PlaceInv' /\ DispatchStep
  <2>1. /\ UNCHANGED <<m_queue, Queued, Deferred, cur, done, m_exit, inMulti, m_scheduled>>
        /\ fresh' = fresh \ {f} /\ f \in fresh
        /\ view' = m_scheduled /\ targ'[t].id = f /\ t \in SchedCallers
        /\ \A u \in Threads : tpc'[u] = "emplace" => u = t
    BY <1>3 DEF SchedLock, TypeOK, Queued, Deferred, m_exit, worker, locals, curl
  <2> QED
    BY <2>1 DEF PlaceInv, Known
<1>4. CASE SchedEmplace(t)
  <2> DEFINE f == targ[t].id
  <2>1. targ[t] \in Entry /\ f \in Fns /\ f \in Ids /\ tpc[t] = "emplace" /\ f \notin inMulti
    BY <1>4 DEF SchedEmplace, TypeOK, Entry, Ids
  <2>2. m_scheduled' = m_scheduled \cup {targ[t]} /\ f \notin Known \cup fresh
    BY <1>4, <2>1 DEF SchedEmplace, EmplaceOutcomes, PlaceInv
  <2>3. Deferred' = Deferred \cup {f}
    BY <2>2 DEF Deferred
  <2>4. /\ UNCHANGED <<m_queue, Queued, cur, done, m_exit, inMulti, fresh>>
        /\ \A u \in Threads : tpc'[u] # "emplace"
    BY <1>4 DEF SchedEmplace, TypeOK, Queued, m_exit, worker, locals, curl, ghosts
  <2>5. Dispatch!Defer(f)
    BY <2>2, <2>3, <2>4 DEF Dispatch!Defer, Dispatch!Known, Dispatch!Waiting, Known, Queued
  <2>6. \A e \in m_scheduled : e.id # f
    BY <2>2 DEF Known, Deferred
  <2>7. PlaceInv'
    BY <2>1, <2>2, <2>3, <2>4, <2>6 DEF PlaceInv, Known
  <2> QED
    BY <2>1, <2>5, <2>7 DEF Dispatch!Next
<1> QED
  BY <1>1, <1>2, <1>3, <1>4 DEF Call, Continue, Push, PushWait

LEMMA PlaceBody ==
  ASSUME OneSidedSchedule, TypeOK, PlaceInv, Body
  PROVE  PlaceInv' /\ DispatchStep
<1> USE IdAssumption DEF DispatchStep, dispatch
<1>1. ASSUME NEW f \in Fns, BodyPush(f) PROVE PlaceInv' /\ DispatchStep
  <2>1. f \in Ids /\ f \in fresh /\ m_queue \in Seq(Ids) /\ m_queue' = Append(m_queue, f)
    BY <1>1 DEF BodyPush, TypeOK, Ids
  <2>2. Queued' = Queued \cup {f}
    BY <2>1, AppendElements DEF Queued
  <2>3. /\ UNCHANGED <<Deferred, cur, done, m_exit, inMulti, m_scheduled, view, tpc, targ>>
        /\ fresh' = fresh \ {f}
    BY <1>1 DEF BodyPush, Deferred, m_exit, worker, locals, curl, others, caller, clock
  <2>4. Dispatch!Submit(f)
    BY <2>1, <2>3 DEF Dispatch!Submit, Dispatch!Known, Dispatch!Waiting, PlaceInv, Known, Queued
  <2>5. PlaceInv'
    BY <2>1, <2>2, <2>3 DEF PlaceInv, Known
  <2> QED
    BY <2>1, <2>4, <2>5 DEF Dispatch!Next
<1>2. ASSUME NEW f \in Fns, NEW at \in 0..MaxTime, BodySchedule(f, at)
      PROVE  PlaceInv' /\ DispatchStep
  <2>1. f \in Ids /\ f \in fresh /\ f \notin Known /\ f \notin inMulti
    BY <1>2 DEF BodySchedule, PlaceInv, TypeOK, Ids
  <2>2. \A t \in Threads : tpc[t] # "emplace"
    BY <1>2 DEF BodySchedule, OneSidedSchedule, PlaceInv
  <2> DEFINE e == [id |-> f, at |-> at]
  <2>3. m_scheduled' = m_scheduled \cup {e} /\ Deferred' = Deferred \cup {f}
    <3>1. m_scheduled' = m_scheduled \cup {e} /\ e.id = f
      BY <1>2 DEF BodySchedule
    <3> HIDE DEF e
    <3> QED
      BY <3>1 DEF Deferred
  <2>4. /\ UNCHANGED <<m_queue, Queued, cur, done, m_exit, inMulti, tpc>>
        /\ fresh' = fresh \ {f}
    BY <1>2 DEF BodySchedule, Queued, m_exit, worker, locals, curl, others, caller, clock
  <2>5. Dispatch!Defer(f)
    BY <2>1, <2>3, <2>4 DEF Dispatch!Defer, Dispatch!Known, Dispatch!Waiting, Known, Queued
  <2>6. \A o \in m_scheduled : o.id # f
    BY <2>1 DEF Known, Deferred
  <2>7. PlaceInv'
    BY <2>1, <2>2, <2>3, <2>4, <2>6 DEF PlaceInv, Known
  <2> QED
    BY <2>1, <2>5, <2>7 DEF Dispatch!Next
<1>3. ASSUME NEW h \in Handles, BodyAddHandle(h) \/ BodyRemoveHandle(h)
      PROVE  PlaceInv' /\ DispatchStep
  <2>1. /\ UNCHANGED <<m_queue, Queued, Deferred, cur, done, m_exit, m_scheduled, view, tpc, targ>>
        /\ \/ h \in fresh /\ fresh' = fresh \ {h} /\ inMulti' = inMulti \cup {h}
           \/ fresh' = fresh /\ inMulti' = inMulti \ {h}
    BY <1>3 DEF BodyAddHandle, BodyRemoveHandle, Queued, Deferred, m_exit, worker, locals, shared,
                others, caller, clock, ghosts
  <2> QED
    BY <2>1 DEF PlaceInv, Known
<1> QED
  BY <1>1, <1>2, <1>3 DEF Body

LEMMA PlaceWorker ==
  ASSUME OneSidedSchedule, TypeOK, PlaceInv, WorkerStep
  PROVE  PlaceInv' /\ DispatchStep
<1> USE IdAssumption DEF DispatchStep, dispatch
<1>1. ASSUME NEW h \in Handles, W_Event(h) PROVE PlaceInv' /\ DispatchStep
  <2>1. /\ UNCHANGED <<Deferred, cur, done, m_exit, m_scheduled, view, tpc, targ, fresh>>
        /\ h \in Ids /\ h \in inMulti /\ h \notin Known \cup fresh
        /\ inMulti' = inMulti \ {h}
    BY <1>1 DEF W_Event, PlaceInv, TypeOK, Ids, Deferred, m_exit, worker, locals, others, caller, clock,
                ghosts
  <2>2. \A t \in Threads : tpc[t] = "emplace" => targ[t].id # h
    BY DEF TypeOK
  <2>3. CASE h \in armed
    <3>1. m_queue \in Seq(Ids) /\ m_queue' = Append(m_queue, h)
      BY <1>1, <2>3 DEF W_Event, TypeOK
    <3>2. Queued' = Queued \cup {h}
      BY <2>1, <3>1, AppendElements DEF Queued
    <3>3. Dispatch!Submit(h)
      BY <2>1, <3>1 DEF Dispatch!Submit, Dispatch!Known, Dispatch!Waiting, Known, Queued
    <3>4. PlaceInv'
      BY <2>1, <2>2, <3>2 DEF PlaceInv, Known
    <3> QED
      BY <2>1, <3>3, <3>4 DEF Dispatch!Next
  <2>4. CASE h \notin armed
    <3>1. UNCHANGED <<m_queue, Queued>>
      BY <1>1, <2>4 DEF W_Event, Queued
    <3> QED
      BY <2>1, <3>1 DEF PlaceInv, Known
  <2> QED
    BY <2>3, <2>4
<1>2. CASE W_Pop
  <2>1. /\ m_queue \in Seq(Ids) /\ m_queue # <<>> /\ cur = None
        /\ m_queue' = Tail(m_queue) /\ cur' = Head(m_queue)
    BY <1>2 DEF W_Pop, TypeOK
  <2>2. Queued = Queued' \cup {cur'}
    <3>1. {m_queue[i] : i \in 1..Len(m_queue)}
             = {Tail(m_queue)[i] : i \in 1..Len(Tail(m_queue))} \cup {Head(m_queue)}
      BY <2>1, TailElements
    <3> QED
      BY <2>1, <3>1 DEF Queued
  <2>3. UNCHANGED <<Deferred, done, m_exit, inMulti, m_scheduled, view, tpc, targ, fresh>>
    BY <1>2 DEF W_Pop, Deferred, m_exit, curl, others, caller, clock, ghosts
  <2>4. Dispatch!Start
    BY <2>1, <2>3 DEF Dispatch!Start
  <2>5. Known' \subseteq Known
    BY <2>2, <2>3 DEF Known
  <2>6. PlaceInv'
    BY <2>3, <2>5 DEF PlaceInv
  <2> QED
    BY <2>4, <2>6 DEF Dispatch!Next
<1>3. CASE BodyReturn
  <2>1. /\ cur # None /\ cur' = None /\ done' = done \cup {cur} /\ None \notin Ids
        /\ UNCHANGED <<m_queue, Queued, Deferred, m_exit, inMulti, m_scheduled, view, tpc, targ, fresh>>
    BY <1>3 DEF BodyReturn, TypeOK, Queued, Deferred, m_exit, shared, curl, others, caller, clock
  <2>2. Dispatch!Finish
    BY <2>1 DEF Dispatch!Finish
  <2>3. Known' = Known \cup {None}
    BY <2>1 DEF Known
  <2>4. None \notin fresh /\ None \notin inMulti /\ \A t \in Threads : tpc[t] = "emplace" => targ[t].id # None
    BY DEF TypeOK, Ids
  <2>5. PlaceInv'
    BY <2>1, <2>3, <2>4 DEF PlaceInv
  <2> QED
    BY <2>2, <2>5 DEF Dispatch!Next
<1>4. ASSUME NEW e \in m_scheduled, W_SchedPop(e) PROVE PlaceInv' /\ DispatchStep
  <2>1. /\ cur = None /\ cur' = e.id /\ m_scheduled' = m_scheduled \ {e} /\ e.id \in Ids
        /\ \A t \in Threads : tpc[t] # "emplace"
        /\ UNCHANGED <<m_queue, Queued, done, m_exit, inMulti, tpc, fresh>>
    BY <1>4 DEF W_SchedPop, TypeOK, Entry, Ids, Queued, m_exit, curl, others, caller, clock, ghosts
  <2>2. Deferred' = Deferred \ {e.id} /\ e.id \in Deferred
    BY <2>1 DEF Deferred, PlaceInv
  <2>3. Dispatch!Fire(e.id)
    BY <2>1, <2>2 DEF Dispatch!Fire
  <2>4. Known' \subseteq Known
    BY <2>1, <2>2 DEF Known
  <2>5. PlaceInv'
    BY <2>1, <2>4 DEF PlaceInv
  <2> QED
    BY <2>1, <2>3, <2>5 DEF Dispatch!Next
<1>5. CASE W_Lock \/ W_Perform \/ W_EventsEnd \/ W_Empty \/ W_CheckExit \/ W_Again \/ W_Timeout
           \/ W_SchedBegin \/ W_Relock \/ W_SchedEnd \/ W_Poll \/ W_CallbacksEnd
  <2>1. UNCHANGED <<m_queue, Queued, Deferred, cur, done, m_exit, inMulti, m_scheduled, view, tpc,
                    targ, fresh>>
    BY <1>5 DEF W_Lock, W_Perform, W_EventsEnd, W_Empty, W_CheckExit, W_Again, W_Timeout,
                W_SchedBegin, W_Relock, W_SchedEnd, W_Poll, W_CallbacksEnd, Queued, Deferred, m_exit,
                locals, shared, curl, others, caller, clock, ghosts
  <2> QED
    BY <2>1 DEF PlaceInv, Known
<1> QED
  BY <1>1, <1>2, <1>3, <1>4, <1>5 DEF WorkerStep

LEMMA PlaceNext ==
  ASSUME OneSidedSchedule, TypeOK, PlaceInv, [Next]_vars
  PROVE  PlaceInv' /\ DispatchStep
<1> USE DEF DispatchStep, dispatch
<1>1. CASE DestroyBegin
  <2>1. /\ UNCHANGED <<m_queue, Queued, Deferred, cur, done, inMulti, m_scheduled, view, tpc, targ,
                       fresh>>
        /\ ~m_exit /\ m_exit'
    BY <1>1 DEF DestroyBegin, Queued, Deferred, m_exit, worker, locals, shared, curl, caller, ghosts
  <2>2. Dispatch!Close
    BY <2>1 DEF Dispatch!Close
  <2> QED
    BY <2>1, <2>2 DEF PlaceInv, Known, Dispatch!Next
<1>2. CASE DestroyWake \/ Join \/ Tick \/ UNCHANGED vars
  <2>1. /\ UNCHANGED <<m_queue, Queued, Deferred, cur, done, inMulti, m_scheduled, view, tpc, targ,
                       fresh>>
        /\ m_exit <=> m_exit'
    BY <1>2 DEF DestroyWake, Join, Tick, Queued, Deferred, m_exit, vars, worker, locals, shared,
                curl, others, caller, clock, ghosts
  <2> QED
    BY <2>1 DEF PlaceInv, Known
<1> QED
  BY <1>1, <1>2, PlaceCalls, PlaceBody, PlaceWorker DEF Next, Destructor, Terminated

(* The executor is a dispatcher: whatever the interleaving of its worker, of *)
(* its callers and of its destructor, invocables run in order, at most once, *)
(* one at a time, and none disappears, if schedule() is called from one side.*)
THEOREM ExecutorActsAsDispatcher ==
  ASSUME OneSidedSchedule
  PROVE  Safe => ActsAsDispatcher
<1>1. Init => Dispatch!Init
  BY DEF Init, Dispatch!Init, Deferred, m_exit
<1>2. TypeOK /\ PlaceInv /\ [Next]_vars => PlaceInv' /\ [Dispatch!Next]_(Dispatch!dvars)
  BY PlaceNext DEF DispatchStep, dispatch, Dispatch!dvars
<1> QED
  BY <1>1, <1>2, PlaceInit, TypeCorrect, PTL DEF Safe, ActsAsDispatcher, Dispatch!Safe
===============================================================================
