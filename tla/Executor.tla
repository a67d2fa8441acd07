------------------------------- MODULE Executor -------------------------------
(***************************************************************************)
(* asyncpp::curl::executor (executor.cpp, executor.h): one worker thread    *)
(* drives a libcurl multi handle, drains a queue of invocables and runs     *)
(* scheduled invocables; any other thread may push, push_wait, schedule or  *)
(* wake it, and one thread finally destroys it.                             *)
(*                                                                          *)
(* An invocable is an identity that is used once.  Its body is arbitrary:   *)
(* while it is running it takes any number of Body steps, each one call     *)
(* into the executor.  A handle is also an identity: that of the closure    *)
(* the worker queues to call the handle's m_done_callback.  Time counts     *)
(* slices of 100 ms.                                                        *)
(***************************************************************************)
EXTENDS Integers, Sequences, FiniteSets

CONSTANTS
  Threads,       (* the threads that use the executor, other than its own   *)
  Worker,        (* m_thread                                                *)
  Fns,           (* invocables passed to push, push_wait or schedule        *)
  Handles,       (* easy handles whose transfer the executor drives         *)
  None,
  SchedCallers,  (* who calls schedule(): a subset of Threads and Worker    *)
  MaxTime,       (* bound: the last instant, and the last one scheduled for *)
  PollMax,       (* the poll timeout when libcurl asks for none (500 ms)    *)
  Slack,         (* how early a scheduled invocable may run (100 ms)        *)
  Preempted      (* whether a slice may also pass between two instructions  *)
                 (* of the worker's own code                                *)

Ids == Fns \cup Handles

ASSUME IdAssumption ==
  /\ Fns \cap Handles = {}
  /\ None \notin Ids
  /\ Worker \notin Threads /\ None \notin Threads /\ None # Worker
  /\ SchedCallers \subseteq Threads \cup {Worker}

ASSUME TimeAssumption ==
  /\ MaxTime \in Nat /\ PollMax \in Nat \ {0} /\ Slack \in Nat
  /\ Preempted \in BOOLEAN

VARIABLES
  wpc,           (* where the worker thread is in worker_thread()           *)
  ret,           (* the phase the running invocable returns to              *)
  cur,           (* fn: the invocable the worker is running                 *)
  stillRunning,  (* still_running: transfers running after the last perform *)
  timeout,       (* timeout, in slices                                      *)
  schedNow,      (* now, read once at the start of the scheduled phase      *)
  m_queue,       (* threadsafe_queue: emplace and pop are atomic            *)
  m_scheduled,   (* multimap of time and invocable, as a set of entries     *)
  m_mtx,         (* who holds the executor's mutex                          *)
  inMulti,       (* handles added to the multi handle                       *)
  msgs,          (* handles with a completion message not yet read          *)
  armed,         (* handles whose m_done_callback is set                    *)
  wake,          (* a wakeup() that no poll() has consumed                  *)
  dpc,           (* the destructor; m_exit is dpc # "alive"                 *)
  tpc,           (* where each thread is in its call                        *)
  targ,          (* the invocable and time each thread passed               *)
  view,          (* the tree as the thread emplacing in m_scheduled read it *)
  now,           (* steady_clock                                            *)
  pollAt,        (* history: the time at which poll() was entered           *)
  behind,        (* history: slices passed since the worker read schedNow   *)
  fresh,         (* identities not used yet                                 *)
  done,          (* invocables that returned                                *)
  foreign        (* history: identities queued by a thread in Threads       *)

locals == <<ret, cur, stillRunning, timeout, schedNow>>
worker == <<wpc, locals>>
shared == <<m_queue, m_scheduled, m_mtx>>
curl   == <<inMulti, msgs, armed>>
caller == <<tpc, targ, view>>
clock  == <<now, pollAt, behind>>
others == <<dpc, caller, clock>>
ghosts == <<fresh, done, foreign>>
vars   == <<worker, shared, curl, wake, others, ghosts>>

Entry == [id : Fns, at : 0..MaxTime]

WorkerStates == {"loop", "perform", "events", "drain", "check", "timeout", "prepare",
                 "sched", "relock", "poll", "callbacks", "run", "exited"}

m_exit == dpc # "alive"

Queued == {m_queue[i] : i \in 1..Len(m_queue)}

Deferred == {e.id : e \in m_scheduled}

(* Invocables run in the drain and scheduled phases, the callbacks of        *)
(* ordinary transfers inside perform(), and those of connect-only handles    *)
(* after poll(): that is where user code calls back into the executor.       *)
InUserCode ==
  wpc \in {"run", "callbacks"} \/ (wpc = "perform" /\ inMulti # {})

Init ==
  /\ wpc = "loop" /\ ret = "drain" /\ cur = None
  /\ stillRunning = {} /\ timeout = 0 /\ schedNow = 0
  /\ m_queue = <<>> /\ m_scheduled = {} /\ m_mtx = None
  /\ inMulti = {} /\ msgs = {} /\ armed = {}
  /\ wake = FALSE
  /\ dpc = "alive"
  /\ tpc = [t \in Threads |-> "idle"]
  /\ targ = [t \in Threads |-> [id |-> None, at |-> 0]]
  /\ view = {}
  /\ now = 0 /\ pollAt = 0 /\ behind = 0
  /\ fresh = Ids /\ done = {} /\ foreign = {}

-------------------------------------------------------------------------------
(* Calls made by the other threads.                                          *)

(* Mutant of Enqueue: push takes its caller for the worker, and sends no wakeup. *)
EnqueueWithoutWakeup(t, f, next) ==
  /\ tpc[t] = "idle" /\ dpc = "alive"
  /\ f \in fresh \cap Fns
  /\ m_queue' = Append(m_queue, f)
  /\ tpc' = [tpc EXCEPT ![t] = IF next = "wake" THEN "idle" ELSE "wait"]
  /\ targ' = [targ EXCEPT ![t] = [id |-> f, at |-> 0]]
  /\ fresh' = fresh \ {f}
  /\ foreign' = foreign \cup {f}
  /\ UNCHANGED <<worker, m_scheduled, m_mtx, curl, wake, dpc, view, clock, done>>

(* emplace, on a thread that is not the worker: a wakeup must follow.        *)
Enqueue(t, f, next) ==
  /\ tpc[t] = "idle" /\ dpc = "alive"
  /\ f \in fresh \cap Fns
  /\ m_queue' = Append(m_queue, f)
  /\ tpc' = [tpc EXCEPT ![t] = next]
  /\ targ' = [targ EXCEPT ![t] = [id |-> f, at |-> 0]]
  /\ fresh' = fresh \ {f}
  /\ foreign' = foreign \cup {f}
  /\ UNCHANGED <<worker, m_scheduled, m_mtx, curl, wake, dpc, view, clock, done>>

Push(t, f) == Enqueue(t, f, "wake")

PushWait(t, f) == Enqueue(t, f, "wakeWait")

(* multi.wakeup(), the last step of push, of the push inside push_wait, and  *)
(* of schedule.                                                              *)
Wake(t) ==
  /\ tpc[t] \in {"wake", "wakeWait"}
  /\ wake' = TRUE
  /\ tpc' = [tpc EXCEPT ![t] = IF @ = "wake" THEN "idle" ELSE "wait"]
  /\ UNCHANGED <<worker, shared, curl, dpc, targ, view, clock, ghosts>>

(* result.get(): the promise is set by the invocable itself.                 *)
WaitReturn(t) ==
  /\ tpc[t] = "wait"
  /\ targ[t].id \in done
  /\ tpc' = [tpc EXCEPT ![t] = "idle"]
  /\ UNCHANGED <<worker, shared, curl, wake, dpc, targ, view, clock, ghosts>>

Wakeup(t) ==
  /\ tpc[t] = "idle" /\ dpc = "alive"
  /\ wake' = TRUE
  /\ UNCHANGED <<worker, shared, curl, others, ghosts>>

(* schedule() from another thread: lock, then emplace while the worker may   *)
(* be writing the same tree without the lock.                                *)
SchedLock(t, f, at) ==
  /\ t \in SchedCallers
  /\ tpc[t] = "idle" /\ dpc = "alive"
  /\ m_mtx = None
  /\ f \in fresh \cap Fns
  /\ m_mtx' = t
  /\ view' = m_scheduled
  /\ tpc' = [tpc EXCEPT ![t] = "emplace"]
  /\ targ' = [targ EXCEPT ![t] = [id |-> f, at |-> at]]
  /\ fresh' = fresh \ {f}
  /\ UNCHANGED <<worker, m_queue, m_scheduled, curl, wake, dpc, clock, done, foreign>>

(* If the worker wrote the tree since it was read, either node may be lost;  *)
(* if not, there is one outcome.                                             *)
EmplaceOutcomes(entry) ==
  {m_scheduled \cup {entry}, view \cup {entry}}
    \cup (IF m_scheduled = view THEN {} ELSE {m_scheduled})

SchedEmplace(t) ==
  /\ tpc[t] = "emplace"
  /\ m_scheduled' \in EmplaceOutcomes(targ[t])
  /\ m_mtx' = None
  /\ view' = {}
  /\ tpc' = [tpc EXCEPT ![t] = "wake"]
  /\ UNCHANGED <<worker, m_queue, curl, wake, dpc, targ, clock, ghosts>>

-------------------------------------------------------------------------------
(* What user code on the worker thread may call.                             *)

(* Mutant of BodyPush: the worker's own pushes overtake the queue. *)
BodyPushInFront(f) ==
  /\ InUserCode
  /\ f \in fresh \cap Fns
  /\ m_queue' = <<f>> \o m_queue
  /\ fresh' = fresh \ {f}
  /\ UNCHANGED <<worker, m_scheduled, m_mtx, curl, wake, others, done, foreign>>

BodyPush(f) ==
  /\ InUserCode
  /\ f \in fresh \cap Fns
  /\ m_queue' = Append(m_queue, f)
  /\ fresh' = fresh \ {f}
  /\ UNCHANGED <<worker, m_scheduled, m_mtx, curl, wake, others, done, foreign>>

(* schedule() on the worker thread takes no lock.                            *)
BodySchedule(f, at) ==
  /\ InUserCode /\ Worker \in SchedCallers
  /\ f \in fresh \cap Fns
  /\ m_scheduled' = m_scheduled \cup {[id |-> f, at |-> at]}
  /\ fresh' = fresh \ {f}
  /\ UNCHANGED <<worker, m_queue, m_mtx, curl, wake, others, done, foreign>>

(* add_handle on this thread, or as the body of another thread's push_wait;  *)
(* exec_awaiter::await_suspend has set m_done_callback just before, a plain  *)
(* add_handle need not have one.                                             *)
BodyAddHandle(h) ==
  /\ wpc \in {"run", "callbacks"}
  /\ h \in fresh \cap Handles
  /\ armed' \in {armed, armed \cup {h}}
  /\ inMulti' = inMulti \cup {h}
  /\ fresh' = fresh \ {h}
  /\ UNCHANGED <<worker, shared, msgs, wake, others, done, foreign>>

(* remove_handle leaves m_done_callback in place: nobody will call it.       *)
BodyRemoveHandle(h) ==
  /\ wpc \in {"run", "callbacks"}
  /\ h \in inMulti
  /\ inMulti' = inMulti \ {h}
  /\ UNCHANGED <<worker, shared, msgs, armed, wake, others, ghosts>>

(* Mutant of BodyReturn: the promise is not set when the invocable throws. *)
BodyReturnBreaksPromise ==
  /\ wpc = "run"
  /\ done' \in {done, done \cup {cur}}
  /\ cur' = None
  /\ wpc' = ret
  /\ UNCHANGED <<ret, stillRunning, timeout, schedNow, shared, curl, wake, others,
                 fresh, foreign>>

BodyReturn ==
  /\ wpc = "run"
  /\ done' = done \cup {cur}
  /\ cur' = None
  /\ wpc' = ret
  /\ UNCHANGED <<ret, stillRunning, timeout, schedNow, shared, curl, wake, others,
                 fresh, foreign>>

-------------------------------------------------------------------------------
(* worker_thread().                                                          *)

W_Lock ==
  /\ wpc = "loop" /\ m_mtx = None
  /\ m_mtx' = Worker
  /\ wpc' = "perform"
  /\ UNCHANGED <<locals, m_queue, m_scheduled, curl, wake, others, ghosts>>

(* perform(): any of the transfers may have completed.                       *)
W_Perform ==
  /\ wpc = "perform"
  /\ msgs' \in SUBSET inMulti
  /\ stillRunning' = inMulti \ msgs'
  /\ wpc' = "events"
  /\ UNCHANGED <<ret, cur, timeout, schedNow, shared, inMulti, armed, wake, others,
                 ghosts>>

(* Mutant of W_Event: removing the handle clears its callback before it is taken. *)
W_EventRemovesFirst(h) ==
  /\ wpc = "events"
  /\ h \in msgs
  /\ msgs' = msgs \ {h}
  /\ inMulti' = inMulti \ {h}
  /\ armed' = armed \ {h}
  /\ UNCHANGED <<worker, shared, wake, others, ghosts>>

(* One message: the done callback is taken and a closure calling it queued.  *)
W_Event(h) ==
  /\ wpc = "events"
  /\ h \in msgs
  /\ msgs' = msgs \ {h}
  /\ inMulti' = inMulti \ {h}
  /\ armed' = armed \ {h}
  /\ m_queue' = IF h \in armed THEN Append(m_queue, h) ELSE m_queue
  /\ UNCHANGED <<worker, m_scheduled, m_mtx, wake, others, ghosts>>

(* Mutant of W_EventsEnd: the exit test comes before the drain. *)
W_EventsEndSkipsDrain ==
  /\ wpc = "events" /\ msgs = {}
  /\ m_mtx' = None
  /\ wpc' = IF m_exit THEN "check" ELSE "drain"
  /\ UNCHANGED <<locals, m_queue, m_scheduled, curl, wake, others, ghosts>>

W_EventsEnd ==
  /\ wpc = "events" /\ msgs = {}
  /\ m_mtx' = None
  /\ wpc' = "drain"
  /\ UNCHANGED <<locals, m_queue, m_scheduled, curl, wake, others, ghosts>>

W_Pop ==
  /\ wpc = "drain" /\ m_queue # <<>>
  /\ cur' = Head(m_queue)
  /\ m_queue' = Tail(m_queue)
  /\ wpc' = "run" /\ ret' = "drain"
  /\ UNCHANGED <<stillRunning, timeout, schedNow, m_scheduled, m_mtx, curl, wake,
                 others, ghosts>>

(* pop() found nothing; m_exit is read afterwards, outside the queue's lock. *)
W_Empty ==
  /\ wpc = "drain" /\ m_queue = <<>>
  /\ wpc' = "check"
  /\ UNCHANGED <<locals, shared, curl, wake, others, ghosts>>

(* Mutant of W_CheckExit: exit also waits for handles that were removed. *)
W_CheckExitWaitsForRemoved ==
  /\ wpc = "check"
  /\ wpc' = IF m_exit /\ stillRunning = {} /\ armed = {} THEN "exited" ELSE "timeout"
  /\ UNCHANGED <<locals, shared, curl, wake, others, ghosts>>

W_CheckExit ==
  /\ wpc = "check"
  /\ wpc' = IF m_exit /\ stillRunning = {} THEN "exited" ELSE "timeout"
  /\ UNCHANGED <<locals, shared, curl, wake, others, ghosts>>

(* multi.timeout() is 0: libcurl wants perform() at once, skip the rest.     *)
W_Again ==
  /\ wpc = "timeout" /\ inMulti # {}
  /\ wpc' = "loop"
  /\ UNCHANGED <<locals, shared, curl, wake, others, ghosts>>

(* Without a transfer libcurl has no timer of its own.                       *)
W_Timeout ==
  /\ wpc = "timeout"
  /\ timeout' \in (IF inMulti = {} THEN {PollMax} ELSE 1..PollMax)
  /\ wpc' = "prepare"
  /\ UNCHANGED <<ret, cur, stillRunning, schedNow, shared, curl, wake, others,
                 ghosts>>

W_SchedBegin ==
  /\ wpc = "prepare" /\ m_mtx = None
  /\ IF m_scheduled = {}
       THEN wpc' = "poll" /\ pollAt' = now /\ UNCHANGED <<m_mtx, schedNow>>
       ELSE wpc' = "sched" /\ m_mtx' = Worker /\ schedNow' = now /\ UNCHANGED pollAt
  /\ UNCHANGED <<ret, cur, stillRunning, timeout, m_queue, m_scheduled, curl, wake,
                 dpc, caller, now, behind, ghosts>>

(* m_scheduled.begin()                                                       *)
IsFirst(e) == e \in m_scheduled /\ \A o \in m_scheduled : e.at <= o.at

(* Mutant of W_SchedPop: the invocable runs with the lock held.              *)
W_SchedPopLocked(e) ==
  /\ wpc = "sched"
  /\ IsFirst(e)
  /\ e.at - schedNow <= Slack
  /\ m_scheduled' = m_scheduled \ {e}
  /\ cur' = e.id
  /\ wpc' = "run" /\ ret' = "relock"
  /\ UNCHANGED <<stillRunning, timeout, schedNow, m_queue, m_mtx, curl, wake, others,
                 ghosts>>

W_SchedPop(e) ==
  /\ wpc = "sched"
  /\ IsFirst(e)
  /\ e.at - schedNow <= Slack
  /\ m_scheduled' = m_scheduled \ {e}
  /\ m_mtx' = None
  /\ cur' = e.id
  /\ wpc' = "run" /\ ret' = "relock"
  /\ UNCHANGED <<stillRunning, timeout, schedNow, m_queue, curl, wake, others,
                 ghosts>>

W_Relock ==
  /\ wpc = "relock" /\ m_mtx = None
  /\ m_mtx' = Worker
  /\ wpc' = "sched"
  /\ UNCHANGED <<locals, m_queue, m_scheduled, curl, wake, others, ghosts>>

(* Mutant of W_SchedEnd: the poll timeout ignores the next entry. *)
W_SchedEndKeepsTimeout ==
  /\ wpc = "sched"
  /\ m_scheduled # {} => \E e \in m_scheduled : IsFirst(e) /\ e.at - schedNow > Slack
  /\ m_mtx' = None
  /\ wpc' = "poll" /\ pollAt' = now
  /\ UNCHANGED <<locals, m_queue, m_scheduled, curl, wake, dpc, caller, now, behind,
                 ghosts>>

(* Nothing is left, or the first entry is too far away: shorten the timeout. *)
W_SchedEnd ==
  /\ wpc = "sched"
  /\ \/ m_scheduled = {} /\ UNCHANGED timeout
     \/ \E e \in m_scheduled :
          /\ IsFirst(e)
          /\ e.at - schedNow > Slack
          /\ timeout' = IF timeout > e.at - schedNow THEN e.at - schedNow ELSE timeout
  /\ m_mtx' = None
  /\ wpc' = "poll" /\ pollAt' = now
  /\ UNCHANGED <<ret, cur, stillRunning, schedNow, m_queue, m_scheduled, curl, wake,
                 dpc, caller, now, behind, ghosts>>

(* poll() returns: woken, a socket is ready, or the timeout passed.          *)
W_Poll ==
  /\ wpc = "poll"
  /\ wake' = FALSE
  /\ wpc' = "callbacks"
  /\ pollAt' = 0 /\ behind' = 0
  /\ UNCHANGED <<locals, shared, curl, dpc, caller, now, ghosts>>

W_CallbacksEnd ==
  /\ wpc = "callbacks"
  /\ wpc' = "loop"
  /\ UNCHANGED <<locals, shared, curl, wake, others, ghosts>>

-------------------------------------------------------------------------------
(* ~executor(): the caller has seen every other use of the executor return.  *)

DestroyBegin ==
  /\ dpc = "alive"
  /\ \A t \in Threads : tpc[t] = "idle"
  /\ dpc' = "wake"
  /\ UNCHANGED <<worker, shared, curl, wake, caller, clock, ghosts>>

(* Mutant of DestroyWake: the destructor joins without waking the worker. *)
DestroyWithoutWakeup ==
  /\ dpc = "wake"
  /\ dpc' = "join"
  /\ UNCHANGED <<worker, shared, curl, wake, caller, clock, ghosts>>

DestroyWake ==
  /\ dpc = "wake"
  /\ wake' = TRUE
  /\ dpc' = "join"
  /\ UNCHANGED <<worker, shared, curl, caller, clock, ghosts>>

Join ==
  /\ dpc = "join" /\ wpc = "exited"
  /\ dpc' = "gone"
  /\ UNCHANGED <<worker, shared, curl, wake, caller, clock, ghosts>>

(* Where the worker waits, for a lock or in poll(), or is in libcurl or in   *)
(* user code.                                                                *)
TakesTime ==
  \/ wpc \in {"run", "perform", "poll", "callbacks", "exited"}
  \/ wpc \in {"loop", "prepare", "relock"} /\ m_mtx # None

(* The scheduled phase, from the reading of schedNow to the poll.            *)
InSchedule == wpc \in {"sched", "relock"} \/ (wpc = "run" /\ ret = "relock")

Tick ==
  /\ now < MaxTime
  /\ Preempted \/ TakesTime
  /\ now' = now + 1
  /\ behind' = IF InSchedule THEN behind + 1 ELSE behind
  /\ UNCHANGED <<worker, shared, curl, wake, dpc, caller, pollAt, ghosts>>

Terminated == dpc = "gone" /\ UNCHANGED vars

-------------------------------------------------------------------------------
Call(t) ==
  \/ \E f \in Fns : Push(t, f) \/ PushWait(t, f)
  \/ \E f \in Fns, at \in 0..MaxTime : SchedLock(t, f, at)
  \/ Wakeup(t)

Continue(t) == Wake(t) \/ WaitReturn(t) \/ SchedEmplace(t)

Body ==
  \/ \E f \in Fns : BodyPush(f)
  \/ \E f \in Fns, at \in 0..MaxTime : BodySchedule(f, at)
  \/ \E h \in Handles : BodyAddHandle(h) \/ BodyRemoveHandle(h)

WorkerStep ==
  \/ W_Lock \/ W_Perform \/ W_EventsEnd \/ (\E h \in Handles : W_Event(h))
  \/ W_Pop \/ BodyReturn \/ W_Empty \/ W_CheckExit
  \/ W_Again \/ W_Timeout
  \/ W_SchedBegin \/ (\E e \in m_scheduled : W_SchedPop(e)) \/ W_Relock \/ W_SchedEnd
  \/ W_Poll \/ W_CallbacksEnd

Destructor == DestroyBegin \/ DestroyWake \/ Join

Next ==
  \/ \E t \in Threads : Call(t) \/ Continue(t)
  \/ Body
  \/ WorkerStep
  \/ Destructor
  \/ Tick
  \/ Terminated

(* The operating system schedules the worker and every thread inside a call; *)
(* invocables return; the clock advances.  Of libcurl: it does not ask for   *)
(* perform() at once for ever, and a transfer it keeps driving completes.    *)
(* Nobody is obliged to call the executor, nor to destroy it.                *)
Fairness ==
  /\ WF_vars(WorkerStep)
  /\ \A t \in Threads : WF_vars(Wake(t)) /\ WF_vars(WaitReturn(t)) /\ WF_vars(SchedEmplace(t))
  /\ WF_vars(DestroyWake \/ Join)
  /\ WF_vars(Tick)
  /\ SF_vars(W_Timeout)
  /\ \A h \in Handles : SF_vars(W_Perform /\ h \in msgs')

Safe == Init /\ [][Next]_vars

Spec == Safe /\ Fairness
-------------------------------------------------------------------------------
(* Every variable stays within its type; in particular the worker is inside  *)
(* an invocable exactly when fn holds one, and only the worker or a thread   *)
(* inside schedule() ever holds m_mtx.                                       *)
TypeOK ==
  /\ wpc \in WorkerStates /\ ret \in {"drain", "relock"}
  /\ cur \in Ids \cup {None} /\ (cur # None <=> wpc = "run")
  /\ stillRunning \subseteq Handles
  /\ timeout \in 0..PollMax /\ schedNow \in 0..MaxTime
  /\ m_queue \in Seq(Ids) /\ m_scheduled \subseteq Entry
  /\ m_mtx \in Threads \cup {Worker, None}
  /\ m_mtx = Worker <=> wpc \in {"perform", "events", "sched"}
  /\ \A t \in Threads : m_mtx = t <=> tpc[t] = "emplace"
  /\ inMulti \subseteq Handles /\ armed \subseteq Handles
  /\ msgs \subseteq inMulti /\ (msgs # {} => wpc = "events")
  /\ wake \in BOOLEAN
  /\ dpc \in {"alive", "wake", "join", "gone"}
  /\ tpc \in [Threads -> {"idle", "emplace", "wake", "wakeWait", "wait"}]
  /\ targ \in [Threads -> [id : Fns \cup {None}, at : 0..MaxTime]]
  /\ \A t \in Threads : tpc[t] # "idle" => targ[t].id # None
  /\ view \subseteq Entry
  /\ now \in 0..MaxTime /\ pollAt \in 0..MaxTime /\ behind \in Nat
  /\ fresh \subseteq Ids /\ done \subseteq Ids /\ foreign \subseteq Fns

AboutToWake == \E t \in Threads : tpc[t] \in {"wake", "wakeWait"}

(* The worker has seen the queue empty and not yet been through poll().      *)
PastDrain ==
  \/ wpc \in {"check", "timeout", "prepare", "sched", "relock", "poll"}
  \/ wpc = "run" /\ ret = "relock"

(* push() and push_wait() from another thread never leave the worker asleep: *)
(* once the worker has seen the queue empty, an invocable another thread has *)
(* queued since comes with a wakeup that poll() has still to consume, or     *)
(* that the thread is about to send.                                         *)
NoLostWakeup ==
  PastDrain /\ Queued \cap foreign # {} => wake \/ AboutToWake

(* ~executor() never joins a worker that sleeps without reason: once the     *)
(* destructor has woken it, the worker only heads for poll() with that       *)
(* wakeup pending or with transfers it still has to finish.                  *)
NoLostExit ==
  dpc = "join" /\ PastDrain /\ wpc # "check" => wake \/ stillRunning # {}

Woken == wake \/ AboutToWake

(* How late a scheduled invocable may be: poll() ends by its time, or later  *)
(* by no more than what passed since the worker read the clock, which it     *)
(* does once, before it runs the invocables that are due.  An invocable that *)
(* another thread schedules after that comes with a wakeup that cuts the     *)
(* poll short.                                                               *)
OversleepIsBounded ==
  wpc = "poll" => \A e \in m_scheduled : pollAt + timeout <= e.at + behind \/ Woken

(* The worker never exits over a completion: what it queued itself (done     *)
(* callbacks, what invocables pushed) has run; only a push() of another      *)
(* thread may be left.                                                       *)
OwnWorkRunsBeforeExit == wpc = "exited" => Queued \subseteq foreign

(* push_wait() returns.                                                      *)
PushWaitReturns == \A t \in Threads : tpc[t] = "wakeWait" ~> tpc[t] = "idle"

(* ~executor() returns, if the transfers end.                                *)
DestroyCompletes == dpc = "wake" ~> dpc = "gone"

(* The done callback of a transfer that stays in the multi handle is called, *)
(* unless the worker has exited.                                             *)
CompletionDelivered ==
  \A h \in Handles :
    h \in armed \cap inMulti ~> h \in done \/ h \in armed \ inMulti \/ wpc = "exited"

Dispatch == INSTANCE Dispatcher WITH
  pending <- m_queue, timers <- Deferred, running <- cur, finished <- done, open <- ~m_exit

(* The worker loop with its locks and phases is a dispatcher: invocables run *)
(* one at a time, in the order of their push, at most once, and none of them *)
(* disappears, done callbacks included, as long as schedule() is not called  *)
(* from both sides.                                                          *)
ActsAsDispatcher == Dispatch!Safe

(* Moreover, until the destructor begins, all of them run.                   *)
ImplementsDispatcher == Dispatch!Spec

(* Either other threads call schedule(), or invocables do, but not both.     *)
OneSidedSchedule == SchedCallers \subseteq Threads \/ SchedCallers \subseteq {Worker}

-------------------------------------------------------------------------------
(* What the documentation says and the code does not do.                     *)

(* "Schedule an invocable at a certain timepoint": it is not forgotten.      *)
ScheduledIsKept ==
  \A f \in Fns \ fresh :
    \/ f \in Queued \cup Deferred \cup {cur} \cup done
    \/ \E t \in Threads : tpc[t] = "emplace" /\ targ[t].id = f

(* "Timestamp at which to execute the invocable": poll() ends by that time.  *)
(* It does not, even if time passes only where the worker TakesTime.         *)
PollEndsInTime ==
  wpc = "poll" => \A e \in m_scheduled : pollAt + timeout <= e.at \/ Woken
===============================================================================
