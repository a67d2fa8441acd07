------------------------------- MODULE Transfer -------------------------------
(***************************************************************************)
(* co_await executor.exec(handle, stop_token), and co_await of an HTTP      *)
(* request, which wraps it: await_suspend arms the handle's done callback   *)
(* and adds the handle to the executor; the worker completes it, or a stop  *)
(* request aborts it; the resumed coroutine destroys awaiter and handle.    *)
(*                                                                          *)
(* The executor is used as the dispatcher that Executor implements: a FIFO  *)
(* of invocables, one at a time, between which it drives its transfers.     *)
(***************************************************************************)
EXTENDS Naturals, Sequences

CONSTANTS
  Transfers,    (* one awaiter and one handle each                          *)
  OnWorker,     (* those awaited on the executor's own thread               *)
  HandleFirst,  (* those whose handle is made after the awaiter and         *)
                (* destroyed before it, as the members of                   *)
                (* execute_awaiter::data are                                *)
  StopWhileAdding (* a stop request may also come between the two calls of  *)
                (* await_suspend on a thread that is not the worker         *)

ASSUME TransferAssumption ==
  /\ OnWorker \subseteq Transfers /\ HandleFirst \subseteq Transfers
  /\ StopWhileAdding \in BOOLEAN

VARIABLES
  apc,        (* the awaiter: made while its handle is not yet, made;       *)
              (* await_suspend: between its two calls, in the second one's  *)
              (* push_wait, returned                                        *)
  spc,        (* the stop callback: registered, holding the done callback it*)
              (* took, or with nothing left to do                           *)
  armed,      (* m_done_callback is set                                     *)
  m_executor, (* handle::m_executor is set                                  *)
  m_multi,    (* handle::m_multi is set                                     *)
  m_queue,    (* the executor's queue                                       *)
  resumed,    (* how often each coroutine was resumed                       *)
  awaiters,   (* the awaiters that exist                                    *)
  handles,    (* the handles that exist                                     *)
  misused     (* history: who used one of them before it was made or after  *)
              (* it was destroyed, and of which transfer                    *)

vars == <<apc, spc, armed, m_executor, m_multi, m_queue, resumed, awaiters, handles, misused>>

Closures == {"add", "abort", "done"} \X Transfers

(* await_suspend, the stop callback before the handle is made, later, and    *)
(* when it pushes, and the closures and completions on the worker.           *)
Users == {"await", "early stop", "stop", "push", "worker"}

(* Dereferences the awaiters in a and the handles in h.                      *)
Uses(who, a, h) == misused' = misused \cup {who} \X ((a \ awaiters) \cup (h \ handles))

Init ==
  /\ apc = [x \in Transfers |-> IF x \in HandleFirst THEN "new" ELSE "created"]
  /\ spc = [x \in Transfers |-> "registered"]
  /\ armed = {} /\ m_executor = {} /\ m_multi = {}
  /\ m_queue = <<>>
  /\ resumed = [x \in Transfers |-> 0]
  /\ awaiters = Transfers /\ handles = Transfers \ HandleFirst
  /\ misused = {}

-------------------------------------------------------------------------------
(* While a coroutine on the worker is inside await_suspend nothing else runs *)
(* there.                                                                    *)
WorkerBusy == \E x \in OnWorker : apc[x] = "armed"

(* execute_awaiter::data: m_handle is constructed after m_exec, which has    *)
(* registered the stop callback.                                             *)
MakeHandle(x) ==
  /\ apc[x] = "new"
  /\ handles' = handles \cup {x}
  /\ apc' = [apc EXCEPT ![x] = "created"]
  /\ UNCHANGED <<spc, armed, m_executor, m_multi, m_queue, resumed, awaiters, misused>>

(* await_suspend: set_donefunction(...)                                      *)
Arm(x) ==
  /\ apc[x] = "created"
  /\ x \in OnWorker => ~WorkerBusy
  /\ armed' = armed \cup {x}
  /\ apc' = [apc EXCEPT ![x] = "armed"]
  /\ Uses("await", {}, {x})
  /\ UNCHANGED <<spc, m_executor, m_multi, m_queue, resumed, awaiters, handles>>

Attach(x) ==
  /\ m_executor' = m_executor \cup {x}
  /\ m_multi' = m_multi \cup {x}

(* add_handle on the worker runs inline.                                     *)
AddInline(x) ==
  /\ apc[x] = "armed" /\ x \in OnWorker
  /\ Attach(x)
  /\ apc' = [apc EXCEPT ![x] = "suspended"]
  /\ Uses("await", {x}, {x})
  /\ UNCHANGED <<spc, armed, m_queue, resumed, awaiters, handles>>

(* add_handle on another thread queues itself and waits.                     *)
AddQueued(x) ==
  /\ apc[x] = "armed" /\ x \notin OnWorker
  /\ m_queue' = Append(m_queue, <<"add", x>>)
  /\ apc' = [apc EXCEPT ![x] = "adding"]
  /\ Uses("await", {x}, {x})
  /\ UNCHANGED <<spc, armed, m_executor, m_multi, resumed, awaiters, handles>>

-------------------------------------------------------------------------------
(* The window between set_donefunction and the push of add_handle.           *)
StopAllowed(x) == StopWhileAdding \/ (apc[x] = "armed" => x \in OnWorker)

(* A stop request before the handle is made, or later.                       *)
Stopping(x) == IF apc[x] = "new" THEN "early stop" ELSE "stop"

(* Mutant of StopRequest: the callback is copied, and stays with the handle. *)
StopRequestCopies(x) ==
  /\ spc[x] = "registered"
  /\ StopAllowed(x)
  /\ spc' = [spc EXCEPT ![x] = IF x \in armed THEN "taken" ELSE "idle"]
  /\ Uses(Stopping(x), {x}, {x})
  /\ UNCHANGED <<apc, armed, m_executor, m_multi, m_queue, resumed, awaiters, handles>>

(* request_stop() runs the stop callback, which takes the done callback from *)
(* the handle under the handle's lock...  Of a handle that is not there yet  *)
(* or no more, `misused` says so, and what is modelled is that the program   *)
(* survives the lock and finds no callback.                                  *)
StopRequest(x) ==
  /\ spc[x] = "registered"
  /\ StopAllowed(x)
  /\ armed' = armed \ {x}
  /\ spc' = [spc EXCEPT ![x] = IF x \in armed THEN "taken" ELSE "idle"]
  /\ Uses(Stopping(x), {x}, {x})
  /\ UNCHANGED <<apc, m_executor, m_multi, m_queue, resumed, awaiters, handles>>

(* ...and, if there was one, queues the abort.                               *)
StopPush(x) ==
  /\ spc[x] = "taken"
  /\ m_queue' = Append(m_queue, <<"abort", x>>)
  /\ spc' = [spc EXCEPT ![x] = "idle"]
  /\ Uses("push", {x}, {})
  /\ UNCHANGED <<apc, armed, m_executor, m_multi, resumed, awaiters, handles>>

-------------------------------------------------------------------------------
(* The worker thread.                                                        *)

(* The next invocable is the given closure of x.                             *)
Runs(kind, x) ==
  /\ ~WorkerBusy
  /\ m_queue # <<>> /\ Head(m_queue) = <<kind, x>>
  /\ m_queue' = Tail(m_queue)

(* The body of add_handle's push_wait, which then returns.                   *)
RunAdd(x) ==
  /\ Runs("add", x)
  /\ Attach(x)
  /\ apc' = [apc EXCEPT ![x] = "suspended"]
  /\ Uses("worker", {}, {x})
  /\ UNCHANGED <<spc, armed, resumed, awaiters, handles>>

(* libcurl reports the transfer done: take the callback, remove the handle,  *)
(* queue the call if the stop callback was not faster.                       *)
Complete(x) ==
  /\ ~WorkerBusy /\ x \in m_multi
  /\ armed' = armed \ {x}
  /\ m_multi' = m_multi \ {x}
  /\ m_queue' = IF x \in armed THEN Append(m_queue, <<"done", x>>) ELSE m_queue
  /\ Uses("worker", {}, {x})
  /\ UNCHANGED <<apc, spc, m_executor, resumed, awaiters, handles>>

(* m_result = result; h.resume()                                             *)
Resume(x) == resumed' = [resumed EXCEPT ![x] = @ + 1]

RunDone(x) ==
  /\ Runs("done", x)
  /\ Resume(x)
  /\ Uses("worker", {x}, {})
  /\ UNCHANGED <<apc, spc, armed, m_executor, m_multi, awaiters, handles>>

(* Mutants of RunAbort: the handle forgets its executor but stays in the     *)
(* multi handle; a handle that has no transfer left is not resumed.          *)
RunAbortKeepsHandle(x) ==
  /\ Runs("abort", x)
  /\ m_executor' = m_executor \ {x}
  /\ Resume(x)
  /\ Uses("worker", {x}, {x})
  /\ UNCHANGED <<apc, spc, armed, m_multi, awaiters, handles>>

RunAbortIfAttached(x) ==
  /\ Runs("abort", x)
  /\ m_executor' = m_executor \ {x}
  /\ m_multi' = m_multi \ {x}
  /\ IF x \in m_multi THEN Resume(x) ELSE UNCHANGED resumed
  /\ Uses("worker", {x}, {x})
  /\ UNCHANGED <<apc, spc, armed, awaiters, handles>>

(* The abort detaches the handle, attached or not, and then resumes.         *)
RunAbort(x) ==
  /\ Runs("abort", x)
  /\ m_executor' = m_executor \ {x}
  /\ m_multi' = m_multi \ {x}
  /\ Resume(x)
  /\ Uses("worker", {x}, {x})
  /\ UNCHANGED <<apc, spc, armed, awaiters, handles>>

-------------------------------------------------------------------------------
(* The resumed coroutine, on the worker thread, destroys both.               *)

(* Mutant of DestroyAwaiter: it does not wait for a stop callback that runs. *)
DestroyAwaiterAtOnce(x) ==
  /\ resumed[x] > 0 /\ x \in awaiters /\ ~WorkerBusy
  /\ x \in HandleFirst => x \notin handles
  /\ awaiters' = awaiters \ {x}
  /\ UNCHANGED <<apc, spc, armed, m_executor, m_multi, m_queue, resumed, handles, misused>>

(* ~stop_callback deregisters the callback and waits if it is running.       *)
DestroyAwaiter(x) ==
  /\ resumed[x] > 0 /\ x \in awaiters /\ ~WorkerBusy
  /\ x \in HandleFirst => x \notin handles
  /\ spc[x] # "taken"
  /\ spc' = [spc EXCEPT ![x] = "idle"]
  /\ awaiters' = awaiters \ {x}
  /\ UNCHANGED <<apc, armed, m_executor, m_multi, m_queue, resumed, handles, misused>>

(* ~handle removes itself from the executor it thinks it belongs to, and     *)
(* then from its multi handle.                                               *)
DestroyHandle(x) ==
  /\ resumed[x] > 0 /\ x \in handles /\ ~WorkerBusy
  /\ x \in HandleFirst \/ x \notin awaiters
  /\ m_executor' = m_executor \ {x}
  /\ m_multi' = m_multi \ {x}
  /\ handles' = handles \ {x}
  /\ UNCHANGED <<apc, spc, armed, m_queue, resumed, awaiters, misused>>

-------------------------------------------------------------------------------
Await(x) == MakeHandle(x) \/ Arm(x) \/ AddInline(x) \/ AddQueued(x)

Run(x) == RunAdd(x) \/ RunDone(x) \/ RunAbort(x)

Destroy(x) == DestroyAwaiter(x) \/ DestroyHandle(x)

Next ==
  \E x \in Transfers :
    Await(x) \/ StopRequest(x) \/ StopPush(x) \/ Run(x) \/ Complete(x) \/ Destroy(x)

Safe == Init /\ [][Next]_vars

(* Threads inside a call proceed and the worker runs what is queued; nothing *)
(* says that a transfer ever completes, or that a stop is requested.         *)
Spec ==
  /\ Safe
  /\ \A x \in Transfers :
       WF_vars(Await(x)) /\ WF_vars(StopPush(x)) /\ WF_vars(Run(x)) /\ WF_vars(Destroy(x))

(* The peer or libcurl's timeouts complete every transfer.                   *)
TransfersComplete == \A x \in Transfers : WF_vars(Complete(x))

-------------------------------------------------------------------------------
(* Every variable stays within its type; a handle that is in the multi       *)
(* handle knows the executor that drives it.                                 *)
TypeOK ==
  /\ apc \in [Transfers -> {"new", "created", "armed", "adding", "suspended"}]
  /\ spc \in [Transfers -> {"registered", "taken", "idle"}]
  /\ armed \subseteq Transfers /\ m_executor \subseteq Transfers /\ m_multi \subseteq m_executor
  /\ m_queue \in Seq(Closures)
  /\ resumed \in [Transfers -> Nat]
  /\ awaiters \subseteq Transfers /\ handles \subseteq Transfers
  /\ misused \subseteq Users \X Transfers

(* Completion and stop race for the callback: the coroutine is resumed by    *)
(* one of them, never by both.                                               *)
ResumedOnce == \A x \in Transfers : resumed[x] <= 1

(* exec(): "suspends till the handle is finished": once the coroutine runs   *)
(* again its handle is not driven by the executor, so it may destroy it.     *)
ResumedMeansFinished == \A x \in m_multi : resumed[x] = 0

(* Neither an awaiter nor a handle is used before it was made or after it    *)
(* was destroyed, be it by the worker, by a closure still queued or by a     *)
(* stop callback that goes on while the coroutine is resumed; except that a  *)
(* stop request locks the handle of a transfer whose handle has the shorter  *)
(* life (HandleLivesLongEnough).                                             *)
NoUseAfterDestroy == misused \subseteq {"early stop", "stop"} \X HandleFirst

(* If transfers complete they resume their coroutines, stopped or not.       *)
AwaitReturns ==
  TransfersComplete => \A x \in Transfers : apc[x] = "armed" ~> resumed[x] > 0

(* A stop callback that found the coroutine waiting ends the wait, even if   *)
(* the transfer would never complete.                                        *)
StopEndsAwait == \A x \in Transfers : spc[x] = "taken" ~> resumed[x] > 0

-------------------------------------------------------------------------------
(* What a test takes for granted and the code does not do.                   *)

(* A stop may be requested at any time after execute_async(): the handle it  *)
(* locks is there as long as the stop callback is registered.  It is not, in *)
(* the order of the members of execute_awaiter::data.                        *)
HandleLivesLongEnough == \A x \in Transfers : <<"stop", x>> \notin misused
===============================================================================
