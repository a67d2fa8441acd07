------------------------------ MODULE TcpClient ------------------------------
(***************************************************************************)
(* asyncpp::curl::tcp_client over a connect-only handle: recv, recv_all,    *)
(* send and send_all try the socket inline and otherwise leave a handler    *)
(* that the executor's worker calls when poll() reports the socket ready.   *)
(* Both directions work alike and are one set of actions.                   *)
(*                                                                          *)
(* A call holds the client's m_mtx from its start to its end and is one     *)
(* step, except where it waits for the worker (add_handle, remove_handle)   *)
(* or for the network (connect).  The worker's callbacks hold it too, but   *)
(* the destructor does not, so they are cut where it can come between.  A   *)
(* result of -1 stands for EAGAIN.                                          *)
(***************************************************************************)
EXTENDS Integers, Sequences

CONSTANTS
  Threads,      (* threads other than the executor's                        *)
  Worker,       (* the executor's thread                                    *)
  None,
  Callers,      (* who calls recv, recv_all, send and send_all              *)
  Observers,    (* who calls set_on_data_available and pause_receive        *)
  Connectors,   (* who calls connect                                        *)
  Closers,      (* who calls disconnect                                     *)
  Destroyers,   (* threads that destroy the client                          *)
  Sizes,        (* sizes of the buffers passed                              *)
  MaxCalls,     (* bound: calls made in all                                 *)
  Stream,       (* bound: bytes the peer sends on one connection            *)
  Window,       (* bytes the socket takes before it is full                 *)
  PeerResets    (* the peer may reset the connection                        *)

Actors == Threads \cup {Worker}

ASSUME ClientAssumption ==
  /\ Worker \notin Threads /\ None \notin Actors
  /\ Callers \subseteq Actors /\ Observers \subseteq Actors
  /\ Connectors \subseteq Actors /\ Closers \subseteq Actors /\ Destroyers \subseteq Threads
  /\ Sizes \subseteq Nat \ {0} /\ MaxCalls \in Nat
  /\ Stream \in Nat /\ Window \in Nat \ {0} /\ PeerResets \in BOOLEAN

Dirs == {"recv", "send"}

VARIABLES
  wpc,          (* where the worker is in worker_thread()                   *)
  m_queue,      (* the executor's queue                                     *)
  wake,         (* a wakeup() that no poll() has consumed                   *)
  interest,     (* fds[i].events, as computed before poll()                 *)
  revents,      (* fds[i].revents still to be looked at                     *)
  attached,     (* the handle is in m_connect_only_handles                  *)
  paused,       (* the pause bits of m_flags                                *)
  handler,      (* m_recv_handler and m_send_handler                        *)
  m_is_connected,
  m_mtx,        (* the thread that holds it across steps                    *)
  tpc,          (* where each thread is in connect() or disconnect()        *)
  calls,        (* calls made so far                                        *)
  socket,       (* bytes that can be received, and that can be sent         *)
  coming,       (* bytes the peer may still send                            *)
  peer,         (* "open", "closed" (end of stream) or "reset"              *)
  busy,         (* history: directions whose last operation has not called back *)
  owed,         (* history: bytes moved and not yet reported to a callback  *)
  cut,          (* history: directions whose operation saw the connection   *)
                (* end                                                      *)
  wanted,       (* history: directions that were last asked to run, not to  *)
                (* pause                                                    *)
  torn          (* history: directions whose handler the destructor took    *)
                (* after it had queued its result                           *)

watch    == <<interest, revents>>
executor == <<m_queue, wake>>
easy     == <<attached, paused>>
client   == <<handler, m_is_connected, m_mtx>>
threads  == <<tpc, calls>>
network  == <<socket, coming, peer>>
history  == <<busy, owed, cut, wanted, torn>>
vars == <<wpc, watch, executor, easy, client, threads, network, history>>

(* "one" is the handler of recv and send, "all" of recv_all and send_all,    *)
(* "user" the one of set_on_data_available.                                  *)
NoHandler == [kind |-> "none", size |-> 0, got |-> 0]

(* A handler that has queued its result and is not cleared yet.  That of     *)
(* recv and send has copied cb, that of recv_all and send_all, which is      *)
(* mutable, has moved it and is left with an empty function.                 *)
Ran(h) == [h EXCEPT !.kind = IF @ = "one" THEN "copied" ELSE "moved"]

Handler == {NoHandler} \cup [kind : {"one", "all", "copied", "moved"}, size : Sizes, got : Nat]
             \cup [kind : {"user"}, size : {0}, got : {0}]

Operation(h) == h.kind \in {"one", "all"}

Spent(h) == h.kind \in {"copied", "moved"}

Closure ==
  [what : {"result"}, dir : Dirs, n : Nat, want : Nat]
    \cup [what : {"cancel"}, held : [Dirs -> Handler]]
    \cup [what : {"add", "remove"}, by : Threads]
    \cup [what : {"empty"}]

(* The fewest bytes that an operation on an open connection reports.         *)
Want(kind, size) == IF kind = "all" THEN size ELSE 1

Result(d, n, want) == [what |-> "result", dir |-> d, n |-> n, want |-> want]

Init ==
  /\ wpc = "drain" /\ interest = {} /\ revents = {}
  /\ m_queue = <<>> /\ wake = FALSE
  /\ attached = FALSE /\ paused = {}
  /\ handler = [d \in Dirs |-> NoHandler]
  /\ m_is_connected = FALSE /\ m_mtx = None
  /\ tpc = [t \in Threads |-> "idle"]
  /\ calls = 0
  /\ socket = [d \in Dirs |-> 0] /\ coming = 0 /\ peer = "open"
  /\ busy = {} /\ owed = [d \in Dirs |-> 0] /\ cut = {} /\ wanted = {} /\ torn = {}

-------------------------------------------------------------------------------
(* Nobody has begun to destroy the client.                                   *)
InUse == \A t \in Threads : tpc[t] \notin {"taking", "taken", "destroying", "gone"}

(* a makes a call that is over within the step; the worker has been waiting  *)
(* for m_mtx since W_Call.                                                   *)
Call(a) ==
  /\ m_mtx = None /\ InUse
  /\ calls < MaxCalls
  /\ calls' = calls + 1
  /\ IF a = Worker
       THEN wpc = "calling" /\ wpc' = "run"
       ELSE tpc[a] = "idle" /\ wpc' = wpc
  /\ UNCHANGED <<watch, m_mtx, tpc>>

(* executor::push from a thread that is not the worker wakes it.             *)
Push(a, closure) ==
  /\ m_queue' = Append(m_queue, closure)
  /\ wake' = (wake \/ a # Worker)

(* handle::pause                                                             *)
Pause(d) == paused' = paused \cup {d}

(* Mutant of Unpause: the worker is left in a poll() that does not watch d.  *)
UnpauseWithoutWakeup(d) ==
  /\ paused' = paused \ {d}
  /\ wanted' = wanted \cup {d}
  /\ UNCHANGED wake

(* handle::unpause: a wakeup only if a bit changes and an executor is set.   *)
Unpause(d) ==
  /\ paused' = paused \ {d}
  /\ wake' = (wake \/ (d \in paused /\ attached))
  /\ wanted' = wanted \cup {d}

(* curl_easy_recv and curl_easy_send: part of what is possible, the end of   *)
(* the stream, or EAGAIN.                                                    *)
Outcomes(d, size) ==
  IF socket[d] > 0 THEN {n \in 1..socket[d] : n <= size}
  ELSE IF d = "recv" /\ peer = "closed" THEN {0}
  ELSE {-1}

Bytes(n) == IF n > 0 THEN n ELSE 0

(* Mutant of Moved: bytes moved by an attempt that is not enough are lost.   *)
MovedForgets(n) == 0

Moved(n) == Bytes(n)

Moves(d, n) ==
  /\ socket' = [socket EXCEPT ![d] = @ - Bytes(n)]
  /\ owed' = [owed EXCEPT ![d] = @ + Bytes(n)]
  /\ UNCHANGED <<coming, peer>>

(* Mutant of Satisfied: recv_all and send_all are content with any bytes.    *)
SatisfiedByAny(kind, size, got, n) == n # -1

(* recv and send are satisfied by any result, recv_all and send_all by the   *)
(* end of the stream or all bytes, of which got were moved before.           *)
Satisfied(kind, size, got, n) ==
  IF kind = "all" THEN n = 0 \/ got + n = size ELSE n # -1

(* Operations follow each other: the next one in a direction starts when the *)
(* callback of the last has been called.                                     *)
Starts(a, d) ==
  /\ a \in Callers
  /\ Call(a)
  /\ d \notin busy /\ handler[d] = NoHandler
  /\ busy' = busy \cup {d}
  /\ cut' = IF m_is_connected /\ ~(d = "recv" /\ peer = "closed") THEN cut \ {d} ELSE cut \cup {d}

(* recv, recv_all, send or send_all, without a connection: cb(0).            *)
StartDisconnected(a, d, kind, size) ==
  /\ ~m_is_connected
  /\ Starts(a, d)
  /\ Push(a, Result(d, 0, Want(kind, size)))
  /\ UNCHANGED <<easy, handler, m_is_connected, network, owed, wanted, torn>>

(* The inline attempt is enough.                                             *)
StartInline(a, d, kind, size) ==
  /\ m_is_connected /\ peer # "reset"
  /\ Starts(a, d)
  /\ \E n \in Outcomes(d, size) :
       /\ Satisfied(kind, size, 0, n)
       /\ Moves(d, n)
       /\ Push(a, Result(d, n, Want(kind, size)))
  /\ UNCHANGED <<easy, handler, m_is_connected, wanted, torn>>

(* It is not: leave a handler and unpause the transfer.                      *)
StartArmed(a, d, kind, size) ==
  /\ m_is_connected /\ peer # "reset"
  /\ Starts(a, d)
  /\ \E n \in Outcomes(d, size) :
       /\ ~Satisfied(kind, size, 0, n)
       /\ Moves(d, n)
       /\ handler' = [handler EXCEPT ![d] = [kind |-> kind, size |-> size, got |-> Moved(n)]]
  /\ Unpause(d)
  /\ UNCHANGED <<m_queue, attached, m_is_connected, torn>>

(* A user's handler, which must not be mixed with recv and recv_all.         *)
SetOnDataAvailable(a) ==
  /\ a \in Observers
  /\ Call(a)
  /\ "recv" \notin busy
  /\ handler' = [handler EXCEPT !["recv"] = [kind |-> "user", size |-> 0, got |-> 0]]
  /\ UNCHANGED <<executor, easy, m_is_connected, network, history>>

PauseReceive(a, pause) ==
  /\ a \in Observers
  /\ Call(a)
  /\ m_is_connected /\ "recv" \notin busy
  /\ IF pause
       THEN Pause("recv") /\ wanted' = wanted \ {"recv"} /\ wake' = wake
       ELSE Unpause("recv")
  /\ UNCHANGED <<m_queue, attached, handler, m_is_connected, network, busy, owed, cut, torn>>

(* recv_raw, from outside a handler or inside (see W_CallbackUser).          *)
RecvRaw(a) ==
  /\ a \in Observers
  /\ Call(a)
  /\ m_is_connected /\ "recv" \notin busy /\ peer # "reset"
  /\ \E size \in Sizes : \E n \in Outcomes("recv", size) :
       socket' = [socket EXCEPT !["recv"] = @ - Bytes(n)]
  /\ UNCHANGED <<executor, easy, handler, m_is_connected, coming, peer, history>>

-------------------------------------------------------------------------------
(* connect() and disconnect() are not called concurrently.                   *)
Settled == \A t \in Threads : tpc[t] = "idle"

Established ==
  /\ socket' = [d \in Dirs |-> IF d = "send" THEN Window ELSE 0]
  /\ coming' = Stream
  /\ peer' = "open"

(* On the worker: the handle is added inline, and removed again if perform() *)
(* fails.                                                                    *)
ConnectOnWorker(ok) ==
  /\ Worker \in Connectors /\ Settled
  /\ ~m_is_connected /\ ~attached
  /\ Call(Worker)
  /\ paused' = Dirs /\ wanted' = {}
  /\ attached' = ok /\ m_is_connected' = ok
  /\ IF ok THEN Established ELSE UNCHANGED network
  /\ UNCHANGED <<executor, handler, busy, owed, cut, torn>>

(* On another thread: m_mtx is held until the worker has added the handle,   *)
Connect(t) ==
  /\ t \in Connectors /\ Settled
  /\ ~m_is_connected /\ ~attached
  /\ m_mtx = None /\ calls < MaxCalls
  /\ calls' = calls + 1
  /\ m_mtx' = t
  /\ paused' = Dirs /\ wanted' = {}
  /\ Push(t, [what |-> "add", by |-> t])
  /\ tpc' = [tpc EXCEPT ![t] = "adding"]
  /\ UNCHANGED <<wpc, watch, attached, handler, m_is_connected, network, busy, owed, cut, torn>>

(* Mutant of Unlocks: m_mtx stays locked.                                    *)
UnlocksNothing == UNCHANGED m_mtx

Unlocks == m_mtx' = None

(* ...then perform() blocks with the handle's own lock held, so the worker   *)
(* cannot look at the handle's pause bits,                                   *)
ConnectPerform(t) ==
  /\ tpc[t] = "added"
  /\ Unlocks
  /\ tpc' = [tpc EXCEPT ![t] = "performing"]
  /\ UNCHANGED <<wpc, watch, executor, easy, handler, m_is_connected, calls, network, history>>

(* ...and the done callback takes m_mtx again,                               *)
ConnectDone(t) ==
  /\ tpc[t] = "performing" /\ m_mtx = None
  /\ m_is_connected' = TRUE
  /\ Established
  /\ tpc' = [tpc EXCEPT ![t] = "idle"]
  /\ UNCHANGED <<wpc, watch, executor, easy, handler, m_mtx, calls, history>>

(* ...or the handle is removed again.                                        *)
ConnectFails(t) ==
  /\ tpc[t] = "performing"
  /\ Push(t, [what |-> "remove", by |-> t])
  /\ tpc' = [tpc EXCEPT ![t] = "undoing"]
  /\ UNCHANGED <<wpc, watch, easy, client, calls, network, history>>

ConnectUndone(t) ==
  /\ tpc[t] = "undone"
  /\ tpc' = [tpc EXCEPT ![t] = "idle"]
  /\ UNCHANGED <<wpc, watch, executor, easy, client, calls, network, history>>

TakesHandlers == handler' = [d \in Dirs |-> NoHandler]

(* The closure that cancels both handlers and reports the disconnect.        *)
Cancel == [what |-> "cancel", held |-> handler]

(* Mutant of Reset: the client still takes itself for connected.             *)
ResetStaysConnected ==
  /\ paused' = {} /\ wanted' = {}
  /\ m_is_connected' = m_is_connected
  /\ cut' = cut \cup busy

(* What is left of disconnect() once the handle is out of the executor.      *)
Reset ==
  /\ paused' = {} /\ wanted' = {}
  /\ m_is_connected' = FALSE
  /\ cut' = cut \cup busy

(* On the worker, or if the handle is not in the executor.                   *)
DisconnectInline(a) ==
  /\ a \in Closers /\ Settled
  /\ Call(a)
  /\ a = Worker \/ ~attached
  /\ TakesHandlers
  /\ attached' = FALSE
  /\ Push(a, Cancel)
  /\ Reset
  /\ UNCHANGED <<network, busy, owed, torn>>

(* On another thread m_mtx is held while the worker removes the handle; the  *)
(* handlers cannot change meanwhile.                                         *)
Disconnect(t) ==
  /\ t \in Closers /\ Settled
  /\ attached
  /\ m_mtx = None /\ calls < MaxCalls
  /\ calls' = calls + 1
  /\ m_mtx' = t
  /\ Push(t, [what |-> "remove", by |-> t])
  /\ tpc' = [tpc EXCEPT ![t] = "removing"]
  /\ UNCHANGED <<wpc, watch, easy, handler, m_is_connected, network, history>>

DisconnectEnd(t) ==
  /\ tpc[t] = "removed"
  /\ TakesHandlers
  /\ Push(t, Cancel)
  /\ Reset
  /\ Unlocks
  /\ tpc' = [tpc EXCEPT ![t] = "idle"]
  /\ UNCHANGED <<wpc, watch, attached, calls, network, busy, owed, torn>>

(* A closure that cancels d alone, if somebody waits there.                  *)
CancelOne(d) ==
  IF handler[d] = NoHandler THEN <<>>
  ELSE <<[what |-> "cancel", held |-> [c \in Dirs |-> IF c = d THEN handler[d] ELSE NoHandler]]>>

(* The destructor takes the handler of d, whatever the worker is doing with  *)
(* it, and queues its cancellation.                                          *)
Takes(d) ==
  /\ m_queue' = m_queue \o CancelOne(d)
  /\ wake' = (wake \/ handler[d] # NoHandler)
  /\ handler' = [handler EXCEPT ![d] = NoHandler]
  /\ torn' = IF Spent(handler[d]) THEN torn \cup {d} ELSE torn

(* ~tcp_client, which does not lock m_mtx.  The user has waited for          *)
(* disconnect() to call back.                                                *)
Destroy(t) ==
  /\ t \in Destroyers /\ Settled /\ wpc # "calling"
  /\ \A i \in 1..Len(m_queue) : m_queue[i].what # "cancel"
  /\ Takes("recv")
  /\ tpc' = [tpc EXCEPT ![t] = "taking"]
  /\ cut' = cut \cup busy
  /\ UNCHANGED <<wpc, watch, easy, m_is_connected, m_mtx, calls, network, busy, owed, wanted>>

DestroyTakesSend(t) ==
  /\ tpc[t] = "taking"
  /\ Takes("send")
  /\ tpc' = [tpc EXCEPT ![t] = "taken"]
  /\ UNCHANGED <<wpc, watch, easy, m_is_connected, m_mtx, calls, network, busy, owed, cut, wanted>>

(* Mutant of DestroyEnd: ~handle leaves the handle in the executor.          *)
DestroyLeavesHandle(t) ==
  /\ tpc[t] = "taken"
  /\ tpc' = [tpc EXCEPT ![t] = "gone"]
  /\ UNCHANGED <<wpc, watch, executor, easy, client, calls, network, history>>

(* The handlers and m_mtx are destroyed, and then m_handle, declared before  *)
(* them, waits for the worker to remove it.                                  *)
DestroyEnd(t) ==
  /\ tpc[t] = "taken"
  /\ IF attached
       THEN /\ Push(t, [what |-> "remove", by |-> t])
            /\ tpc' = [tpc EXCEPT ![t] = "destroying"]
       ELSE /\ UNCHANGED executor
            /\ tpc' = [tpc EXCEPT ![t] = "gone"]
  /\ UNCHANGED <<wpc, watch, easy, client, calls, network, history>>

-------------------------------------------------------------------------------
(* worker_thread(), for this handle.                                         *)

(* If the application uses the client on the worker at all, an invocable     *)
(* that somebody pushed enters a member function and waits for m_mtx, as the *)
(* invocables that call the user's callbacks may do.                         *)
W_Call ==
  /\ Worker \in Callers \cup Observers \cup Connectors \cup Closers
  /\ wpc \in {"drain", "run"} /\ calls < MaxCalls /\ InUse
  /\ wpc' = "calling"
  /\ UNCHANGED <<watch, executor, easy, client, threads, network, history>>

(* It may be is_connected(), that changes nothing.                           *)
IsConnected ==
  /\ wpc = "calling" /\ m_mtx = None
  /\ wpc' = "run"
  /\ calls' = IF calls < MaxCalls THEN calls + 1 ELSE calls
  /\ UNCHANGED <<watch, executor, easy, client, tpc, network, history>>

W_Return ==
  /\ wpc = "run"
  /\ wpc' = "drain"
  /\ UNCHANGED <<watch, executor, easy, client, threads, network, history>>

Pop(what) ==
  /\ wpc = "drain" /\ m_queue # <<>>
  /\ Head(m_queue).what = what

(* The closure that calls the user's callback.                               *)
W_Result ==
  /\ Pop("result")
  /\ m_queue' = Tail(m_queue)
  /\ busy' = busy \ {Head(m_queue).dir}
  /\ owed' = [owed EXCEPT ![Head(m_queue).dir] = @ - Head(m_queue).n]
  /\ wpc' = "run"
  /\ UNCHANGED <<watch, wake, easy, client, threads, network, cut, wanted, torn>>

(* The callback of a handler that had moved it away is an empty function:    *)
(* std::bad_function_call in the noexcept worker_thread().                   *)
W_Empty ==
  /\ Pop("empty")
  /\ m_queue' = Tail(m_queue)
  /\ wpc' = "terminated"
  /\ UNCHANGED <<watch, wake, easy, client, threads, network, history>>

(* A cancelled handler queues its callback: recv and send report 0, recv_all *)
(* and send_all the bytes they moved; a user's handler is just told.  One    *)
(* that had run queues what it is left with.                                 *)
CancelResult(d, h) ==
  CASE Operation(h)       -> <<Result(d, h.got, Want(h.kind, h.size))>>
    [] h.kind = "copied"  -> <<Result(d, 0, 1)>>
    [] h.kind = "moved"   -> <<[what |-> "empty"]>>
    [] OTHER              -> <<>>

(* Mutant of CancelResults: only the receiving side is cancelled.            *)
CancelResultsRecv(held) == CancelResult("recv", held["recv"])

CancelResults(held) == CancelResult("recv", held["recv"]) \o CancelResult("send", held["send"])

W_Cancel ==
  /\ Pop("cancel")
  /\ m_queue' = Tail(m_queue) \o CancelResults(Head(m_queue).held)
  /\ wpc' = "run"
  /\ UNCHANGED <<watch, wake, easy, client, threads, network, history>>

(* The bodies of add_handle and remove_handle, whose push_wait then returns. *)
W_Add ==
  /\ Pop("add")
  /\ m_queue' = Tail(m_queue)
  /\ attached' = TRUE
  /\ tpc' = [tpc EXCEPT ![Head(m_queue).by] = "added"]
  /\ UNCHANGED <<wpc, watch, wake, paused, client, calls, network, history>>

W_Remove ==
  /\ Pop("remove")
  /\ m_queue' = Tail(m_queue)
  /\ attached' = FALSE
  /\ tpc' = [tpc EXCEPT ![Head(m_queue).by] =
                CASE @ = "removing" -> "removed" [] @ = "undoing" -> "undone" [] @ = "destroying" -> "gone"]
  /\ UNCHANGED <<wpc, watch, wake, paused, client, calls, network, history>>

(* The queue is empty: what to poll for is read from the pause bits, under   *)
(* the handle's lock.                                                        *)
W_Prepare ==
  /\ wpc = "drain" /\ m_queue = <<>>
  /\ attached => \A t \in Threads : tpc[t] # "performing"
  /\ interest' = IF attached THEN Dirs \ paused ELSE {}
  /\ revents' = {}
  /\ wpc' = "poll"
  /\ UNCHANGED <<executor, easy, client, threads, network, history>>

Ready(d) == m_is_connected /\ (socket[d] > 0 \/ peer = "reset" \/ (d = "recv" /\ peer = "closed"))

(* poll() reports what is ready among what was asked for, and perhaps more:  *)
(* the bytes may be part of a TLS record that is not complete.               *)
W_Poll ==
  /\ wpc = "poll"
  /\ wake' = FALSE
  /\ \E spurious \in SUBSET interest : revents' = {d \in interest : Ready(d)} \cup spurious
  /\ wpc' = IF revents' = {} THEN "drain" ELSE "callback"
  /\ UNCHANGED <<interest, m_queue, easy, client, threads, network, history>>

(* POLLIN, else POLLOUT.                                                     *)
Side == IF "recv" \in revents THEN "recv" ELSE "send"

(* The handle's write or read callback returns PAUSE or 1, and unlocks m_mtx. *)
CallbackReturns(pause) ==
  /\ wpc' = IF pause THEN "pausing" ELSE "drain"
  /\ m_mtx' = None
  /\ wanted' = IF pause THEN wanted \ {Side} ELSE wanted
  /\ UNCHANGED <<watch, wake, easy, m_is_connected, threads, busy, cut, torn>>

Clears(d) == handler' = [handler EXCEPT ![d] = NoHandler]

(* No handler: pause.                                                        *)
W_CallbackIdle ==
  /\ wpc = "callback" /\ m_mtx = None
  /\ handler[Side] = NoHandler
  /\ CallbackReturns(TRUE)
  /\ UNCHANGED <<m_queue, handler, network, owed>>

(* There is one, that is about to be called...                               *)
W_Callback ==
  /\ wpc = "callback" /\ m_mtx = None
  /\ handler[Side] # NoHandler
  /\ wpc' = "called" /\ m_mtx' = Worker
  /\ UNCHANGED <<watch, executor, easy, handler, m_is_connected, threads, network, history>>

(* ...the handler of recv, recv_all, send or send_all: if it is satisfied it *)
(* queues the result, and is cleared after it has returned.                  *)
W_CallbackOp ==
  /\ wpc = "called"
  /\ peer # "reset"
  /\ LET h == handler[Side] IN
       /\ Operation(h)
       /\ \E n \in Outcomes(Side, h.size - h.got) :
            /\ Moves(Side, n)
            /\ IF Satisfied(h.kind, h.size, h.got, n)
                 THEN /\ m_queue' = Append(m_queue, Result(Side, h.got + n, Want(h.kind, h.size)))
                      /\ handler' = [handler EXCEPT ![Side] = Ran(h)]
                      /\ wpc' = "clearing"
                      /\ UNCHANGED <<watch, wake, easy, m_is_connected, m_mtx, threads,
                                     busy, cut, wanted, torn>>
                 ELSE /\ handler' = [handler EXCEPT ![Side].got = @ + Moved(n)]
                      /\ CallbackReturns(FALSE)
                      /\ UNCHANGED m_queue

W_Clear ==
  /\ wpc = "clearing"
  /\ Clears(Side)
  /\ CallbackReturns(TRUE)
  /\ UNCHANGED <<m_queue, network, owed>>

(* A user's handler reads what it likes and may ask for pause or clear.      *)
W_CallbackUser ==
  /\ wpc = "called"
  /\ handler[Side].kind = "user" /\ peer # "reset"
  /\ \E n \in 0..socket[Side] : socket' = [socket EXCEPT ![Side] = @ - n]
  /\ \/ Clears(Side) /\ CallbackReturns(TRUE)
     \/ UNCHANGED handler /\ CallbackReturns(TRUE)
     \/ UNCHANGED handler /\ CallbackReturns(FALSE)
  /\ UNCHANGED <<m_queue, coming, peer, owed>>

(* recv() and send() throw on a reset connection, an empty function throws   *)
(* if the destructor took the handler meanwhile, and worker_thread() is      *)
(* noexcept: std::terminate.                                                 *)
W_CallbackThrows ==
  /\ wpc = "called"
  /\ handler[Side] = NoHandler \/ peer = "reset"
  /\ wpc' = "terminated" /\ m_mtx' = None
  /\ UNCHANGED <<watch, executor, easy, handler, m_is_connected, threads, network, history>>

(* The worker pauses the direction after the callback has released m_mtx.    *)
W_Pause ==
  /\ wpc = "pausing"
  /\ Pause(Side)
  /\ wpc' = "drain"
  /\ UNCHANGED <<watch, executor, attached, client, threads, network, history>>

-------------------------------------------------------------------------------
(* The peer and the network.                                                 *)

PeerSend ==
  /\ m_is_connected /\ peer = "open" /\ coming > 0
  /\ coming' = coming - 1
  /\ socket' = [socket EXCEPT !["recv"] = @ + 1]
  /\ UNCHANGED <<wpc, watch, executor, easy, client, threads, peer, history>>

PeerClose ==
  /\ m_is_connected /\ peer = "open"
  /\ peer' = "closed"
  /\ cut' = cut \cup (busy \cap {"recv"})
  /\ UNCHANGED <<wpc, watch, executor, easy, client, threads, socket, coming, busy, owed, wanted, torn>>

PeerReset ==
  /\ PeerResets
  /\ m_is_connected /\ peer # "reset"
  /\ peer' = "reset"
  /\ UNCHANGED <<wpc, watch, executor, easy, client, threads, socket, coming, history>>

(* The peer reads, and the socket takes bytes again.                         *)
PeerRead ==
  /\ m_is_connected /\ socket["send"] < Window
  /\ socket' = [socket EXCEPT !["send"] = Window]
  /\ UNCHANGED <<wpc, watch, executor, easy, client, threads, coming, peer, history>>

-------------------------------------------------------------------------------
Alive == wpc # "terminated"

UserCall ==
  \/ \E a \in Callers, d \in Dirs, kind \in {"one", "all"}, size \in Sizes :
       \/ StartDisconnected(a, d, kind, size)
       \/ StartInline(a, d, kind, size)
       \/ StartArmed(a, d, kind, size)
  \/ \E a \in Observers : SetOnDataAvailable(a) \/ RecvRaw(a) \/ \E pause \in BOOLEAN : PauseReceive(a, pause)
  \/ \E ok \in BOOLEAN : ConnectOnWorker(ok)
  \/ \E a \in Closers : DisconnectInline(a)
  \/ \E t \in Threads : Connect(t) \/ Disconnect(t) \/ Destroy(t)

Continue(t) ==
  /\ Alive
  /\ \/ ConnectPerform(t) \/ ConnectDone(t) \/ ConnectFails(t) \/ ConnectUndone(t)
     \/ DisconnectEnd(t)
     \/ DestroyTakesSend(t) \/ DestroyEnd(t)

WorkerStep ==
  \/ IsConnected \/ W_Return
  \/ W_Result \/ W_Empty \/ W_Cancel \/ W_Add \/ W_Remove
  \/ W_Prepare \/ W_Poll
  \/ W_CallbackIdle \/ W_Callback \/ W_CallbackOp \/ W_CallbackUser \/ W_CallbackThrows
  \/ W_Clear \/ W_Pause

Peer == PeerSend \/ PeerClose \/ PeerReset \/ PeerRead

Terminated == ~Alive /\ UNCHANGED vars

Next ==
  \/ Alive /\ UserCall
  \/ \E t \in Threads : Continue(t)
  \/ W_Call \/ WorkerStep
  \/ Peer
  \/ Terminated

Safe == Init /\ [][Next]_vars

(* The worker and threads inside connect() or disconnect() proceed (libcurl  *)
(* bounds the time perform() takes), user code on the worker returns, poll() *)
(* does not report a socket that is not ready for ever; the peer reads, and  *)
(* ends its stream.                                                          *)
Fairness ==
  /\ WF_vars(WorkerStep)
  /\ SF_vars(W_Poll /\ \A d \in revents' : Ready(d))
  /\ \A t \in Threads : WF_vars(Continue(t))
  /\ WF_vars(PeerRead)
  /\ WF_vars(PeerClose)

Spec == Safe /\ Fairness

-------------------------------------------------------------------------------
(* Every variable stays within its type; m_mtx is held across steps exactly  *)
(* while a thread waits for the worker inside connect() or disconnect(), or  *)
(* the worker is in a handler.                                               *)
TypeOK ==
  /\ wpc \in {"drain", "run", "calling", "poll", "callback", "called", "clearing", "pausing", "terminated"}
  /\ interest \subseteq Dirs /\ revents \subseteq interest
  /\ wpc \in {"callback", "called", "clearing", "pausing"} => revents # {}
  /\ m_queue \in Seq(Closure)
  /\ wake \in BOOLEAN /\ attached \in BOOLEAN /\ m_is_connected \in BOOLEAN
  /\ paused \subseteq Dirs
  /\ handler \in [Dirs -> Handler]
  /\ m_mtx \in Actors \cup {None}
  /\ tpc \in [Threads -> {"idle", "adding", "added", "performing", "undoing", "undone",
                           "removing", "removed", "taking", "taken", "destroying", "gone"}]
  /\ \A t \in Threads : m_mtx = t <=> tpc[t] \in {"adding", "added", "removing", "removed"}
  /\ m_mtx = Worker <=> wpc \in {"called", "clearing"}
  /\ calls \in 0..MaxCalls
  /\ socket \in [Dirs -> Nat] /\ coming \in 0..Stream
  /\ peer \in {"open", "closed", "reset"}
  /\ busy \subseteq Dirs /\ owed \in [Dirs -> Int] /\ cut \subseteq Dirs
  /\ wanted \subseteq Dirs /\ torn \subseteq Dirs

(* A direction that the client asked to run last, by leaving a handler or by *)
(* pause_receive(false), is polled: it is not paused, the worker is not      *)
(* about to pause it, and if poll() does not watch it a wakeup will end that *)
(* poll() at once.                                                           *)
NoLostUnpause ==
  m_is_connected /\ attached =>
    \A d \in wanted :
      /\ d \notin paused
      /\ ~(wpc = "pausing" /\ Side = d)
      /\ wpc = "poll" => d \in interest \/ wake

Positions == 1..Len(m_queue)

ResultsOf(d) == {i \in Positions : m_queue[i].what = "result" /\ m_queue[i].dir = d}

CancelsOf(d) == {i \in Positions : m_queue[i].what = "cancel" /\ Operation(m_queue[i].held[d])}

Armed(d) == Operation(handler[d])

(* The queued closures that stand for an operation in d.                     *)
Queued(d) == ResultsOf(d) \cup CancelsOf(d)

(* recv, recv_all, send and send_all call back exactly once: an operation    *)
(* that has not called back is owned by one handler or one queued closure,   *)
(* and one that has is owned by none.  The destructor, which does not lock   *)
(* m_mtx, can only break this by taking a handler that has just run.         *)
OneCallback ==
  \A d \in Dirs \ torn :
    /\ Armed(d) => d \in busy /\ Queued(d) = {}
    /\ d \in busy /\ ~Armed(d) => \E i \in Positions : Queued(d) = {i}
    /\ d \notin busy => Queued(d) = {}

(* Every byte an operation takes from the socket, or hands to it, is known   *)
(* to that operation and goes into the number its callback is given, also    *)
(* over partial transfers, a disconnect and a destructor that does not take  *)
(* a handler that has just run.                                              *)
BytesAccounted ==
  \A d \in Dirs \ torn :
    /\ \A i \in ResultsOf(d) : m_queue[i].n = owed[d]
    /\ \A i \in CancelsOf(d) : m_queue[i].held[d].got = owed[d]
    /\ Armed(d) => handler[d].got = owed[d]
    /\ d \notin busy => owed[d] = 0

(* recv_all and send_all "will not call the callback until either the        *)
(* connection is closed or all data" was moved; recv and send report 0 only  *)
(* of a closed connection.                                                   *)
AllOrClosed ==
  \A d \in Dirs \ torn : \A i \in ResultsOf(d) : m_queue[i].n < m_queue[i].want => d \in cut

(* The worker drives a connected client: its handle is registered, unless a  *)
(* thread inside disconnect() or the destructor has just removed it.  And no *)
(* operation is left behind in a client that is not connected.               *)
ConnectedIsDriven ==
  /\ m_is_connected => attached \/ \E t \in Threads : tpc[t] \in {"removed", "gone"}
  /\ \A d \in Dirs : Armed(d) => m_is_connected

(* When the destructor returns, and from its start if the client was         *)
(* disconnected before, nothing is left that uses the client: the worker     *)
(* neither has its handle nor is at its callbacks, and the queued handlers   *)
(* of operations, which reach the executor through the client, have been     *)
(* cancelled.                                                                *)
DestroyedIsUnused ==
  (\E t \in Threads : tpc[t] = "gone") \/ (~InUse /\ ~attached) =>
    /\ ~attached /\ wpc \notin {"callback", "called", "clearing", "pausing"}
    /\ \A i \in Positions, d \in Dirs :
         m_queue[i].what = "cancel" => ~Operation(m_queue[i].held[d]) /\ ~Spent(m_queue[i].held[d])

(* recv, recv_all, send and send_all call back.                              *)
CallsBack == \A d \in Dirs : d \in busy ~> d \notin busy

-------------------------------------------------------------------------------
(* What the documentation says and the code does not do.                     *)

(* "Invoked after the connection is closed": disconnect() gets to that.      *)
DisconnectReturns == \A t \in Threads : tpc[t] = "removing" ~> tpc[t] = "idle"

(* "Callback to be invoke with the result": an operation that has called     *)
(* back, or is about to, does not call back again, nor does it call the      *)
(* empty function that it left behind.  In a direction that the destructor   *)
(* has torn it does one or the other.                                        *)
NotCalledAgain ==
  /\ \A d \in Dirs : d \notin busy => ResultsOf(d) = {}
  /\ \A i \in Positions : m_queue[i].what # "empty"
===============================================================================
