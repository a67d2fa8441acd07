------------------------------ MODULE WebSocket ------------------------------
(***************************************************************************)
(* asyncpp::curl::websocket over a tcp_client: the connection state, the    *)
(* handshake task, the send task that serialises frames, the frame handlers *)
(* and the close handshake, for the one connection of a websocket object.   *)
(*                                                                          *)
(* Handlers, both tasks and the user's callbacks run on the executor's      *)
(* worker, one at a time; other threads may call send, close and the        *)
(* destructor.  Frames keep their kind, FIN bit and whether their payload   *)
(* is acceptable (UTF-8 of a text, length of a control frame, close code).  *)
(***************************************************************************)
EXTENDS Integers, Sequences, FiniteSets

CONSTANTS
  Threads,      (* threads other than the executor's                        *)
  Worker,       (* the executor's thread                                    *)
  Senders,      (* who calls send                                           *)
  Closers,      (* who calls close                                          *)
  Destroyers,   (* who destroys the websocket                               *)
  PeerFrames,   (* the frames that the server may send                      *)
  MaxFrames,    (* bound: frames received                                   *)
  MaxSends,     (* bound: calls of send                                     *)
  MaxCloses     (* bound: calls of close                                    *)

Actors == Threads \cup {Worker}

FrameKinds == {"text", "binary", "cont", "ping", "pong", "close", "bad", "masked"}

ASSUME WebSocketAssumption ==
  /\ Worker \notin Threads
  /\ Senders \subseteq Actors /\ Closers \subseteq Actors /\ Destroyers \subseteq Actors
  /\ PeerFrames \subseteq [kind : FrameKinds, fin : BOOLEAN, ok : BOOLEAN]
  /\ MaxFrames \in Nat /\ MaxSends \in Nat /\ MaxCloses \in Nat

VARIABLES
  con_state,
  hpc,          (* handshake_task                                           *)
  spc,          (* send_task                                                *)
  wpc,          (* "free", or inside handle_close_frame, with mtx held      *)
  send_queue, sending,
  send_event,   (* single_consumer_event: it is set                         *)
  send_should_exit,
  connected,    (* client.is_connected()                                    *)
  handler,      (* set_on_data_available() is in effect                     *)
  eof,          (* the server has closed the TCP connection                 *)
  stuck,        (* a masked frame is at the head of parser_data             *)
  fragment_code, fragment_payload, fragment_validate_offset,
  upc, uarg,    (* where each thread is in send() or close(), and which call*)
                (* of send it makes                                         *)
  dpc,          (* where the destructor is                                  *)
  started,      (* calls of send made                                       *)
  closes,       (* calls of close made                                      *)
  answered,     (* history: how often each call's callback was called       *)
  received,     (* history: the frames handled                              *)
  delivered,    (* history: the messages given to on_message                *)
  reports       (* history: calls of on_close                               *)

tasks    == <<hpc, spc, wpc>>
transmit == <<send_queue, sending, send_event, send_should_exit>>
tcp      == <<connected, handler, eof>>
parser   == <<stuck, fragment_code, fragment_payload, fragment_validate_offset>>
users    == <<upc, uarg, dpc, started, closes>>
inbound  == <<received, delivered>>
vars == <<con_state, tasks, transmit, tcp, parser, users, answered, inbound, reports>>

Calls == 1..MaxSends

(* What is queued: a frame and what its callback does: answer a call, report *)
(* the close, or nothing (0).                                                *)
Data(i)     == [op |-> "data", cb |-> i, reports |-> FALSE]
Pong        == [op |-> "pong", cb |-> 0, reports |-> FALSE]
Close(r)    == [op |-> "close", cb |-> 0, reports |-> r]
Idle        == [op |-> "none", cb |-> 0, reports |-> FALSE]
Elements    == {Data(i) : i \in Calls} \cup {Pong, Close(TRUE), Close(FALSE)}

Init ==
  /\ con_state = "init"
  /\ hpc = "none" /\ spc = "none" /\ wpc = "free"
  /\ send_queue = <<>> /\ sending = Idle /\ send_event = FALSE /\ send_should_exit = FALSE
  /\ connected = FALSE /\ handler = FALSE /\ eof = FALSE
  /\ stuck = FALSE
  /\ fragment_code = "none" /\ fragment_payload = <<>> /\ fragment_validate_offset = 0
  /\ upc = [t \in Threads |-> "idle"] /\ uarg = [t \in Threads |-> 0] /\ dpc = "alive"
  /\ started = 0 /\ closes = 0
  /\ answered = [i \in Calls |-> 0]
  /\ received = <<>> /\ delivered = <<>> /\ reports = 0

-------------------------------------------------------------------------------
(* Sending and closing, as every caller does it.                             *)

(* send_queue.emplace and send_event.set                                     *)
Sends(frame) == send_queue' = Append(send_queue, frame) /\ send_event' = TRUE

(* close() outside server_close: if open, this end closes first.             *)
FirstClose == con_state' = IF con_state = "open" THEN "client_close" ELSE con_state

(* close(): the frame to send, if any, and the state that follows.  The      *)
(* reply to the server's close frame reports the close once it is sent.      *)
ClosesWith(frame) ==
  \/ /\ con_state = "server_close"
     /\ con_state' = "closed"
     /\ frame = Close(TRUE)
  \/ /\ con_state \notin {"server_close", "closed", "client_close"}
     /\ FirstClose
     /\ frame = Close(FALSE)

AlreadyClosing == con_state \in {"closed", "client_close"}

(* close() on the worker.                                                    *)
Fails ==
  \/ AlreadyClosing /\ UNCHANGED <<con_state, send_queue, send_event>>
  \/ \E r \in BOOLEAN : ClosesWith(Close(r)) /\ Sends(Close(r))

(* Mutant of Lost: on_close is left to the reply if this end has closed.     *)
LostQuietly ==
  /\ con_state' = "closed"
  /\ reports' = IF con_state = "open" THEN reports + 1 ELSE reports

(* raw_on_disconnect()                                                       *)
Lost ==
  /\ con_state' = "closed"
  /\ reports' = IF con_state \in {"closed", "server_close"} THEN reports ELSE reports + 1

Free == wpc = "free"

-------------------------------------------------------------------------------
(* Calls of the user.  mtx is held by close() only for what is one step.     *)

Called == dpc = "alive" /\ started < MaxSends /\ started' = started + 1

(* send() in any state but open calls back at once.                          *)
SendRefused(a) ==
  /\ a \in Senders /\ Called
  /\ IF a = Worker THEN Free ELSE upc[a] = "idle"
  /\ con_state # "open"
  /\ answered' = [answered EXCEPT ![started + 1] = @ + 1]
  /\ UNCHANGED <<con_state, tasks, transmit, tcp, parser, upc, uarg, dpc, closes, inbound, reports>>

(* On the worker nothing comes between the check of the state and the rest.  *)
SendOnWorker ==
  /\ Worker \in Senders /\ Called /\ Free
  /\ con_state = "open"
  /\ Sends(Data(started + 1))
  /\ UNCHANGED <<con_state, tasks, sending, send_should_exit, tcp, parser, upc, uarg, dpc, closes,
                 answered, inbound, reports>>

(* On another thread the state is checked, without mtx,...                   *)
SendChecked(t) ==
  /\ t \in Senders /\ Called
  /\ upc[t] = "idle" /\ con_state = "open"
  /\ upc' = [upc EXCEPT ![t] = "emplace"]
  /\ uarg' = [uarg EXCEPT ![t] = started + 1]
  /\ UNCHANGED <<con_state, tasks, transmit, tcp, parser, dpc, closes, answered, inbound,
                 reports>>

(* Mutant of SendEmplace: the event is set before the frame is queued.       *)
SendEmplaceUnnoticed(t) ==
  /\ upc[t] = "emplace"
  /\ send_queue' = Append(send_queue, Data(uarg[t]))
  /\ upc' = [upc EXCEPT ![t] = "idle"]
  /\ UNCHANGED <<con_state, tasks, sending, send_event, send_should_exit, tcp, parser, uarg,
                 dpc, started, closes, answered, inbound, reports>>

(* ...the frame is queued,                                                   *)
SendEmplace(t) ==
  /\ upc[t] = "emplace"
  /\ send_queue' = Append(send_queue, Data(uarg[t]))
  /\ upc' = [upc EXCEPT ![t] = "set"]
  /\ UNCHANGED <<con_state, tasks, sending, send_event, send_should_exit, tcp, parser, uarg,
                 dpc, started, closes, answered, inbound, reports>>

(* ...and the event set.                                                     *)
SetEvent(t) ==
  /\ upc[t] = "set"
  /\ send_event' = TRUE
  /\ upc' = [upc EXCEPT ![t] = "idle"] /\ uarg' = [uarg EXCEPT ![t] = 0]
  /\ UNCHANGED <<con_state, tasks, send_queue, sending, send_should_exit, tcp, parser,
                 dpc, started, closes, answered, inbound, reports>>

CloseOnWorker ==
  /\ Worker \in Closers /\ dpc = "alive" /\ Free
  /\ closes < MaxCloses /\ closes' = closes + 1
  /\ Fails
  /\ UNCHANGED <<tasks, sending, send_should_exit, tcp, parser, upc, uarg, dpc, started, answered,
                 inbound, reports>>

CloseCall(t) ==
  /\ t \in Closers /\ dpc = "alive" /\ Free
  /\ upc[t] = "idle"
  /\ closes < MaxCloses /\ closes' = closes + 1
  /\ \E r \in BOOLEAN : ClosesWith(Close(r)) /\ send_queue' = Append(send_queue, Close(r))
  /\ upc' = [upc EXCEPT ![t] = "set"]
  /\ UNCHANGED <<tasks, sending, send_event, send_should_exit, tcp, parser, uarg, dpc, started,
                 answered, inbound, reports>>

-------------------------------------------------------------------------------
(* connect(), raw_on_connect() and handshake_task.                           *)

(* connect() blocks, with mtx held, until the TCP connection is there or     *)
(* not, and starts both tasks on its own thread.                             *)
Connect(ok) ==
  /\ con_state = "init" /\ dpc = "alive" /\ Free
  /\ con_state' = "handshake"
  /\ connected' = ok
  /\ IF ok
       THEN hpc' = "request" /\ spc' = "check" /\ send_should_exit' = FALSE
       ELSE hpc' = "failed" /\ UNCHANGED <<spc, send_should_exit>>
  /\ UNCHANGED <<wpc, send_queue, sending, send_event, handler, eof, parser, users, answered,
                 inbound, reports>>

Handshake(from, to) ==
  /\ Free
  /\ hpc = from /\ hpc' = to
  /\ UNCHANGED <<con_state, spc, wpc, transmit, tcp, parser, users, answered, inbound, reports>>

(* The request is sent; the response arrives, and the closure resuming the   *)
(* task is queued; it is refused, or on_open(0) is called.                   *)
H_Sent == Handshake("request", "response")

H_Response == connected /\ Handshake("response", "answered")

H_Refused == Handshake("answered", "failed")

H_Disconnected == (~connected \/ eof) /\ Handshake("response", "failed")

H_OnOpen == Handshake("answered", "opening")

(* After on_open(0) the state is set, whatever it has become.                *)
H_Open ==
  /\ Free
  /\ hpc = "opening" /\ hpc' = "dummy"
  /\ con_state' = "open"
  /\ UNCHANGED <<spc, wpc, transmit, tcp, parser, users, answered, inbound, reports>>

(* recv_raw() throws if the client was disconnected meanwhile: terminate().  *)
H_Throws ==
  /\ Free
  /\ hpc = "dummy" /\ ~connected
  /\ wpc' = "terminated"
  /\ UNCHANGED <<con_state, hpc, spc, transmit, tcp, parser, users, answered, inbound, reports>>

(* After the frames that came with the response the handler is installed.    *)
H_Install ==
  /\ Free
  /\ hpc = "dummy" /\ connected
  /\ hpc' = "done"
  /\ handler' = TRUE
  /\ UNCHANGED <<con_state, spc, wpc, transmit, connected, eof, parser, users, answered, inbound,
                 reports>>

-------------------------------------------------------------------------------
(* send_task.                                                                *)

S_Pop ==
  /\ Free
  /\ spc = "pop" /\ send_queue # <<>>
  /\ sending' = Head(send_queue) /\ send_queue' = Tail(send_queue)
  /\ spc' = "sending"
  /\ UNCHANGED <<con_state, hpc, wpc, send_event, send_should_exit, tcp, parser, users, answered,
                 inbound, reports>>

(* send_all() throws "Send already in progress" if the request is not out.   *)
S_PopThrows ==
  /\ Free
  /\ spc = "pop" /\ send_queue # <<>> /\ hpc = "request"
  /\ wpc' = "terminated"
  /\ UNCHANGED <<con_state, hpc, spc, transmit, tcp, parser, users, answered, inbound, reports>>

S_Empty ==
  /\ Free
  /\ spc = "pop" /\ send_queue = <<>>
  /\ spc' = "waiting"
  /\ UNCHANGED <<con_state, hpc, wpc, transmit, tcp, parser, users, answered, inbound, reports>>

(* The callbacks of the elements in the sequence s.                          *)
CallsBack(s) ==
  /\ answered' = [i \in Calls |->
                   answered[i] + Cardinality({k \in DOMAIN s : s[k].cb = i})]
  /\ reports' = reports + Cardinality({k \in DOMAIN s : s[k].reports})

S_Sent ==
  /\ Free
  /\ spc = "sending"
  /\ CallsBack(<<sending>>)
  /\ sending' = Idle
  /\ spc' = "pop"
  /\ UNCHANGED <<con_state, hpc, wpc, send_queue, send_event, send_should_exit, tcp, parser, users,
                 inbound>>

(* wait() returns at once if the event is set; reset().                      *)
S_Wake ==
  /\ Free
  /\ spc = "waiting" /\ send_event
  /\ send_event' = FALSE
  /\ spc' = "check"
  /\ UNCHANGED <<con_state, hpc, wpc, send_queue, sending, send_should_exit, tcp, parser, users,
                 answered, inbound, reports>>

S_Check ==
  /\ Free
  /\ spc = "check"
  /\ spc' = IF send_should_exit THEN "drain" ELSE "pop"
  /\ UNCHANGED <<con_state, hpc, wpc, transmit, tcp, parser, users, answered, inbound, reports>>

(* Mutant of S_Drain: what is left in the queue is dropped.                  *)
S_DrainDrops ==
  /\ Free
  /\ spc = "drain"
  /\ send_queue' = <<>>
  /\ spc' = IF connected THEN "disconnect" ELSE "exited"
  /\ UNCHANGED <<con_state, hpc, wpc, sending, send_event, send_should_exit, tcp, parser, users,
                 answered, inbound, reports>>

(* What is left is called back with false.                                   *)
S_Drain ==
  /\ Free
  /\ spc = "drain"
  /\ CallsBack(send_queue)
  /\ send_queue' = <<>>
  /\ spc' = IF connected THEN "disconnect" ELSE "exited"
  /\ UNCHANGED <<con_state, hpc, wpc, sending, send_event, send_should_exit, tcp, parser, users,
                 inbound>>

(* Mutant of S_Disconnect: the handler is left behind.                       *)
S_DisconnectKeepsHandler ==
  /\ Free
  /\ spc = "disconnect"
  /\ connected' = FALSE
  /\ spc' = IF handler THEN "cancel" ELSE "exited"
  /\ UNCHANGED <<con_state, hpc, wpc, transmit, handler, eof, parser, users, answered, inbound,
                 reports>>

(* client.disconnect() takes the handler, to cancel it from a closure...     *)
S_Disconnect ==
  /\ Free
  /\ spc = "disconnect"
  /\ connected' = FALSE /\ handler' = FALSE
  /\ spc' = IF handler THEN "cancel" ELSE "exited"
  /\ UNCHANGED <<con_state, hpc, wpc, transmit, eof, parser, users, answered, inbound, reports>>

(* ...which then resumes the task.                                           *)
S_Cancelled ==
  /\ Free
  /\ spc = "cancel"
  /\ Lost
  /\ spc' = "exited"
  /\ UNCHANGED <<hpc, wpc, transmit, tcp, parser, users, answered, inbound>>

-------------------------------------------------------------------------------
(* raw_on_data_available() and handle_frame().                               *)

(* A frame is parsed and handled: frames behind a masked one never are, and  *)
(* those that arrive after the close are dropped.                            *)
Receives(f) ==
  /\ Free
  /\ hpc = "dummy" \/ handler
  /\ connected /\ ~stuck
  /\ con_state \notin {"closed", "server_close"}
  /\ Len(received) < MaxFrames
  /\ received' = Append(received, f)
  /\ UNCHANGED <<hpc, spc, sending, send_should_exit, tcp, users, answered>>

This == Len(received) + 1

InFragment == fragment_code # "none"

Quiet == UNCHANGED <<con_state, send_queue, send_event>>

(* on_message                                                                *)
Delivers(kind, parts) == delivered' = Append(delivered, [kind |-> kind, parts |-> parts])

NoMessage == UNCHANGED <<delivered, wpc, reports>>

(* Not allowed here, or not valid: close(1002) or close(1007).               *)
W_Rejects(f) ==
  /\ \/ f.kind = "bad"
     \/ f.kind \in {"ping", "pong"} /\ ~(f.fin /\ f.ok)
     \/ f.kind \in {"text", "binary"} /\ InFragment
     \/ f.kind = "text" /\ f.fin /\ ~f.ok
     \/ f.kind = "cont" /\ ~InFragment
  /\ Receives(f)
  /\ Fails
  /\ NoMessage
  /\ UNCHANGED parser

(* The parser leaves a masked frame where it is.                             *)
W_Masked(f) ==
  /\ f.kind = "masked"
  /\ Receives(f)
  /\ Fails
  /\ stuck' = TRUE
  /\ NoMessage
  /\ UNCHANGED <<fragment_code, fragment_payload, fragment_validate_offset>>

(* A ping is given to on_ping or, if there is none, answered in any state.   *)
W_Ping(f) ==
  /\ f.kind = "ping" /\ f.fin /\ f.ok
  /\ Receives(f)
  /\ Sends(Pong) \/ UNCHANGED <<send_queue, send_event>>
  /\ NoMessage
  /\ UNCHANGED <<con_state, parser>>

W_Pong(f) ==
  /\ f.kind = "pong" /\ f.fin /\ f.ok
  /\ Receives(f)
  /\ Quiet /\ NoMessage
  /\ UNCHANGED parser

(* An unfragmented message.                                                  *)
W_Message(f) ==
  /\ f.kind \in {"text", "binary"} /\ f.fin
  /\ ~InFragment /\ (f.kind = "text" => f.ok)
  /\ Receives(f)
  /\ Delivers(f.kind, <<This>>)
  /\ Quiet
  /\ UNCHANGED <<parser, wpc, reports>>

(* The first fragment; if its text is not valid the offset keeps the value   *)
(* that the last message left.                                               *)
W_FragmentStart(f) ==
  /\ f.kind \in {"text", "binary"} /\ ~f.fin
  /\ ~InFragment
  /\ Receives(f)
  /\ fragment_code' = f.kind
  /\ fragment_payload' = <<This>>
  /\ IF f.kind = "binary" THEN fragment_validate_offset' = 0 /\ Quiet
     ELSE IF f.ok THEN fragment_validate_offset' = 1 /\ Quiet
     ELSE Fails /\ UNCHANGED fragment_validate_offset
  /\ NoMessage
  /\ UNCHANGED stuck

(* The parts p behind the offset are valid text.  An offset beyond the end   *)
(* is undefined behaviour of remove_prefix.                                  *)
SuffixValid(p, fs) ==
  IF fragment_validate_offset <= Len(p)
    THEN {\A k \in fragment_validate_offset + 1..Len(p) : fs[p[k]].ok}
    ELSE BOOLEAN

(* Mutant of W_FragmentNext: only the first and the last part are kept.      *)
W_FragmentNextSkips(f) ==
  /\ f.kind = "cont" /\ ~f.fin
  /\ InFragment
  /\ Receives(f)
  /\ Quiet
  /\ NoMessage
  /\ UNCHANGED parser

W_FragmentNext(f) ==
  /\ f.kind = "cont" /\ ~f.fin
  /\ InFragment
  /\ Receives(f)
  /\ fragment_payload' = Append(fragment_payload, This)
  /\ IF fragment_code = "binary" THEN Quiet /\ UNCHANGED fragment_validate_offset
     ELSE \E valid \in SuffixValid(fragment_payload', received') :
            IF valid THEN fragment_validate_offset' = Len(fragment_payload') /\ Quiet
                     ELSE Fails /\ UNCHANGED fragment_validate_offset
  /\ NoMessage
  /\ UNCHANGED <<stuck, fragment_code>>

(* The last fragment; the offset is left as it is.                           *)
W_FragmentEnd(f) ==
  /\ f.kind = "cont" /\ f.fin
  /\ InFragment
  /\ Receives(f)
  /\ fragment_code' = "none"
  /\ fragment_payload' = <<>>
  /\ LET parts == Append(fragment_payload, This) IN
       \E valid \in IF fragment_code = "binary" THEN {TRUE} ELSE SuffixValid(parts, received') :
         IF valid THEN Delivers(fragment_code, parts) /\ Quiet
                  ELSE Fails /\ UNCHANGED delivered
  /\ UNCHANGED <<stuck, fragment_validate_offset, wpc, reports>>

(* Mutant of W_CloseReply: the state stays client_close.                     *)
W_CloseReplyStays(f) ==
  /\ f.kind = "close"
  /\ con_state = "client_close"
  /\ Receives(f)
  /\ reports' = reports + 1
  /\ UNCHANGED <<con_state, send_queue, send_event, delivered, wpc, parser>>

(* The reply to this end's close frame.                                      *)
W_CloseReply(f) ==
  /\ f.kind = "close"
  /\ con_state = "client_close"
  /\ Receives(f)
  /\ reports' = reports + 1
  /\ con_state' = "closed"
  /\ UNCHANGED <<send_queue, send_event, delivered, wpc, parser>>

(* The server closes first: server_close is visible to threads that read the *)
(* state without mtx...                                                      *)
W_CloseFrame(f) ==
  /\ f.kind = "close"
  /\ con_state # "client_close"
  /\ Receives(f)
  /\ con_state' = "server_close"
  /\ wpc' = "replying"
  /\ UNCHANGED <<send_queue, send_event, delivered, reports, parser>>

(* ...until close() replies, with the server's code or that of an error.     *)
W_Reply ==
  /\ wpc = "replying"
  /\ Fails
  /\ wpc' = "free"
  /\ UNCHANGED <<hpc, spc, sending, send_should_exit, tcp, parser, users, answered, inbound,
                 reports>>

(* recv_raw() returns 0; the dummy call's result is not looked at.           *)
W_Eof ==
  /\ Free
  /\ eof /\ connected /\ (hpc = "dummy" \/ handler)
  /\ Lost
  /\ handler' = FALSE
  /\ UNCHANGED <<tasks, transmit, connected, eof, parser, users, answered, inbound>>

PeerEof ==
  /\ connected /\ ~eof
  /\ eof' = TRUE
  /\ UNCHANGED <<con_state, tasks, transmit, connected, handler, parser, users, answered, inbound,
                 reports>>

-------------------------------------------------------------------------------
(* ~websocket(): closes, without mtx, unless it is closed; then ends         *)
(* send_task.  The calls of other threads have returned.                     *)

Unused == \A t \in Threads : upc[t] = "idle"

DestroyOnWorker ==
  /\ Worker \in Destroyers /\ dpc = "alive" /\ Unused /\ Free
  /\ IF connected /\ con_state # "closed" THEN Fails ELSE UNCHANGED <<con_state, send_queue>>
  /\ send_should_exit' = TRUE /\ send_event' = TRUE
  /\ dpc' = "gone"
  /\ UNCHANGED <<tasks, sending, tcp, parser, upc, uarg, started, closes, answered, inbound,
                 reports>>

Destroying(from, to) ==
  /\ dpc = from /\ dpc' = to
  /\ UNCHANGED <<tasks, sending, tcp, parser, upc, uarg, started, closes, answered, inbound,
                 reports>>

D_Check ==
  /\ Destroyers \cap Threads # {} /\ Unused
  /\ Destroying("alive", IF connected /\ con_state # "closed" THEN "close" ELSE "exit")
  /\ UNCHANGED <<con_state, send_queue, send_event, send_should_exit>>

(* close() looks at the state...                                             *)
D_Close ==
  /\ Destroying("close", IF AlreadyClosing THEN "exit"
                         ELSE IF con_state = "server_close" THEN "reply" ELSE "first")
  /\ UNCHANGED <<con_state, send_queue, send_event, send_should_exit>>

(* ...and acts on what it saw.                                               *)
D_Reply ==
  /\ Destroying("reply", "wake")
  /\ con_state' = "closed"
  /\ send_queue' = Append(send_queue, Close(TRUE))
  /\ UNCHANGED <<send_event, send_should_exit>>

(* send_frame() looks at the state again before it changes it.               *)
D_First ==
  /\ con_state # "open"
  /\ Destroying("first", "wake")
  /\ send_queue' = Append(send_queue, Close(FALSE))
  /\ UNCHANGED <<con_state, send_event, send_should_exit>>

D_FirstOpen ==
  /\ con_state = "open"
  /\ Destroying("first", "exchange")
  /\ UNCHANGED <<con_state, send_queue, send_event, send_should_exit>>

D_Exchange ==
  /\ Destroying("exchange", "wake")
  /\ con_state' = "client_close"
  /\ send_queue' = Append(send_queue, Close(FALSE))
  /\ UNCHANGED <<send_event, send_should_exit>>

D_Wake ==
  /\ Destroying("wake", "exit")
  /\ send_event' = TRUE
  /\ UNCHANGED <<con_state, send_queue, send_should_exit>>

D_Exit ==
  /\ Destroying("exit", "exitWake")
  /\ send_should_exit' = TRUE
  /\ UNCHANGED <<con_state, send_queue, send_event>>

(* Mutant of D_ExitWake: send_task is not woken to see the flag.             *)
D_ExitUnnoticed ==
  /\ Destroying("exitWake", "gone")
  /\ UNCHANGED <<con_state, send_queue, send_event, send_should_exit>>

D_ExitWake ==
  /\ Destroying("exitWake", "gone")
  /\ send_event' = TRUE
  /\ UNCHANGED <<con_state, send_queue, send_should_exit>>

-------------------------------------------------------------------------------
Alive == wpc # "terminated"

UserCall ==
  \/ \E a \in Actors : SendRefused(a)
  \/ SendOnWorker \/ CloseOnWorker
  \/ \E t \in Threads : SendChecked(t) \/ CloseCall(t)
  \/ \E ok \in BOOLEAN : Connect(ok)

Continue(t) == SendEmplace(t) \/ SetEvent(t)

HandshakeTask ==
  H_Sent \/ H_Response \/ H_Refused \/ H_Disconnected \/ H_OnOpen \/ H_Open \/ H_Throws \/ H_Install

SendTask ==
  \/ S_Pop \/ S_PopThrows \/ S_Empty \/ S_Sent \/ S_Wake \/ S_Check
  \/ S_Drain \/ S_Disconnect \/ S_Cancelled

Frame(f) ==
  \/ W_Rejects(f) \/ W_Masked(f) \/ W_Ping(f) \/ W_Pong(f) \/ W_Message(f)
  \/ W_FragmentStart(f) \/ W_FragmentNext(f) \/ W_FragmentEnd(f)
  \/ W_CloseReply(f) \/ W_CloseFrame(f)

Destructor ==
  \/ D_Close \/ D_Reply \/ D_First \/ D_FirstOpen \/ D_Exchange
  \/ D_Wake \/ D_Exit \/ D_ExitWake

Next ==
  /\ Alive
  /\ \/ UserCall
     \/ \E t \in Threads : Continue(t)
     \/ HandshakeTask \/ SendTask
     \/ (\E f \in PeerFrames : Frame(f)) \/ W_Reply \/ W_Eof \/ PeerEof
     \/ DestroyOnWorker \/ D_Check \/ Destructor

Safe == Init /\ [][Next]_vars

(* Threads inside a call proceed, the worker runs its tasks, the server      *)
(* reads what is sent, answers the request and ends its stream.              *)
Fairness ==
  /\ \A t \in Threads : WF_vars(Alive /\ Continue(t))
  /\ WF_vars(Alive /\ HandshakeTask)
  /\ WF_vars(Alive /\ SendTask)
  /\ WF_vars(Alive /\ W_Reply) /\ WF_vars(Alive /\ W_Eof)
  /\ WF_vars(Alive /\ Destructor)
  /\ WF_vars(Alive /\ PeerEof)

Spec == Safe /\ Fairness

-------------------------------------------------------------------------------
(* Every variable stays within its type; frames are handled, and a close     *)
(* handshake begun by the server answered, only over a connection.           *)
TypeOK ==
  /\ con_state \in {"init", "handshake", "open", "client_close", "server_close", "closed"}
  /\ hpc \in {"none", "request", "response", "answered", "opening", "dummy", "done", "failed"}
  /\ spc \in {"none", "check", "pop", "sending", "waiting", "drain", "disconnect", "cancel",
               "exited"}
  /\ wpc \in {"free", "replying", "terminated"}
  /\ wpc = "replying" => handler \/ hpc = "dummy"
  /\ send_queue \in Seq(Elements) /\ sending \in Elements \cup {Idle}
  /\ sending # Idle <=> spc = "sending"
  /\ send_event \in BOOLEAN /\ send_should_exit \in BOOLEAN
  /\ connected \in BOOLEAN /\ handler \in BOOLEAN /\ eof \in BOOLEAN /\ stuck \in BOOLEAN
  /\ handler => connected
  /\ fragment_code \in {"none", "text", "binary"}
  /\ fragment_payload \in Seq(1..MaxFrames) /\ fragment_validate_offset \in 0..MaxFrames
  /\ upc \in [Threads -> {"idle", "emplace", "set"}] /\ uarg \in [Threads -> Calls \cup {0}]
  /\ dpc \in {"alive", "close", "reply", "first", "exchange", "wake", "exit", "exitWake", "gone"}
  /\ started \in 0..MaxSends /\ closes \in 0..MaxCloses
  /\ answered \in [Calls -> Nat] /\ reports \in Nat
  /\ received \in Seq(PeerFrames)
  /\ delivered \in Seq([kind : {"text", "binary"}, parts : Seq(1..MaxFrames)])

(* All frames on their way, the oldest first.                                *)
Outgoing == <<sending>> \o send_queue

(* A frame is never left in the queue while send_task sleeps: the event is   *)
(* set, or the thread that queued the frame is about to set it.              *)
NoLostFrame ==
  spc = "waiting" /\ send_queue # <<>> =>
    send_event \/ dpc = "wake" \/ \E t \in Threads : upc[t] = "set"

(* send() calls back exactly once: every call has been answered or is owned  *)
(* by one frame on its way or by the thread that is making it.               *)
OneAnswer ==
  \A i \in 1..started :
    answered[i] + Cardinality({k \in DOMAIN Outgoing : Outgoing[k].cb = i})
      + Cardinality({t \in Threads : upc[t] = "emplace" /\ uarg[t] = i}) = 1

(* on_close is called exactly once for a connection that was closed, by the  *)
(* end of the stream, by the server's reply or by the frame that replies to  *)
(* the server; and for no other.                                             *)
CloseReportedOnce ==
  reports + Cardinality({k \in DOMAIN Outgoing : Outgoing[k].reports})
    = IF con_state = "closed" THEN 1 ELSE 0

(* on_message gets whole messages: a first frame, which gives the type, then *)
(* every continuation frame received since, up to the one with the FIN bit.  *)
WholeMessages ==
  \A m \in DOMAIN delivered :
    LET parts == delivered[m].parts
        first == parts[1]
        last  == parts[Len(parts)] IN
    /\ received[first].kind = delivered[m].kind
    /\ received[last].fin
    /\ {parts[k] : k \in 2..Len(parts)} = {k \in first + 1..last : received[k].kind = "cont"}
    /\ \A k \in 1..Len(parts) - 1 : ~received[parts[k]].fin /\ parts[k] < parts[k + 1]

(* "If we are the first to close, call on_close on disconnect/fin reply".    *)
CloseCompletes == con_state = "client_close" ~> reports > 0 \/ ~Alive

(* ~websocket() ends send_task, which closes the connection.                 *)
DestroyDisconnects == dpc = "gone" ~> (spc \in {"none", "exited"} /\ ~connected) \/ ~Alive

(* send() calls back eventually once the websocket is destroyed or while it  *)
(* is alive.                                                                 *)
SendsAnswered == \A i \in Calls : started >= i ~> answered[i] > 0 \/ ~Alive
===============================================================================
