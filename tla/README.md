# asyncpp-curl in TLA+

asyncpp-curl wraps libcurl for C++ coroutines: an executor thread drives a multi
handle, and HTTP requests, raw TCP connections and a websocket client are built on
it. Much of what can go wrong in it happens between that thread and the threads
that call into it; the rest is in code that cuts up or joins what arrives in pieces:
frames, texts, header lines, uris, encodings. This directory holds models of both, the
TLC configurations that check them and proofs of the core. Paths below are relative
to the repository (`src/curl/...`, `include/asyncpp/curl/...`); `PROJECT.json`
maps every definition to its lines, and gives for every property a mutation of the
code that breaks it.

## 1. The system

| part | state | operations | talks to |
|---|---|---|---|
| `executor` | `m_queue`, `m_scheduled`, `m_mtx`, `m_exit`, `m_connect_only_handles`, the worker thread | `push`, `push_wait`, `schedule`, `wakeup`, `add_handle`, `remove_handle`, `exec`, destructor | `multi`; calls user invocables and handle callbacks |
| `executor::exec_awaiter`, `http_request::execute_awaiter` | a stop callback, the handle's done callback, the coroutine | `await_suspend`, stop, completion, destruction | executor, handle |
| `multi` | the handles in it, a wakeup flag | `perform`, `next_event`, `poll`, `wakeup` | libcurl |
| `handle` | options, owned lists, callbacks, flags, pause flags, `m_multi`, `m_executor` | setters, `set_*function`, `perform`, `reset`, `recv`, `send`, `pause`, `unpause`, destructor | executor, multi, libcurl |
| `tcp_client` | `m_is_connected`, one handler per direction, `m_mtx` | `connect`, `disconnect`, `send(_all)`, `recv(_all)`, `recv_raw`, `set_on_data_available`, `pause_receive`, destructor | a connect-only handle, the executor |
| `websocket` | `con_state`, `send_queue`, `send_event`, parser and fragment state | `connect`, `send`, `close`, handlers, two coroutine tasks | `tcp_client` |
| `slist` | nodes, first and last pointer | list operations | `curl_slist` |
| `http_request`, `http_response` | the request's data; the response, the place in the body | prepare, header, body and read callbacks, `execute`, `execute_sync` | handle, `cookie`, `uri` |
| `sha1` | `m_count`, `m_buffer`, the digest | `update`, `finish` | used by the websocket's handshake |
| `utf8_validator`, `base64`, `uri`, `cookie` | none, or a parsed value | validate; encode, decode; parse, write | used by websocket and requests |
| `version`, `exception` | none | tables and an error class | |

One thread, the worker, runs everything that is not a call by the user: closures in
the order of the queue, scheduled invocables, libcurl's callbacks, and after
`poll()` the callbacks of connect-only handles. Other threads reach it by appending
to the queue and waking it, and wait for it with `push_wait`.

What is hard: wakeups and flags that are read and set on different sides of a lock;
locks held while waiting for the worker; completion, stop requests and destruction
racing for one callback; operations on a socket that finish in parts or are
cancelled; the two ends of a websocket closing at once; and the lifetimes of objects
captured in queued closures. `PROJECT.json` lists these hazards by line.

What makes each part correct:

- *executor*: what is accepted runs, once, in order, in time; nobody waits for a
  worker that sleeps.
- *awaiter*: a coroutine is resumed once, when its handle is idle, and nothing is
  used after its destruction.
- *tcp_client*: every operation calls back once, with the bytes it moved; a
  connected client is polled for what it waits for.
- *websocket*: messages are whole and valid, each send is answered once, each close is
  reported once, closing and destroying come to an end.
- *slist*: the pointers are the list, and own it.
- *handle*: libcurl points only to lists and functions the handle still has.
- *http_request*: a response is that of the last answer, a body is sent whole unless the server
  answers before.
- *utf8_validator, base64, uri, cookie, sha1*: what is written reads back, and the verdict or
  digest does not depend on how the input was cut up.

## 2. Modules

`Dispatcher` — the abstract specification of the executor: a FIFO, a set of timers,
one invocable running. Nothing accepted may be dropped, and until `Close` (the
destructor) everything accepted starts.

`Executor` — `executor.cpp` as it is. `wpc` is the place in `worker_thread()`; the
order `loop, perform, events, drain, check, timeout, prepare, sched, relock, poll,
callbacks` is that of the code, with a step wherever another thread can interfere
(before a lock, between the pop that fails and the read of `m_exit`, around an
invocable). `tpc[t]` is the place of another thread in `push`, `push_wait` or
`schedule`. A push is two steps, emplace and wakeup. While `InUserCode` the `Body*`
actions are what any invocable may call. `EmplaceOutcomes` is the data race of
`schedule()`: if the worker wrote the tree since the other thread read it, either
write may be lost. Handles are added by `BodyAddHandle` only: an `add_handle` of
another thread is a `push_wait` whose invocable does it. `dpc` is the destructor. `now` is the
clock, which runs wherever the worker may take time, in user code above all, and with `Preempted`
between any two instructions. `schedNow` is what the worker read of it, `behind` counts what passed
since then, and `pollAt` is the time at which `poll()` was entered.

`Transfer` — `exec_awaiter` and `execute_awaiter::data`. It uses the executor as
`Dispatcher` describes it, a FIFO. `apc` is `await_suspend`, `spc` the stop callback,
`m_queue` holds the three closures (add, abort, done). `DestroyAwaiter` waits for a
running stop callback as `std::stop_callback` does; awaiter and handle are made, and destroyed by
the resumed coroutine, in the order their owner declares (`HandleFirst` is the order of
`execute_awaiter::data`, where `MakeHandle` comes after the stop callback was registered). A stop may
be requested at any time; only the window between the two calls of `await_suspend` is a constant,
`StopWhileAdding`. `misused` records who used what was not there.

`TcpClient` — the client together with the connect-only part of the worker loop, with
both directions handled by one set of actions. `interest` is `fds[i].events`
computed before `poll()`, `revents` what it returned. A call holds `m_mtx` throughout
and is one step, except `connect` and `disconnect` on another thread, which
wait for the worker (`tpc`). The worker's callbacks hold it as well, but the destructor locks nothing. So
a callback is cut into its call (`W_Callback`), the handler (`W_CallbackOp`, ...) and the clearing of the
handler (`W_Clear`), and `~tcp_client` into the taking of each handler (`Destroy`,
`DestroyTakesSend`) and the wait of `~handle` for the worker (`DestroyEnd`). A handler that has queued its
result and is not cleared yet is `Spent`; `torn` are the directions in which the destructor took one. The network is a socket with `Window` bytes of room and a peer that
sends up to `Stream` bytes, closes or resets.

`WebSocket` — one connection: `hpc` is `handshake_task`, `spc` `send_task`, `upc` a
thread in `send()`, `dpc` the destructor, and `Frame(f)` is `handle_frame` for a frame
given by kind, FIN bit and whether its payload is acceptable. The TCP client is used
by its promises (`send_all` calls back, the data callback is called with `true` at the
end of the stream). A queued frame is the record of what its callback will do.
The state `connect` is folded into `init`: in both, sends are refused, and a `close`
cannot come between because `connect()` holds `mtx`.

`Frames` — below `WebSocket`: how `raw_on_data_available` cuts a connection's bytes into
frames. A byte is its place in the stream and `parser_data` the interval `lo..hi-1`;
`Receives` is one `recv_raw` of at most `Chunk` bytes, `ParsesFrame` one turn of the loop,
`parser` the place in the handshake's call and in later ones. The size of a frame is a sum modulo
`SizeMod`, 2^64 in the code; behind a frame that `Wraps` the parser is `lost`.

`TextFragments`, `Utf8` — also below `WebSocket`: the texts of a connection byte by byte.
`FirstFragment`, `MiddleFragment` and `LastFragment` are what `handle_data_frame` and
`handle_continuation_frame` do, validating from `fragment_validate_offset`; `Verdict` in `Utf8` is `utf8_validator::validate` in all five modes.
The reference, `WellFormed`, is the table of byte sequences of the Unicode standard.

`Handle` — the lists, functions and flags that a handle keeps because libcurl only points to
them. Setting a list may be refused, attaching and detaching only change `attached`.

`Request`, `Cookie` — a request from the caller's side. `Prepare` is `prepare_handle`; the
server sends status lines, fields, the empty line, body and trailers in any order a transfer with
interim answers and redirects allows, and the callbacks of `webclient.cpp` work on them;
`SendsBody` is libcurl asking for the body, in pieces of any size, before the server answers or after. libcurl's
cookie list is `jar`: the request's cookies, those that servers set, less those that libcurl drops; it is
read line by line, with libcurl's marks on the domain (`Marked`).

`Base64`, `Uri`, `Sha1`, `Slist` — one variable or one object each: the text that is encoded,
the text that is parsed (with what libcurl makes of an empty length, `decode`), a message and what was fed of it, and for `Slist` nodes with `next`
and `data`, first and last pointers, and `items`, the plain sequences the same calls are
meant to produce.

`MCExecutor`, `MCTransfer`, `MCTcpClient`, `MCWebSocket` and `MCSlist` instantiate a module for
TLC. `MCValues` puts those that one caller uses at a time side by side: in each behaviour one
of them runs (`part`), so that TLC visits the sum of their states and not the product.
`QueueLemmas`, `ExecutorProofs`, `TransferProofs`, `TcpClientProofs`, `WebSocketProofs`,
`HandleProofs`, `CodecProofs` and `UriProofs` hold the theorems.

Composition: `Executor` implements `Dispatcher` (checked and, for safety, proved), and
`Transfer`, `TcpClient` and `WebSocket` rely on what `Dispatcher` says of queued closures.
`WebSocket` relies on what `TcpClient` checks (`OneCallback`, `CallsBack`), on `Frames` for whole
frames in order, and on `TextFragments` for the verdict on a text, which is a bit of the frame there.

## 3. Runs

| run | bounds | shows |
|---|---|---|
| `Executor_queue` | 2 threads, 2 invocables, 1 transfer, the worker may schedule, time stands still | No lost wakeup, no lost exit, exit only after the worker's own work; refinement of `Dispatcher` with its liveness; `push_wait` and the destructor return; done callbacks arrive |
| `Executor_timers` | 1 thread that schedules, 2 invocables, 4 slices of time, poll of 3 | The type invariant; a poll outlasts a scheduled invocable at most by what passed since the clock was read |
| `Executor_schedule_race` | schedule on both sides | **violation** of `ScheduledIsKept` |
| `Transfer` | 3 transfers: on the worker, from a thread inside `execute_awaiter`, from a thread | One resumption, after the transfer, nothing used before it is made or after its destruction but the handle by a stop request; awaits end |
| `Transfer_stop_race` | 2 transfers, stop also between the calls of `await_suspend` | **violation** of `ResumedMeansFinished` |
| `TcpClient_worker` | 5 calls of sizes 1 and 2, stream and window of 2 bytes; worker and one thread transfer, worker connects | No lost unpause, all bytes accounted, short only if closed; operations call back |
| `TcpClient_threads` | 6 calls, a thread connects, disconnects and destroys, peer resets, user callback on the worker | The types with `m_mtx`, one callback, connected is driven, nothing uses a destroyed client |
| `TcpClient_disconnect_deadlock` | 4 calls | **violation** of `DisconnectReturns` |
| `Values` | see below | Slist, base64, sha1, texts, frames, uris, requests and handles, one property or two each |
| `Slist_copy` | copies of two items | **violation** of `HoldsItsItems` |
| `WebSocket_worker` | 4 frames out of 12 kinds, a masked one and a close among them | Messages and their reassembly, one close report |
| `WebSocket_threads` | 2 control frames, 2 sends, 1 close, destroyed by a thread or by the worker | Send queue, answers, close and destruction come to an end |

Why these bounds are enough. Two threads are the least with which two wakeups, or a
push and a `push_wait`, overlap; a wakeup is a flag, so that a third adds nothing that
two do not. Two invocables show order. Three transfers are one of each kind, and their queue
orders of length three; they interact through the queue only. Sizes 1 and 2 with a
window of 2 give whole and partial transfers, full and empty sockets. Four frames are
a first fragment, two continuations and a control frame or failure between them. Every bound is
a constant (`MaxTime`, `PollMax`, `MaxCalls`, `Stream`, `Window`, `MaxFrames`, `MaxSends`, `MaxCloses`,
`MaxCopied` and those of `Values`). `MaxTime` stops the clock, `Stream` and `MaxFrames` the peer, the
others users; none of them stops the program in the middle of a call.

The bounds of `Values`, part by part:

| part | bounds | reached |
|---|---|---|
| slist | 2 lists, 4 nodes, 2 strings, copies of at most one item | an item inserted or removed at the start, inside and at the end of a list while another list or the caller holds nodes |
| base64 | texts up to 5 of 6 bytes | each length of the last group behind a full one, and the bytes that become `+` and `/` |
| sha1 | `Block` 16 for 64, `WordBytes` 128 for 2^29, 3 pieces of up to 50 bytes | padding that needs a second block, blocks out of buffer and piece together, the carry into the high word of `m_count` (at 128 bytes in the model) |
| texts | messages up to 4 bytes in frames of up to 2, 12 bytes out of the classes of the standard's table | every sequence of up to four bytes, cut at every place; overlong forms, surrogates, bytes that never occur |
| frames | 2 frames of 0, 1, 9 or 133 bytes, reads of up to 8, masked or not, up to 6 bytes with the handshake; `ShortMod` 130 for 2^16, `SizeMod` 140 for 2^64 | a read that ends in a header, in a length field or in a payload, or brings the end of one frame and the start of the next; a length whose sum with the header wraps |
| uris | `9:/`, `://` or `9&=`, then up to 7 characters in all: each delimiter, a digit, a port out of range | every order of delimiters, including those that belong to a later part; no scheme; form data from the first character on |
| requests | a body of 2 bytes, 4 header lines, 1 byte of answer, 4 cookies to choose from, `MaxCookies` 2 in libcurl's list | an interim answer or redirect in front of the last answer, trailers, a redirect that would need the body again, an answer before the whole body; a cookie set, marked as HttpOnly or dropped |
| handle | 2 list options, 3 lists | a list replaced by another while a second option holds one; refused options |

Symmetry is used only for the nodes, lists and strings of `Slist`, in runs that check invariants.
`Block` and `WordBytes` (the bytes whose bits a word of `m_count` can count) are smaller than in the
code because the carry would need 512 MiB; the arithmetic is written in these constants, and
`Sha1Assumption` says what it needs of them. `ShortMod` and `SizeMod` are smaller for the same reason.

`CHECK_DEADLOCK FALSE` appears where the system really may stop: all transfers destroyed,
a websocket closed and nobody calling, a text or a message at its bound, a thread and the worker
waiting for each other in `disconnect()` (that deadlock is the subject of its own run).

### Where code and documentation disagree

Four runs end in a violation, each of a sentence of the documentation or a test:

1. `schedule()` on the worker takes no lock (`executor.cpp:163`); with a concurrent
   `schedule()` an invocable is lost (`executor.h:99`).
2. A stop request inside `await_suspend` resumes the coroutine while the transfer is
   added (`executor.cpp:123-144`, `executor.h:81`).
3. `disconnect()` waits for the worker with `m_mtx` held (`tcp_client.cpp:94`,
   `tcp_client.h:112`). `connect()` does so at `:77`.
4. `copy_slist` returns the first node as the last (`slist.cpp:11-17`, `test/slist.cpp:259`).

Three more are as serious. The models have them, the properties of the passing runs name them as their only
exceptions, and a property that says there are none stands at the end of its module; TLC refutes it when it is
added to the run given here as an INVARIANT:

5. The worker reads the clock once and then runs what is due (`executor.cpp:52`, `:60-64`): what these
   invocables take is missing in the timeout of `poll()`, and the next one is late by it
   (`executor.h:99-101`). By no more than it: `OversleepIsBounded`. (`PollEndsInTime` in `Executor_timers` with
   `Preempted = FALSE`: time passes only where the worker runs user code, waits or is in libcurl.)
6. `execute_awaiter::data` declares the awaiter before the handle (`webclient.cpp:163-164`), so that the
   handle dies while the stop callback is still registered: a stop request then locks its destroyed
   mutex (`executor.cpp:132`), which `test/webclient.cpp:31-34` takes for granted that it may be made at any
   time. In the same way a token that is stopped already makes the constructor of `m_exec` lock a handle that is not
   constructed yet. Nothing else is used outside its life: `NoUseAfterDestroy`. (`HandleLivesLongEnough` in
   `Transfer`.)
7. `~tcp_client` takes the handlers without `m_mtx` (`tcp_client.cpp:15-18`). If the worker is in a
   handler that has queued its result (`:118`, `:184`) and is not cleared yet (`:54`, `:62`), `recv` and `send`
   call back a second time; `recv_all` and `send_all` have moved their callback, and the second call is that of an
   empty function, which ends the program (`tcp_client.h:136`). Everywhere else there is one callback:
   `OneCallback`. (`NotCalledAgain` in `TcpClient_threads`.)

Weaker disagreements that appeared while the properties were being stated; they are not
runs, and the properties are worded around them.

Executor and handle:

- A push after the last pop is dropped at exit (`executor.cpp:41`), as are scheduled
  invocables and transfers added by the last drain: `Dispatcher` promises execution only until
  `Close`, `OwnWorkRunsBeforeExit` speaks of the worker's own work.
- A scheduled invocable runs up to 100 ms early (`executor.cpp:56`): `Slack`.
- `handle::reset` does not restore `CURLOPT_NOSIGNAL`, which the constructor sets
  (`handle.cpp:24`, `:231-232`), although `handle.h:198` speaks of the state of a freshly constructed
  handle. `LibcurlAgrees` is about what libcurl points to and does not mention that option.
- `set_readstream` returns the number 42 when the stream has failed, which libcurl takes for a
  count of bytes (`handle.cpp:152`): `SendsBody` is about streams that do not fail.

`tcp_client`:

- The pause bit is set after the callback returned and outside `m_mtx` (`executor.cpp:89-95`, and by
  the write and read callbacks at `handle.cpp:108` and `:138`): a `pause_receive(false)` or `recv()`
  of another thread in between is undone. It takes a direction that runs without an operation of
  its own: `TcpClient_worker`, which checks `NoLostUnpause`, and its theorem have `Observers = {}`; with
  observers on another thread the property fails, and it is not among those of `TcpClient_threads`.
- A reset connection makes `handle::recv` throw on the worker, whose function is
  `noexcept` (`handle.cpp:255`, `executor.cpp:19`): `W_CallbackThrows` leads to `terminated`.
- `m_mtx` and the handlers are members behind `m_handle` (`tcp_client.h:266-271`) and are destroyed before
  it, and only then `~handle` waits for the worker (`handle.cpp:28`): until it has removed the
  handle, a callback may lock a mutex or look at a handler that is gone. A `std::move` of a handler in `:16-17` that
  comes while a callback uses it is a data race; the model has its outcomes as far as the handler was
  there or not. What `DestroyedIsUnused` says begins where the destructor returns, or, for a client that is not connected,
  where it starts.
- When the worker itself destroys the client, or when `disconnect()` has not called back yet, the queued
  closures, which captured `this` (`:116-118`), run afterwards; `Destroy` is modelled where neither is the case.

`websocket`:

- After `close()`, data frames already received are still given to `on_message`, and the
  handshake's leftover data is handled before anything else (`websocket.cpp:352-355`). That call reads
  the socket first: if it sees the end of the stream it reports the disconnect and drops the
  frames that are already there (`:355`, `:412-414`; `SeesEnd` in `Frames`).
- A length field near 2^64 makes `header_len + payload_len` wrap (`:435`): the frame is taken for complete, and what is
  left of its header is parsed as a frame. `FramesWhole` says that nothing else makes the parser lose its place.
- The assertion of `:419` fails for a read that fills the buffer exactly; a build without
  assertions goes on. `Receives` has both.
- A first text fragment that is not UTF-8 fails the connection but leaves `fragment_code`
  set, and `fragment_validate_offset` as an earlier message left it (`:530-537`). `close(1007)` waits for
  the reply of the server, so that continuations may still come, and they are validated from an
  offset that may lie behind the text (`:576`). `TextFragments` follows a connection up to
  the first `close(1007)`.
- `~websocket` calls `close()` without `mtx` (`:186-193`): with a destructor on
  another thread the server's close and the destructor's may both be reported, so that
  `CloseReportedOnce` is checked with destructors excluded.

Requests and values:

- A status line without a reason, as every HTTP/2 answer has, does not clear the headers
  (`webclient.cpp:54-56`): behind a redirect those of several answers mix. `ResponseIsTheLast` leaves
  such transfers out; `webclient.h:49` promises the last request's info.
- `uri::decode` passes a length of 0 on to libcurl, for which it means "up to the NUL" (`uri.cpp:93`): an empty value or
  key is decoded to all that is behind it in the text. `a=&b=c` gives `a` the value `&b=c`, which does not
  come back, as it is followed by other text when it is written again, or by none. `UriRoundTrip` therefore
  speaks of form data in which no value is empty once parsed; an empty key comes back.
- `await_resume` fills in no cookies (`webclient.cpp:183`), unlike `execute_sync` (`:153-156`).
- `a:/b`, with one slash, parses with the path `b` (`uri.cpp:9-16`) and is written as `a://b`, whose host
  is `b`: `UriRoundTrip` leaves it out. A port without digits, or with too many, makes `std::stoi` throw through
  `parse`, which returns an optional (`:35`, `:40`). `query(...)` leaves the cache of `query_parsed()` as it
  was (`uri.h:45`).
- base64 decoding reads behind a text of 4n + 1 characters (`base64.cpp:64`); no encoder writes one.
- `sha1::update` counts in 32 bits, so that a piece of 4 GiB never ends (`sha1.cpp:150`, `:159`).
- The byte 0xFF makes `countl_one` 8 and shifts by -1 (`util.h:69`) before it is refused; `Verdict` refuses it.
- Two constructors of `cookie` leave both flags uninitialised (`cookie.h:42`); the model's
  cookies have them set.

## 4. Fairness

- *The worker* is a thread the operating system schedules: weak fairness on its steps. User
  code on it returns.
- *A thread inside a call* proceeds: weak fairness on the steps inside `push`, `schedule`,
  `connect`, `send`. Nobody is obliged to start a call, to stop, or to destroy.
- *libcurl* does not ask for `perform()` again at once for ever (`SF` on `W_Timeout`); a
  transfer that is driven again and again ends (`SF` on its completion, in `Executor`;
  `TransfersComplete`, an assumption of the one property that needs it, in `Transfer`);
  `poll()` eventually reports only sockets that are ready (`SF` on `W_Poll` without a
  spurious report).
- *The peer* reads what is sent and ends its stream at some time. Without the first
  `send_all` may wait for ever, without the second a `recv` may.

The modules of `Values` state no fairness: nothing in them has to happen, a caller may stop
anywhere.

## 5. Proofs

All theorems hold for every value of the constants that satisfies the assumptions named in
the modules (`IdAssumption`, `TimeAssumption`, `TransferAssumption`, `ClientAssumption`, `WebSocketAssumption`,
`HandleAssumption`, `RequestAssumption`, `FramesAssumption`, `B64Assumption`, `TextAssumption`, `ListAssumption`,
`Sha1Assumption`, `UriAssumption`): any number of
threads, invocables, transfers, calls, options, frames, nodes, any texts of bytes, any size and any bound.

**Executor** (`ExecutorProofs`, each `THEOREM ... == Safe => []...`). `TypeOK` is inductive as
it stands, since it says in which phases the mutex is held and when `cur` is set. On top of it:

- `NoWakeupIsLost`: `WakeInv` adds to `NoLostWakeup` that an identity queued by another
  thread is no longer fresh, without which the worker could push it a second time.
- `NoExitIsLost`: inductive relative to `TypeOK`; the case that matters is the check of
  `m_exit`, which leaves the loop unless a transfer is running.
- `OversleptByPhaseOnly`: `TimerInv` adds to `OversleepIsBounded` that in the scheduled phase the clock is ahead of
  `schedNow` by exactly what was counted (`ClockRead`). The mutex keeps a foreign `schedule()` out while the timeout
  is computed, and every later one is about to wake. Without the slack of `behind` the property is false
  (disagreement 5).
- `OwnWorkIsRun`: `OwnWorkInv` says that between the last pop and the exit only foreign
  threads can have queued something.

**Refinement** (also in `ExecutorProofs`). `ExecutorActsAsDispatcher` assumes
`OneSidedSchedule` (without it the race above loses an invocable) and shows that each step
is a step of `Dispatcher` or a stutter. `PlaceInv`, its invariant, says that fresh identities and
attached handles are nowhere else yet, that no invocable is scheduled twice, and that the tree
a thread emplaces in is the one it has read. The theorem is about the safety part; `ImplementsDispatcher`, with fairness, is checked by `Executor_queue`.

**Transfer** (`TransferProofs`, all under `~StopWhileAdding`, that is outside the window of disagreement 2; a stop request
before the handle is made, or between `~handle` and the end of the awaiter, is included). `IInv` adds to `TypeOK`: `OneOwner` (the right to resume a
coroutine is in one place: the handle, the stop callback, or one queued closure, until it is used),
`QueueOrder` (of two queued closures of one transfer the first attaches it and the second resumes it), `Phases`
(what is attached follows from where `await_suspend` is), `Lifetimes` (who may still be
dereferenced). From it follow `ResumedOnce`, `ResumedMeansFinished` and `NoUseAfterDestroy`.

That a stop request may find the handle of an `execute_awaiter` gone is
the exception in `NoUseAfterDestroy`; the theorem is that there is no other. `TypeOK` (`TypesHold`) needs no restriction.

**TcpClient** (`TcpClientProofs`). None of the properties is inductive. `IInv` consists of:

- `Owned(d)`, for the directions that are not `torn`: an operation in a direction has one owner, its handler or one queued closure, and
  the owner knows the bytes it moved so far. It is what `OneCallback` and `BytesAccounted` say, together
  with what an owner must know to hand the operation on: that a handler of `recv_all` or
  `send_all` still wants bytes, that a closure with a short count belongs to a connection that
  was cut, and that handlers exist only while connected, so that `disconnect()` finds them all.
- `EndOfStream`: a reader that waits at a closed stream will see it cut, without which a count of 0
  could not be justified (`AllOrClosed`).
- `Turns`: one thread at a time is inside `connect`, `disconnect` or the destructor, and the
  closure it waits for is the only one of its kind. This is the mutex together with the
  queue, and what makes the worker's answer go to the thread that asked.
- `Phases`: from where such a thread stands follows whether the handle is attached and the client
  connected. `ConnectedIsDriven` needs it at every step that takes the handle out.
- `Spending`: a handler that has run is in its place only until the worker clears it, and a queued closure
  holds one only if the destructor came in between, in a direction that is then `torn`.
- `Ending`: the destructor's own closures come before the one it waits for (`Ordered`), so that the queue
  holds none of them when it returns (`DestroyedIsUnused`).

The destructor is in these theorems at every point of a callback. That it can take a handler which has
just run is a fault of the code (disagreement 7); what the theorems say is that `OneCallback`, `BytesAccounted` and
`AllOrClosed` hold in every direction where it does not, and that it is the only way in which they can fail.

`NoUnpauseIsLost` rests on an invariant of its own, `Flow`, under `Observers = {}`: a direction runs only
while a handler waits in it, and the worker pauses one only between a handler's result and its
callback, while no other operation can be started there.

The step of `IInv` is split by what an action does to the queue: it leaves it alone (`...Quiet`), appends
results or the destructor's closures, or takes the first. `Spares`, `AddedSpares` and `PoppedSpares` carry
the ownership of the *other* direction across each of these once and for all.

**WebSocket** (`WebSocketProofs`). `TypesHold` needs that nothing runs before `connect()`, as a
second task or handler would be lost there. On top of the types:

- `NoFrameIsLost`: inductive as it stands.
- `SendsAreAnsweredOnce`: `AnswerInv` counts the owners of every call (its answer, frames in the queue, the
  frame being sent, the thread that makes it), which are as many as calls made: one or none. The lemmas on `Count` say
  what appending, taking the first and emptying do to a number of elements.
- `CloseIsReportedOnce`, under `Destroyers = {}`: `Undisturbed` says that `server_close` is acted on by nobody but the
  handler that replies to it, and that nothing is closed before the connection is open, which is
  why setting `open` after `on_open(0)` cannot undo a close.
- `MessagesAreWhole`: `FragmentInv` says of the fragments collected so far what `WholeMessages` says of a
  message, the last frame excepted.

**Handle** (`HandleProofs`): `HandleAgrees`. `HandleInv` adds `OwnedByOne`: two options never share a list,
without which replacing one would free the other's.

**Request** (also in `HandleProofs`): `LastResponseIsReported`, for any header lines, cookies, bodies and
answers. `RequestInv` has one conjunct per thing that the end of a transfer relies on: libcurl was told what the
request says (`CurlFollowsRequest`), an answer that is not noted as early comes when all of the body was sent (`BodyIsSent`), what was
collected so far is what the server sent since its last status line (`ResponseFollowsServer`), and the cookies are
read from the lines in libcurl's jar (`CookiesAreRead`), whoever put them there. `CookieRoundTrip` is about the texts: a cookie that can be written as a line
is read back from it, whatever its values. It goes over the parts between the tabs (`Joined`), of which `PullPart`
takes the first while each of the others is free of tabs, and covers the `true` and
`false` of the flags and the digits of the expiry (`Written`, `stoull`).

**Slist** (also in `HandleProofs`): `ListsHoldTheirItems` and `NodesAreOwnedOnce`, for any number of lists, nodes and
strings, under `MaxCopied <= 1`: a longer copy leaves `m_last_node` at its first node (disagreement 4), after
which `append` cuts the rest off, so that without the hypothesis both are false. Neither
is inductive: `SlistInv` says that there is, for each list, a sequence of nodes from first to last along
`next` (`Represents`) with the list's items as data and that no two of them have a node in common. An
insertion or removal then changes one sequence in one place. That `Walk`, and with it
`ChainOf` and `Contents`, follows that sequence is an induction over its length (`LeastNumber`).

**Frames** (`CodecProofs`): `FramesAreWhole`, for any sizes of frames and reads and any width of the sum. `FramesInv` adds
`Contiguous` (frames follow each other without a gap, so that a place in the stream starts at most one),
`Bounded` (`parser_data` is a part of the stream) and `Fields` (only a length of eight bytes can be near the width).
`LostInv` takes over at a frame that wraps; `SizeOf` says that every other size is the sum.

**Base64** (also in `CodecProofs`): `DecodersInvertEncoders`, for bytes of any length, by cases on the place of a
character in its group of four and of a byte in its group of three; what both
alphabets and both paddings have in common is `Encodes`. `RoundTrips` states it of the model.

**Texts** (also in `CodecProofs`): `TextsAreJudgedAsWhole`, for any texts of bytes, cut into fragments anywhere.
`TextInv` says that the offset kept between fragments is where validating the payload so far stopped, that this
payload is not invalid, and that an outcome is the verdict `Validate` gives on the whole text. Two arguments carry it:

- Pieces are the whole. `Validate` walks over the text, a character at a time (`From`, proved from the right end by
  `FromTheRight`). The walk over the end of a text is the rest of the walk over all of it (`FromRest`), and a longer
  text only prolongs it (`FromExtends`), so that going on at the offset gives the verdict on everything
  (`PieceByPiece`). What is invalid stays invalid whatever follows (`InvalidStays`).
- The whole is the standard's. The walk passes a place exactly if the table has a character there (`CharAt`): `Ones`
  gives the length of the sequence, and of the code point it is arithmetic that the surrogates, the overlong forms and
  what lies beyond U+10FFFF are those the table leaves out (`ForbiddenOfTwo`, `ForbiddenOfThree`, `ForbiddenOfFour`).
  Hence a text is valid exactly if it is `WellFormed` (`WellFormedIs`).

**Sha1** (also in `CodecProofs`): `MessageIsPadded`, for blocks and words of any size with `Sha1Assumption` and a
message in any pieces. `Holds(s, m)` says that `s` is what `m` leaves: its whole blocks, the rest in `m_buffer`, and in `m_count` the
number of its bits, high word last (`Bits`). `UpdateHolds` proves that `update()` takes what holds `m` to what holds `m` with the piece
behind it, in three cases: the piece stays in the buffer, completes one block, completes several; that the carry is
right is quotient and remainder (`BitsOf`). `finish()` is then a chain of such calls, one for 0x80, one for each zero until the
buffer is used up to 8 bytes before its end, and one for the length, and `Padded` counts the same zeros.

**Uri** (`UriProofs`): `UriComesBack`, for any texts over `UriChars`. The only invariant is that the text is one; the
property is about what `parse` and `to_string` do with it. Each part of a parsed uri lacks what would have ended
it, and so the search for a delimiter in the text put together again stops where it did: `CutOff` and `CutJoin` for the first
delimiter, `LastJoin` for the colon before a port, `EndJoin` for the end of the scheme. It goes from the right:
path, query and fragment (`RestIs`, `RestAgain`), host and port (`HostPort`, `HostAgain`), user info (`AuthorityIs`,
`AuthorityAgain`), scheme (`ParsedParts`, `TextParsed`). Paths and form data are an induction along the walk of `Split`
(`SplitPieces`): its pieces are not empty and free of the delimiter, and putting such pieces together and splitting the
result gives them back (`PathAgain`, `FormAgain`). What is decoded is never the empty text, as long as no value is empty, and
`decode` then does not look behind it.

`QueueLemmas` states once what appending to a sequence and taking its tail do to its
elements and their order, that a set of numbers that is not empty has a least one (`LeastNumber`), and that a recursive
function on an interval satisfies its equation (`FromTheLeft`, `StepRecursion`). The library's
induction theorems take an operator as parameter, which the installed provers cannot
instantiate; with the least counterexample an induction over the length of a list or a text is a proof
by contradiction that needs no such parameter.

Only model-checked: all liveness, since fairness and `ENABLED` are outside the prover's reach (of
`ImplementsDispatcher` it is the part that `ExecutorActsAsDispatcher` does not cover). Every invariant and
every action property without fairness that a passing run checks is a theorem.

## 6. Not modelled

- permessage-deflate (`websocket.cpp:621`, one zlib stream used by several senders): zlib is
  external, and what could go wrong is the order of bytes inside it.
- A second `connect()` on one `websocket` object, which starts a second `send_task` over the state of
  the first; several connect-only handles in one executor, one destroying another in its
  callback (`executor.cpp:90`). Both need a second instance of what `WebSocket` and `TcpClient` have as
  variables.
- Destroying a `tcp_client` on the worker, or before `disconnect()` has called back: the
  code uses it afterwards, see above. So it does with the members that die before `m_handle`.
- The compression of a block in `sha1`, arithmetic on words without a decision: an opaque function.
- `string_split` and `case_insensitive_less` of `util.h`, setters and comparisons of `uri` and `cookie`, the
  option setters and info getters of `handle`, `multi::wait` and `fdset`, which pass values on; MIME.
- Of a request, the method, timeouts, credentials and hooks. `prepare_handle` sets the method as a
  custom request, `HEAD` included.
- `version` and `exception`, tables of constants and an error class; `curl.h`, which collects headers; logging.
- Running out of memory.

libcurl itself, the C++ library's mutexes, promises and `stop_callback`, and asyncpp's
`threadsafe_queue`, `single_consumer_event` and `async_launch_scope` are taken as documented.

## 7. Plan

The order is by importance: executor, then what rests on it.

1. Done: `Dispatcher`, `Executor`, `Transfer`, `TcpClient`, `WebSocket`, `Slist` and their runs; the parsers and
   codecs below them in `Values`; proofs of `Executor`, its refinement, `Transfer`, `TcpClient`,
   `WebSocket`, `Handle`, `Request`, `Cookie`, `Slist`, `Frames`, `Base64`, `TextFragments`, `Sha1` and `Uri`.
2. Left: several connect-only handles in one executor; reconnecting a websocket. Both need a second instance of
   what are variables now.
