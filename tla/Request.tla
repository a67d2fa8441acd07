------------------------------- MODULE Request -------------------------------
(***************************************************************************)
(* http_request (webclient.cpp) from the caller's side of a transfer: how   *)
(* the handle is prepared, what libcurl's callbacks make of the server's    *)
(* header lines and body, how the request's body is read, and the response  *)
(* that execute_sync returns or await_resume gives.  How a transfer is      *)
(* driven and awaited is in Executor.tla and Transfer.tla.                  *)
(***************************************************************************)
EXTENDS Cookie

CONSTANTS
  BodySize,      (* bytes of the request's body                             *)
  Cookies,       (* the cookies a caller or the server may send             *)
  MaxCookies,    (* bound: with so many cookies libcurl takes no further one*)
  MaxLines,      (* bound: status lines and fields the server sends         *)
  MaxBody        (* bound: bytes of the response's body                     *)

ASSUME RequestAssumption ==
  /\ BodySize \in Nat \ {0} /\ MaxCookies \in Nat /\ MaxLines \in Nat /\ MaxBody \in Nat
  /\ Cookies \subseteq CookieValues

VARIABLES
  request,       (* [body, store, sync, cookies]                            *)
  curl,          (* what libcurl was told of the body, [upload, size], and  *)
                 (* its cookies, as `jar`                                   *)
  pos,           (* bytes of the body read, from the string or the stream   *)
  response,      (* http_response                                           *)
  phase,         (* "new", "sending", "headers", "body", "done", "failed"   *)
  server         (* history: the responses so far, of the last one its      *)
                 (* fields and body and whether it came before the whole    *)
                 (* request was sent, and whether each gave a reason        *)

requestVars == <<request, curl, pos, response, phase, server>>

NoResponse == [status_code |-> 0, status_message |-> 0, headers |-> <<>>, cookies |-> <<>>, body |-> 0]

RequestInit ==
  /\ request = [body |-> "no_body", store |-> "inline_body", sync |-> TRUE, cookies |-> <<>>]
  /\ curl = [upload |-> FALSE, size |-> -1, jar |-> <<>>]
  /\ pos = 0 /\ response = NoResponse /\ phase = "new"
  /\ server = [responses |-> 0, fields |-> <<>>, body |-> 0, early |-> FALSE,
               lines |-> 0, reasons |-> TRUE]

(* How libcurl lists a cookie: with "#HttpOnly_" before the domain of one   *)
(* that scripts do not see, and a dot if, and only if, it is for subdomains.*)
Marked(c, httponly) ==
  LET bare == IF c.domain # <<>> /\ c.domain[1] = DotChar THEN Tail(c.domain) ELSE c.domain IN
  [c EXCEPT !.domain = (IF httponly THEN <<HttpOnlyWord>> ELSE <<>>)
                         \o (IF c.include_subdomains THEN <<DotChar>> ELSE <<>>) \o bare]

(* A cookie of libcurl's: the line that CURLINFO_COOKIELIST has for it, and *)
(* as history the cookie that line stands for.                              *)
Listed(c, httponly) == [line |-> CookieLine(Marked(c, httponly)), is |-> Marked(c, httponly)]

(* prepare_handle: an upload is announced for a body only, with its size if *)
(* that is known; the cookies are given to libcurl as lines.                *)
Prepare(body, store, sync, cookies) ==
  /\ phase = "new"
  /\ request' = [body |-> body, store |-> store, sync |-> sync, cookies |-> cookies]
  /\ curl' = [upload |-> body # "no_body",
              size |-> IF body = "string" THEN BodySize ELSE -1,
              jar |-> [i \in 1..Len(cookies) |-> Listed(cookies[i], FALSE)]]
  /\ phase' = "sending"
  /\ UNCHANGED <<pos, response, server>>

(* set_readstring's callback, or set_readstream's on a stream that did not  *)
(* fail: as much as there is room for, and then 0.                          *)
ReadBytes(size) == IF BodySize - pos < size THEN BodySize - pos ELSE size

(* libcurl asks for up to `size` bytes until it has the announced size, or  *)
(* gets 0 where none was announced.  It may go on after an early answer.    *)
SendsBody(size) ==
  /\ phase \in {"sending", "headers", "body"} /\ curl.upload
  /\ ReadBytes(size) > 0 /\ pos # curl.size
  /\ pos' = pos + ReadBytes(size)
  /\ UNCHANGED <<request, curl, response, phase, server>>

SentAll == curl.upload => IF curl.size = -1 THEN ReadBytes(1) = 0 ELSE pos = curl.size

-------------------------------------------------------------------------------
(* Mutant of StatusLine: the headers of an earlier response stay.           *)
StatusLineKeeps(r, reason, number) ==
  IF reason THEN [r EXCEPT !.status_message = number] ELSE r

(* The header callback for a status line: without a reason behind the code  *)
(* it does nothing.                                                         *)
StatusLine(r, reason, number) ==
  IF reason THEN [r EXCEPT !.status_message = number, !.headers = <<>>] ELSE r

(* A response begins: the first, or the next one after an interim response  *)
(* or a redirect.  A server need not wait for the request's body.           *)
ServerResponds(reason) ==
  /\ phase = "sending" /\ server.lines < MaxLines
  /\ server' = [responses |-> server.responses + 1, fields |-> <<>>, body |-> 0, early |-> ~SentAll,
                lines |-> server.lines + 1, reasons |-> server.reasons /\ reason]
  /\ response' = StatusLine(response, reason, server.responses + 1)
  /\ phase' = "headers"
  /\ UNCHANGED <<request, curl, pos>>

(* ... and for a field, which may also be a trailer.                        *)
ServerField ==
  LET field == <<server.responses, Len(server.fields)>> IN
  /\ phase \in {"headers", "body"} /\ server.lines < MaxLines
  /\ server' = [server EXCEPT !.fields = Append(@, field), !.lines = @ + 1]
  /\ response' = [response EXCEPT !.headers = Append(@, field)]
  /\ UNCHANGED <<request, curl, pos, phase>>

(* A Set-Cookie field: libcurl keeps the cookie.                            *)
ServerSetsCookie(c, httponly) ==
  /\ phase = "headers" /\ Len(curl.jar) < MaxCookies /\ Writable(c)
  /\ curl' = [curl EXCEPT !.jar = Append(@, Listed(c, httponly))]
  /\ UNCHANGED <<request, pos, response, phase, server>>

(* libcurl drops a cookie that has expired or that the server takes back or *)
(* sets anew, or refuses one it was given.                                  *)
CookieGoes(i) ==
  /\ phase \in {"sending", "headers"} /\ i \in 1..Len(curl.jar)
  /\ curl' = [curl EXCEPT !.jar = RemoveAt(@, i)]
  /\ UNCHANGED <<request, pos, response, phase, server>>

(* The empty line: the body follows, or after an interim response or a      *)
(* redirect the next response.  libcurl gives up on a redirect that needs   *)
(* the body again, as nothing rewinds it.                                   *)
HeadersEnd(next) ==
  /\ phase = "headers" /\ phase' = next
  /\ next = "failed" => pos > 0
  /\ UNCHANGED <<request, curl, pos, response, server>>

(* set_write_cb: the body is appended or, for ignore_body, dropped.         *)
ServerBody(n) ==
  /\ phase = "body" /\ server.body + n <= MaxBody
  /\ server' = [server EXCEPT !.body = @ + n]
  /\ response' = [response EXCEPT !.body = IF request.store = "ignore_body" THEN @ ELSE @ + n]
  /\ UNCHANGED <<request, curl, pos, phase>>

(* The cookies of libcurl's list.                                           *)
ResponseCookies(jar) == [i \in 1..Len(jar) |-> CookieOf(jar[i].line)]

(* execute_sync behind perform(), or await_resume, which takes no cookies.  *)
Completes ==
  /\ phase = "body" /\ phase' = "done"
  /\ response' = [response EXCEPT
       !.status_code = server.responses,
       !.cookies = IF request.sync THEN ResponseCookies(curl.jar) ELSE @]
  /\ UNCHANGED <<request, curl, pos, server>>

(* A connection lost: both ways to execute throw.                           *)
Fails ==
  /\ phase \in {"sending", "headers", "body"} /\ phase' = "failed"
  /\ UNCHANGED <<request, curl, pos, response, server>>

RequestNext ==
  \/ \E b \in {"no_body", "string", "stream"}, s \in {"ignore_body", "inline_body"},
       y \in BOOLEAN, c \in Cookies : Prepare(b, s, y, <<c>>)
  \/ \E n \in 1..BodySize : SendsBody(n)
  \/ \E r \in BOOLEAN : ServerResponds(r)
  \/ ServerField
  \/ \E c \in Cookies, h \in BOOLEAN : ServerSetsCookie(c, h)
  \/ \E i \in 1..MaxCookies : CookieGoes(i)
  \/ \E next \in {"body", "sending", "failed"} : HeadersEnd(next)
  \/ ServerBody(1)
  \/ Completes
  \/ Fails

RequestSpec == RequestInit /\ [][RequestNext]_requestVars

-------------------------------------------------------------------------------
WholeBody == IF request.body = "no_body" THEN 0 ELSE BodySize

(* A request that succeeds reports the last response, not a mixture of it   *)
(* with those that came before it, and as its cookies those that libcurl    *)
(* has then, sent by the caller or set by a server; await_resume reports    *)
(* none.  It has sent its whole body, unless it was answered before; libcurl*)
(* never takes a part of the body for all of it (webclient.cpp:42-158,      *)
(* webclient.h:49).  Status lines without a reason are left out: with them  *)
(* the headers do mix.                                                      *)
ResponseIsTheLast ==
  /\ phase # "new" /\ SentAll => pos = WholeBody
  /\ phase = "done" =>
       /\ server.reasons => /\ response.headers = server.fields
                            /\ response.status_message = server.responses
       /\ response.body = IF request.store = "ignore_body" THEN 0 ELSE server.body
       /\ server.early \/ pos = WholeBody
       /\ (\A i \in 1..Len(curl.jar) : Writable(curl.jar[i].is)) =>
            response.cookies = IF request.sync THEN [i \in 1..Len(curl.jar) |-> curl.jar[i].is]
                               ELSE <<>>

===============================================================================
