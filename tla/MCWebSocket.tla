---------------------------- MODULE MCWebSocket ----------------------------
(* Instances of WebSocket for TLC: what the server may send.                 *)
EXTENDS WebSocket

F(kind, fin, ok) == [kind |-> kind, fin |-> fin, ok |-> ok]

(* Text whole and in parts, valid and not, binary in parts, and the control  *)
(* frames that may come between them.                                        *)
MessageFrames ==
  {F(k, fin, ok) : k \in {"text", "cont"}, fin \in BOOLEAN, ok \in BOOLEAN}
    \cup {F("binary", FALSE, TRUE)} \cup {F(k, TRUE, TRUE) : k \in {"ping", "close", "masked"}}

(* The frames that make the client close the connection, or leave it alone.  *)
ControlFrames == {F(k, TRUE, TRUE) : k \in {"close", "bad", "pong"}}
=============================================================================
