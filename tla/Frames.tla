------------------------------- MODULE Frames -------------------------------
(***************************************************************************)
(* How raw_on_data_available (websocket.cpp) cuts the bytes of a connection *)
(* into frames.  A byte is its place in the stream, so parser_data is an    *)
(* interval of it; what a frame's header says is known once the header is   *)
(* there.  What handle_frame makes of a frame is in WebSocket.tla.          *)
(***************************************************************************)
EXTENDS Integers, Sequences

CONSTANTS
  Payloads,      (* payload sizes of the server's frames                    *)
  Chunk,         (* bytes recv_raw has room for: 64 * 1024 in the code      *)
  MaxFrames,     (* bound: frames the server sends                          *)
  MaxHandshake,  (* bound: bytes of frames read together with the handshake *)
  ShortMod,      (* the two-byte length field holds less: 2^16 in the code  *)
  SizeMod        (* the eight-byte one and size_t hold less: 2^64           *)

ASSUME FramesAssumption ==
  /\ Payloads \subseteq Nat /\ Chunk \in Nat \ {0} /\ MaxFrames \in Nat /\ MaxHandshake \in Nat
  /\ ShortMod \in Nat /\ SizeMod \in Nat
  /\ ShortMod + 8 <= SizeMod /\ 126 + 6 <= SizeMod
  /\ \A p \in Payloads : p < SizeMod

VARIABLES
  sent,                  (* the server's frames                             *)
  ended,                 (* the stream ends after them                      *)
  lo, hi,                (* parser_data holds the bytes lo..(hi - 1)        *)
  parser_wanted_size,
  parser,                (* "handshake", "opened", "idle", "parsing",       *)
                         (* "cleared", "aborted" by the assertion, or       *)
                         (* "lost" in the middle of a frame                 *)
  handled                (* history: the payloads given to handle_frame     *)

framesVars == <<sent, ended, lo, hi, parser_wanted_size, parser, handled>>

(* The length field takes none, two or eight further bytes; a client wants  *)
(* no mask, which would take four.                                          *)
HeaderLen(f) == 2 + f.ext + (IF f.masked THEN 4 ELSE 0)

FrameEnd(f) == f.start + HeaderLen(f) + f.payload

(* header_len + payload_len, in 64 bits: only a length field near 2^64 makes *)
(* it wrap.                                                                 *)
FrameSize(f) == (HeaderLen(f) + f.payload) % SizeMod

Wraps(f) == HeaderLen(f) + f.payload >= SizeMod

SentBytes == IF sent = <<>> THEN 0 ELSE FrameEnd(sent[Len(sent)])

FramesInit ==
  /\ sent = <<>> /\ ended = FALSE
  /\ lo = 0 /\ hi = 0 /\ parser_wanted_size = 2
  /\ parser = "handshake" /\ handled = <<>>

ServerSends(ext, masked, payload) ==
  /\ ~ended /\ Len(sent) < MaxFrames
  /\ ext = 0 => payload < 126
  /\ ext = 2 => payload < ShortMod
  /\ sent' = Append(sent, [start |-> SentBytes, ext |-> ext, masked |-> masked, payload |-> payload])
  /\ UNCHANGED <<ended, lo, hi, parser_wanted_size, parser, handled>>

ServerEnds ==
  /\ ~ended /\ ended' = TRUE
  /\ UNCHANGED <<sent, lo, hi, parser_wanted_size, parser, handled>>

(* handshake_task: what was read behind the response is the first of        *)
(* parser_data, and raw_on_data_available is called once for its sake.      *)
HandshakeDone(n) ==
  /\ parser = "handshake" /\ n \in 0..SentBytes
  /\ hi' = n /\ parser' = "opened"
  /\ UNCHANGED <<sent, ended, lo, parser_wanted_size, handled>>

(* raw_on_data_available up to the loop.  recv_raw gets some bytes, none, or*)
(* the end of the stream; a call may also be the one that cancels.  A read  *)
(* that fills the room it was given fails the assertion where assertions    *)
(* are compiled in (websocket.cpp:419).                                     *)
Receives(n) ==
  /\ parser \in {"opened", "idle"} /\ n \in 0..Chunk /\ hi + n <= SentBytes
  /\ hi' = hi + n
  /\ parser' \in IF n = Chunk THEN {"parsing", "aborted"} ELSE {"parsing"}
  /\ UNCHANGED <<sent, ended, lo, parser_wanted_size, handled>>

SeesEnd ==
  /\ parser \in {"opened", "idle"} /\ ended /\ hi = SentBytes
  /\ parser' = "cleared"
  /\ UNCHANGED <<sent, ended, lo, hi, parser_wanted_size, handled>>

Cancelled ==
  /\ parser = "idle" /\ parser' = "cleared"
  /\ UNCHANGED <<sent, ended, lo, hi, parser_wanted_size, handled>>

Larger(a, b) == IF a > b THEN a ELSE b

(* Mutant of WantedAfter: what a frame wanted is still wanted after it.     *)
WantedAfterKept(wanted) == wanted

(* parser_wanted_size after a frame that wanted that much.                  *)
WantedAfter(wanted) == 2

Wait(wanted) ==
  /\ parser_wanted_size' = wanted /\ parser' = "idle"
  /\ UNCHANGED <<sent, ended, lo, hi, handled>>

(* substr() ends with parser_data, and erase() removes FrameSize bytes: what *)
(* is parsed next after a frame that wraps is inside its header.            *)
ParsesFrame(f, wanted) ==
  LET there == hi - lo - HeaderLen(f) IN
  /\ handled' = Append(handled, [from |-> lo + HeaderLen(f),
                                 size |-> IF there < f.payload THEN there ELSE f.payload])
  /\ parser_wanted_size' = WantedAfter(wanted)
  /\ lo' = lo + FrameSize(f)
  /\ parser' = IF Wraps(f) THEN "lost" ELSE parser
  /\ UNCHANGED <<sent, ended, hi>>

(* The header f is at the head of parser_data: wait for the rest of it, for *)
(* the rest of the frame, close(1002) and leave it there, or handle it.     *)
Parses(f) ==
  LET header == Larger(parser_wanted_size, HeaderLen(f))
      frame == Larger(header, FrameSize(f)) IN
  IF hi - lo < header THEN Wait(header)
  ELSE IF hi - lo < frame \/ f.masked THEN Wait(frame)
  ELSE ParsesFrame(f, frame)

(* One turn of the loop.  parser_data begins where a frame does, which      *)
(* FramesWhole states.                                                      *)
ParserTurn ==
  /\ parser = "parsing"
  /\ IF hi - lo < parser_wanted_size
       THEN Wait(parser_wanted_size)
       ELSE \E k \in 1..Len(sent) : sent[k].start = lo /\ Parses(sent[k])

FramesNext ==
  \/ \E ext \in {0, 2, 8}, masked \in BOOLEAN, p \in Payloads : ServerSends(ext, masked, p)
  \/ ServerEnds
  \/ \E n \in 0..MaxHandshake : HandshakeDone(n)
  \/ \E n \in 0..Chunk : Receives(n)
  \/ SeesEnd
  \/ Cancelled
  \/ ParserTurn

FramesSpec == FramesInit /\ [][FramesNext]_framesVars

-------------------------------------------------------------------------------
FramesTypeOK ==
  /\ sent \in Seq([start : Nat, ext : {0, 2, 8}, masked : BOOLEAN, payload : Nat])
  /\ ended \in BOOLEAN /\ lo \in Nat /\ hi \in Nat /\ parser_wanted_size \in Nat
  /\ parser \in {"handshake", "opened", "idle", "parsing", "cleared", "aborted", "lost"}
  /\ handled \in Seq([from : Nat, size : Nat])

(* The frame at the head of parser_data, handled or not.                    *)
HeadFrame == sent[Len(handled) + 1]

HasHead == Len(handled) < Len(sent)

(* The payloads handed out are those of the server's first frames in order, *)
(* parser_data starts where the next frame does, and between two calls no   *)
(* whole frame is left in it, unless it is masked.                          *)
Whole ==
  /\ Len(handled) <= Len(sent)
  /\ \A k \in 1..Len(handled) :
       handled[k] = [from |-> sent[k].start + HeaderLen(sent[k]), size |-> sent[k].payload]
  /\ lo = IF HasHead THEN HeadFrame.start ELSE SentBytes
  /\ parser_wanted_size > 2 => HasHead /\ parser_wanted_size <= FrameEnd(HeadFrame) - lo
  /\ parser = "idle" /\ HasHead => HeadFrame.masked \/ hi < FrameEnd(HeadFrame)

(* However the bytes are cut up by the reads (websocket.cpp:402-446), frames *)
(* are cut out whole; only a frame whose size does not fit 64 bits makes the *)
(* parser lose its place.                                                   *)
FramesWhole ==
  IF parser = "lost" THEN \E k \in 1..Len(sent) : sent[k].ext = 8 /\ Wraps(sent[k]) ELSE Whole

===============================================================================
