---------------------------- MODULE TextFragments ----------------------------
(***************************************************************************)
(* The text messages of a websocket byte by byte (websocket.cpp): a message *)
(* is validated as its fragments come in, each time from where the last     *)
(* unfinished sequence began.  WebSocket.tla has the rest of the protocol,  *)
(* with payloads that are only told apart as valid or not; here the         *)
(* messages of one connection are followed up to the first close(1007).     *)
(***************************************************************************)
EXTENDS Utf8

CONSTANTS
  TextBytes,     (* the bytes a peer sends                                  *)
  MaxText,       (* bound: bytes of a message                               *)
  MaxPiece       (* bound: bytes of a frame                                 *)

ASSUME TextAssumption ==
  TextBytes \subseteq 0..255 /\ MaxText \in Nat /\ MaxPiece \in Nat

VARIABLES
  utf8_mode,
  in_fragments,             (* fragment_code = text                         *)
  fragment_payload,
  fragment_validate_offset,
  judged                    (* history: the last text, what became of it,   *)
                            (* and whether that was known to be all of it   *)

textVars == <<utf8_mode, in_fragments, fragment_payload, fragment_validate_offset, judged>>

Unjudged == [text |-> <<>>, whole |-> FALSE, outcome |-> "none"]

TextInit ==
  /\ utf8_mode = "pedantic" /\ in_fragments = FALSE /\ fragment_payload = <<>>
  /\ fragment_validate_offset = 0 /\ judged = Unjudged

(* set_utf8_validation_mode, before connecting.                             *)
SetMode(m) ==
  /\ ~in_fragments /\ judged = Unjudged
  /\ utf8_mode' = m
  /\ UNCHANGED <<in_fragments, fragment_payload, fragment_validate_offset, judged>>

Judge(text, whole, ok) ==
  judged' = [text |-> text, whole |-> whole, outcome |-> IF ok THEN "delivered" ELSE "failed"]

(* A frame of text, first and last of its message.                          *)
WholeText(payload) ==
  /\ ~in_fragments /\ judged = Unjudged
  /\ Judge(payload, TRUE, Validate(utf8_mode, payload).result = "valid")
  /\ UNCHANGED <<utf8_mode, in_fragments, fragment_payload, fragment_validate_offset>>

(* Mutant of GoodUpTo: an unfinished sequence at the end counts as good.    *)
GoodUpToEnd(text, from, v) == Len(text)

(* How far a text that was good up to `from` is good after the verdict v.   *)
GoodUpTo(text, from, v) == from + v.last_pos

(* The payload so far is `text`, of which the first `from` bytes are known  *)
(* to be good.                                                              *)
FailFast(text, from) ==
  LET v == Validate(utf8_mode, SubSeq(text, from + 1, Len(text))) IN
  /\ fragment_payload' = text
  /\ IF v.result = "invalid"
       THEN Judge(text, FALSE, FALSE) /\ UNCHANGED fragment_validate_offset
       ELSE fragment_validate_offset' = GoodUpTo(text, from, v) /\ UNCHANGED judged

FirstFragment(payload) ==
  /\ ~in_fragments /\ judged = Unjudged
  /\ in_fragments' = TRUE
  /\ FailFast(payload, 0)
  /\ UNCHANGED utf8_mode

(* handle_continuation_frame without and with the fin bit.                  *)
MiddleFragment(payload) ==
  /\ in_fragments /\ judged = Unjudged
  /\ FailFast(fragment_payload \o payload, fragment_validate_offset)
  /\ UNCHANGED <<utf8_mode, in_fragments>>

LastFragment(payload) ==
  LET text == fragment_payload \o payload IN
  /\ in_fragments /\ judged = Unjudged
  /\ in_fragments' = FALSE /\ fragment_payload' = <<>>
  /\ Judge(text, TRUE,
           Validate(utf8_mode, SubSeq(text, fragment_validate_offset + 1, Len(text))).result = "valid")
  /\ UNCHANGED <<utf8_mode, fragment_validate_offset>>

(* What became of a delivered message is forgotten: the next one may come.  *)
Forget ==
  /\ judged.outcome = "delivered" /\ judged' = Unjudged
  /\ UNCHANGED <<utf8_mode, in_fragments, fragment_payload, fragment_validate_offset>>

Pieces(n) == UNION {[1..k -> TextBytes] : k \in 0..(IF n < MaxPiece THEN n ELSE MaxPiece)}

TextNext ==
  \/ \E m \in Modes : SetMode(m)
  \/ \E p \in Pieces(MaxText) : WholeText(p) \/ FirstFragment(p)
  \/ \E p \in Pieces(MaxText - Len(fragment_payload)) : MiddleFragment(p) \/ LastFragment(p)
  \/ Forget

TextSpec == TextInit /\ [][TextNext]_textVars

-------------------------------------------------------------------------------
(* The sequences of each mode as the standard's table gives them, by the    *)
(* bytes a sequence may start with and the ones that may come second; below *)
(* it what pedantic and extreme leave out as no character.                  *)
Row(lead, second, rest) == [lead |-> lead, second |-> second, rest |-> rest]

TailBytes == 128..191

Table(m) ==
  IF m = "normal"
    THEN {Row(192..223, TailBytes, 0), Row(224..239, TailBytes, 1), Row(240..247, TailBytes, 2),
          Row(248..251, TailBytes, 3), Row(252..253, TailBytes, 4)}
    ELSE {Row(194..223, TailBytes, 0), Row({224}, 160..191, 1), Row((225..239) \ {237}, TailBytes, 1),
          Row({240}, 144..191, 2), Row(241..243, TailBytes, 2)}
         \cup IF m = "strict" THEN {Row({237}, TailBytes, 1), Row(244..247, TailBytes, 2)}
              ELSE {Row({237}, 128..159, 1), Row({244}, 128..143, 2)}

NoCharacter(m, c) ==
  LET n == Len(c)
      EndOfPlane == (n = 3 /\ c[1] = 239) \/ (n = 4 /\ c[2] % 16 = 15)
  IN  \/ m \in {"pedantic", "extreme"}
         /\ \/ n > 2 /\ EndOfPlane /\ c[n - 1] = 187 /\ c[n] = 191
            \/ n = 3 /\ c[1] = 239 /\ c[2] = 183 /\ c[3] \in 144..175
      \/ m = "extreme" /\ n > 2 /\ EndOfPlane /\ c[n - 1] = 191 /\ c[n] \in {190, 191}

IsCharacter(m, c) ==
  \/ Len(c) = 1 /\ c[1] < 128
  \/ /\ Len(c) > 1 /\ ~NoCharacter(m, c)
     /\ \E r \in Table(m) : /\ c[1] \in r.lead /\ c[2] \in r.second /\ Len(c) = r.rest + 2
                            /\ \A i \in 3..Len(c) : c[i] \in TailBytes

WellFormed(m, s) ==
  LET f[i \in 1..(Len(s) + 1)] ==
        \/ m = "none" \/ i > Len(s)
        \/ \E j \in i..Len(s) : IsCharacter(m, SubSeq(s, i, j)) /\ f[j + 1]
  IN  f[1]

(* Some text that starts with s is well formed.  0x80 and 0xA0 are enough   *)
(* to complete a sequence in every mode.                                    *)
Completable(m, s) ==
  \E k \in 0..5 : \E t \in [1..k -> {128, 160}] : WellFormed(m, s \o t)

(* A text is handed out only if all of it is well formed, is refused at its *)
(* end only if it is not, and before its end only if nothing could have     *)
(* made it so, wherever the frames cut its sequences (websocket.cpp:527-581)*)
FragmentsJudgedAsWhole ==
  CASE judged.outcome = "none" -> TRUE
    [] judged.outcome = "delivered" -> WellFormed(utf8_mode, judged.text)
    [] judged.outcome = "failed" ->
         IF judged.whole THEN ~WellFormed(utf8_mode, judged.text)
                         ELSE ~Completable(utf8_mode, judged.text)

===============================================================================
