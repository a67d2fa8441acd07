------------------------------- MODULE Base64 -------------------------------
(***************************************************************************)
(* base64 and base64url (base64.cpp): characters are numbers, the 64 of the *)
(* base64 table by their place in it, then "=", "-" and "_".                *)
(***************************************************************************)
EXTENDS Integers, Sequences

CONSTANT
  B64Bytes,   (* the bytes that are encoded                                 *)
  B64MaxLen   (* bound: the longest text                                    *)

ASSUME B64Assumption == B64Bytes \subseteq 0..255 /\ B64MaxLen \in Nat

VARIABLE b64_data   (* the bytes to encode                                  *)

Pad == 64
Minus == 65
Underscore == 66

Symbols == 0..Underscore

(* B64index: "-" and "_" stand for "+" and "/", "=" reads as 0.             *)
B64index(c) == CASE c = Minus -> 62 [] c = Underscore -> 63 [] c = Pad -> 0 [] OTHER -> c

(* Item i of s, or 0 behind its end.                                        *)
At(s, i) == IF i \in 1..Len(s) THEN s[i] ELSE 0

(* Character k of the encoding of s: of each three bytes four characters.   *)
EncodedChar(s, k) ==
  LET i == 3 * ((k - 1) \div 4)
      r == (k - 1) % 4 IN
  CASE r = 0 -> At(s, i + 1) \div 4
    [] r = 1 -> 16 * (At(s, i + 1) % 4) + At(s, i + 2) \div 16
    [] r = 2 -> IF i + 2 > Len(s) THEN Pad ELSE 4 * (At(s, i + 2) % 16) + At(s, i + 3) \div 64
    [] r = 3 -> IF i + 3 > Len(s) THEN Pad ELSE At(s, i + 3) % 64

Encode(s) == [k \in 1..4 * ((Len(s) + 2) \div 3) |-> EncodedChar(s, k)]

(* Byte j of what the characters d stand for.                               *)
DecodedByte(d, j) ==
  LET i == 4 * ((j - 1) \div 3)
      r == (j - 1) % 3
      v(n) == B64index(At(d, i + n)) IN
  CASE r = 0 -> 4 * v(1) + v(2) \div 16
    [] r = 1 -> 16 * (v(2) % 16) + v(3) \div 4
    [] r = 2 -> 64 * (v(3) % 4) + v(4)

(* The last group is taken apart from the others when it is not full or ends*)
(* in "=".                                                                  *)
HasPad(d) == Len(d) > 0 /\ (Len(d) % 4 # 0 \/ d[Len(d)] = Pad)

WholeGroups(d) == (Len(d) + 3) \div 4 - (IF HasPad(d) THEN 1 ELSE 0)

(* Mutant of DecodedLen: the third character of the last group is overlooked*)
DecodedLenShort(d) == 3 * WholeGroups(d) + (IF HasPad(d) THEN 1 ELSE 0)

DecodedLen(d) ==
  LET third == 4 * WholeGroups(d) + 3 IN
  3 * WholeGroups(d)
    + (IF ~HasPad(d) THEN 0 ELSE IF Len(d) >= third /\ d[third] # Pad THEN 2 ELSE 1)

(* A length of 4n + 1 is left out: decode would read behind the text.       *)
Decode(d) == [j \in 1..DecodedLen(d) |-> DecodedByte(d, j)]

(* What find('=') and resize leave of an encoding.                          *)
Unpadded(e) == SubSeq(e, 1, Len(e) - (IF e # <<>> /\ e[Len(e)] = Pad
                                        THEN IF e[Len(e) - 1] = Pad THEN 2 ELSE 1
                                        ELSE 0))

UrlEncode(s) ==
  LET e == Unpadded(Encode(s)) IN
  [k \in 1..Len(e) |-> CASE e[k] = 62 -> Minus [] e[k] = 63 -> Underscore [] OTHER -> e[k]]

UrlDecode(d) ==
  Decode([k \in 1..4 * ((Len(d) + 3) \div 4) |->
            IF k > Len(d) THEN Pad
            ELSE CASE d[k] = Minus -> 62 [] d[k] = Underscore -> 63 [] OTHER -> d[k]])

-------------------------------------------------------------------------------
Base64Init == b64_data = <<>>

(* A caller's text, one byte longer.                                        *)
Base64Next ==
  /\ Len(b64_data) < B64MaxLen
  /\ \E b \in B64Bytes : b64_data' = Append(b64_data, b)

Base64Spec == Base64Init /\ [][Base64Next]_b64_data

(* Every decoder gives back what was encoded: decode() of the padded text,  *)
(* of the text without its padding and of the url form, and base64url's own *)
(* (base64.cpp:42-98): the last group of one or two bytes is the hard case. *)
Base64RoundTrip ==
  /\ Decode(Encode(b64_data)) = b64_data
  /\ Decode(Unpadded(Encode(b64_data))) = b64_data
  /\ Decode(UrlEncode(b64_data)) = b64_data
  /\ UrlDecode(UrlEncode(b64_data)) = b64_data

===============================================================================
