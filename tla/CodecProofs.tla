----------------------------- MODULE CodecProofs -----------------------------
(* What is written can be read again: the codecs of base64.cpp for texts of  *)
(* bytes of any length, and the frames of websocket.cpp for any sizes.  What *)
(* utf8_validator says of a text in pieces it says of all of it.             *)
EXTENDS Base64, Frames, TextFragments, Sha1, QueueLemmas, FiniteSetTheorems

Bytes == 0..255

(* What character k of an encoding of s stands for, and how many characters  *)
(* of it are not padding.                                                    *)
Sextet(s, k) ==
  LET i == 3 * ((k - 1) \div 4)
      r == (k - 1) % 4 IN
  CASE r = 0 -> At(s, i + 1) \div 4
    [] r = 1 -> 16 * (At(s, i + 1) % 4) + At(s, i + 2) \div 16
    [] r = 2 -> 4 * (At(s, i + 2) % 16) + At(s, i + 3) \div 64
    [] r = 3 -> At(s, i + 3) % 64

Chars(n) == n + (n + 2) \div 3

Groups(n) == 4 * ((n + 2) \div 3)

(* d encodes s in one of the alphabets, with or without padding.             *)
Encodes(d, s) ==
  /\ d \in Seq(Symbols)
  /\ Len(d) = Chars(Len(s)) \/ Len(d) = Groups(Len(s))
  /\ \A k \in 1..Len(d) :
       IF k <= Chars(Len(s)) THEN d[k] # Pad /\ B64index(d[k]) = Sextet(s, k) ELSE d[k] = Pad

LEMMA AtByte ==
  ASSUME NEW s \in Seq(Bytes), NEW i \in Int
  PROVE  At(s, i) \in Bytes
<1>1. CASE i \in 1..Len(s)
  BY <1>1 DEF At
<1>2. CASE i \notin 1..Len(s)
  BY <1>2 DEF At, Bytes
<1> QED BY <1>1, <1>2

LEMMA ThirdsOf ==
  ASSUME NEW n \in Nat
  PROVE  \E q \in Nat, r \in 0..2 : n = 3 * q + r
<1>1. n \div 3 \in Nat /\ n % 3 \in 0..2
  OBVIOUS
<1>2. n = 3 * (n \div 3) + (n % 3)
  OBVIOUS
<1> QED BY <1>1, <1>2

LEMMA Counts ==
  ASSUME NEW q \in Nat, NEW r \in 0..2
  PROVE  /\ Chars(3 * q + r) = 4 * q + (IF r = 0 THEN 0 ELSE r + 1)
         /\ Groups(3 * q + r) = 4 * q + (IF r = 0 THEN 0 ELSE 4)
BY DEF Chars, Groups

(* A character holds the end of one byte in front of the start of the next.  *)
LEMMA SextetParts ==
  ASSUME NEW b \in Bytes, NEW c \in Bytes
  PROVE  /\ (16 * (b % 4) + c \div 16) % 16 = c \div 16
         /\ (4 * (b % 16) + c \div 64) \div 4 = b % 16
         /\ (4 * (b % 16) + c \div 64) % 4 = c \div 64
         /\ (16 * (b % 4) + c \div 16) \div 16 = b % 4
<1>1. c \div 16 \in 0..15 /\ c \div 64 \in 0..3
  BY DEF Bytes
<1>2. b % 4 \in 0..3 /\ b % 16 \in 0..15
  BY DEF Bytes
<1>3. \A x, y \in 0..15 : (16 * x + y) % 16 = y /\ (16 * x + y) \div 16 = x
  OBVIOUS
<1>4. \A x \in 0..15, y \in 0..3 : (4 * x + y) \div 4 = x /\ (4 * x + y) % 4 = y
  OBVIOUS
<1>5. b % 4 \in 0..15
  BY <1>2
<1> QED BY <1>1, <1>2, <1>3, <1>4, <1>5

(* The length that decode computes is that of the text.                      *)
LEMMA LengthOf ==
  ASSUME NEW s \in Seq(Bytes), NEW d, Encodes(d, s)
  PROVE  DecodedLen(d) = Len(s)
<1>1. Len(s) \in Nat /\ Len(d) \in Nat
  BY DEF Encodes
<1>2. PICK q \in Nat, r \in 0..2 : Len(s) = 3 * q + r
  BY <1>1, ThirdsOf
<1>3. Chars(Len(s)) = 4 * q + (IF r = 0 THEN 0 ELSE r + 1)
      /\ Groups(Len(s)) = 4 * q + (IF r = 0 THEN 0 ELSE 4)
  BY <1>2, Counts
<1>4. \A k \in 1..Len(d) : (d[k] = Pad) <=> (k > Chars(Len(s)))
  BY <1>1, <1>3 DEF Encodes
<1>5. CASE r = 0
  <2>1. Len(d) = 4 * q
    BY <1>3, <1>5 DEF Encodes
  <2>2. Len(d) % 4 = 0 /\ (Len(d) + 3) \div 4 = q
    BY <2>1
  <2>3. Len(d) > 0 => d[Len(d)] # Pad
    <3>1. Len(d) > 0 => Len(d) \in 1..Len(d) /\ ~(Len(d) > Chars(Len(s)))
      BY <1>3, <1>5, <2>1
    <3> QED BY <1>4, <3>1
  <2>4. ~HasPad(d)
    BY <2>2, <2>3 DEF HasPad
  <2>5. WholeGroups(d) = q
    BY <2>2, <2>4 DEF WholeGroups
  <2>6. DecodedLen(d) = 3 * q
    BY <2>4, <2>5 DEF DecodedLen
  <2> QED BY <2>6, <1>2, <1>5
<1>6. CASE r = 1
  <2>1. Len(d) = 4 * q + 2 \/ Len(d) = 4 * q + 4
    BY <1>3, <1>6 DEF Encodes
  <2>2. HasPad(d) /\ (Len(d) + 3) \div 4 = q + 1
    <3>1. CASE Len(d) = 4 * q + 2
      <4>1. Len(d) > 0 /\ Len(d) % 4 # 0 /\ (Len(d) + 3) \div 4 = q + 1
        BY <3>1
      <4> QED BY <4>1 DEF HasPad
    <3>2. CASE Len(d) = 4 * q + 4
      <4>1. Len(d) > 0 /\ (Len(d) + 3) \div 4 = q + 1
        BY <3>2
      <4>2. Len(d) \in 1..Len(d) /\ Len(d) > Chars(Len(s))
        BY <1>3, <1>6, <3>2
      <4>3. d[Len(d)] = Pad
        BY <1>4, <4>2
      <4> QED BY <4>1, <4>3 DEF HasPad
    <3> QED BY <2>1, <3>1, <3>2
  <2>3. ~(Len(d) >= 4 * q + 3 /\ d[4 * q + 3] # Pad)
    BY <1>3, <1>4, <1>6, <2>1
  <2>4. WholeGroups(d) = q
    BY <2>2 DEF WholeGroups
  <2>5. DecodedLen(d) = 3 * q + 1
    BY <2>2, <2>3, <2>4 DEF DecodedLen
  <2> QED BY <2>5, <1>2, <1>6
<1>7. CASE r = 2
  <2>1. Len(d) = 4 * q + 3 \/ Len(d) = 4 * q + 4
    BY <1>3, <1>7 DEF Encodes
  <2>2. HasPad(d) /\ (Len(d) + 3) \div 4 = q + 1
    <3>1. CASE Len(d) = 4 * q + 3
      <4>1. Len(d) > 0 /\ Len(d) % 4 # 0 /\ (Len(d) + 3) \div 4 = q + 1
        BY <3>1
      <4> QED BY <4>1 DEF HasPad
    <3>2. CASE Len(d) = 4 * q + 4
      <4>1. Len(d) > 0 /\ (Len(d) + 3) \div 4 = q + 1
        BY <3>2
      <4>2. Len(d) \in 1..Len(d) /\ Len(d) > Chars(Len(s))
        BY <1>3, <1>7, <3>2
      <4>3. d[Len(d)] = Pad
        BY <1>4, <4>2
      <4> QED BY <4>1, <4>3 DEF HasPad
    <3> QED BY <2>1, <3>1, <3>2
  <2>3. Len(d) >= 4 * q + 3 /\ d[4 * q + 3] # Pad
    BY <1>3, <1>4, <1>7, <2>1
  <2>4. WholeGroups(d) = q
    BY <2>2 DEF WholeGroups
  <2>5. DecodedLen(d) = 3 * q + 2
    BY <2>2, <2>3, <2>4 DEF DecodedLen
  <2> QED BY <2>5, <1>2, <1>7
<1> QED BY <1>5, <1>6, <1>7

(* Each byte is put together again from the characters it was spread over.   *)
LEMMA ByteAgain ==
  ASSUME NEW s \in Seq(Bytes), NEW d, Encodes(d, s), NEW j \in 1..Len(s)
  PROVE  DecodedByte(d, j) = s[j]
<1> DEFINE p == (j - 1) \div 3
           t == (j - 1) % 3
           v(m) == B64index(At(d, 4 * p + m))
<1>1. p \in Nat /\ t \in 0..2 /\ j = 3 * p + t + 1 /\ Len(s) \in Nat /\ Len(d) \in Nat
  BY DEF Encodes
<1> HIDE DEF p, t
<1>2. 4 * p + t + 2 <= Chars(Len(s)) /\ Chars(Len(s)) <= Len(d)
  <2>1. PICK q \in Nat, r \in 0..2 : Len(s) = 3 * q + r
    BY <1>1, ThirdsOf
  <2>2. Chars(Len(s)) = 4 * q + (IF r = 0 THEN 0 ELSE r + 1)
        /\ Groups(Len(s)) = 4 * q + (IF r = 0 THEN 0 ELSE 4)
    BY <2>1, Counts
  <2>3. 3 * p + t + 1 <= 3 * q + r
    BY <1>1, <2>1
  <2>4. 4 * p + t + 2 <= Chars(Len(s))
    BY <1>1, <2>2, <2>3
  <2>5. Chars(Len(s)) <= Groups(Len(s))
    BY <2>2
  <2> QED BY <2>2, <2>4, <2>5 DEF Encodes
<1>3. \A m \in 1..4 : m <= t + 2 => v(m) = Sextet(s, 4 * p + m)
  <2> SUFFICES ASSUME NEW m \in 1..4, m <= t + 2 PROVE v(m) = Sextet(s, 4 * p + m)
    OBVIOUS
  <2>1. Chars(Len(s)) \in Int
    BY <1>1 DEF Chars
  <2>2. 4 * p + m \in 1..Len(d) /\ 4 * p + m <= Chars(Len(s))
    BY <1>1, <1>2, <2>1
  <2> QED BY <2>2 DEF Encodes, At
<1> DEFINE b1 == At(s, 3 * p + 1)
           b2 == At(s, 3 * p + 2)
           b3 == At(s, 3 * p + 3)
<1>4. b1 \in Bytes /\ b2 \in Bytes /\ b3 \in Bytes
  BY <1>1, AtByte
<1>5. /\ Sextet(s, 4 * p + 1) = b1 \div 4
      /\ Sextet(s, 4 * p + 2) = 16 * (b1 % 4) + b2 \div 16
      /\ Sextet(s, 4 * p + 3) = 4 * (b2 % 16) + b3 \div 64
      /\ Sextet(s, 4 * p + 4) = b3 % 64
  <2>1. \A m \in 1..4 : ((4 * p + m) - 1) \div 4 = p /\ ((4 * p + m) - 1) % 4 = m - 1
    BY <1>1
  <2>2. \A m \in 1..4 :
          Sextet(s, 4 * p + m) =
            CASE m - 1 = 0 -> b1 \div 4
              [] m - 1 = 1 -> 16 * (b1 % 4) + b2 \div 16
              [] m - 1 = 2 -> 4 * (b2 % 16) + b3 \div 64
              [] m - 1 = 3 -> b3 % 64
    BY <2>1, Zenon DEF Sextet
  <2> HIDE DEF b1, b2, b3
  <2> QED BY <2>2
<1>6. (j - 1) \div 3 = p /\ (j - 1) % 3 = t
  BY DEF p, t
<1>7. s[j] = At(s, j)
  BY DEF At
<1> HIDE DEF v, b1, b2, b3
<1>8. CASE t = 0
  <2>1. v(1) = b1 \div 4 /\ v(2) = 16 * (b1 % 4) + b2 \div 16
    BY <1>3, <1>5, <1>8
  <2>2. v(2) \div 16 = b1 % 4
    BY <2>1, <1>4, SextetParts
  <2>4. 4 * v(1) + v(2) \div 16 = b1
    BY <2>1, <2>2, <1>4 DEF Bytes
  <2>3. DecodedByte(d, j) = 4 * v(1) + v(2) \div 16
    BY <1>6, <1>8 DEF DecodedByte, v
  <2> QED BY <2>4, <2>3, <1>1, <1>7, <1>8 DEF b1
<1>9. CASE t = 1
  <2>1. v(2) = 16 * (b1 % 4) + b2 \div 16 /\ v(3) = 4 * (b2 % 16) + b3 \div 64
    BY <1>3, <1>5, <1>9
  <2>2. v(2) % 16 = b2 \div 16 /\ v(3) \div 4 = b2 % 16
    BY <2>1, <1>4, SextetParts
  <2>4. 16 * (v(2) % 16) + v(3) \div 4 = b2
    BY <2>2, <1>4 DEF Bytes
  <2>3. DecodedByte(d, j) = 16 * (v(2) % 16) + v(3) \div 4
    BY <1>6, <1>9 DEF DecodedByte, v
  <2> QED BY <2>4, <2>3, <1>1, <1>7, <1>9 DEF b2
<1>10. CASE t = 2
  <2>1. v(3) = 4 * (b2 % 16) + b3 \div 64 /\ v(4) = b3 % 64
    BY <1>3, <1>5, <1>10
  <2>2. v(3) % 4 = b3 \div 64
    BY <2>1, <1>4, SextetParts
  <2>4. 64 * (v(3) % 4) + v(4) = b3
    BY <2>1, <2>2, <1>4 DEF Bytes
  <2>3. DecodedByte(d, j) = 64 * (v(3) % 4) + v(4)
    BY <1>6, <1>10 DEF DecodedByte, v
  <2> QED BY <2>4, <2>3, <1>1, <1>7, <1>10 DEF b3
<1> QED BY <1>1, <1>8, <1>9, <1>10

LEMMA DecodeEncoded ==
  ASSUME NEW s \in Seq(Bytes), NEW d, Encodes(d, s)
  PROVE  Decode(d) = s
<1>1. Decode(d) = [j \in 1..Len(s) |-> DecodedByte(d, j)]
  BY LengthOf DEF Decode
<1>2. \A j \in 1..Len(s) : DecodedByte(d, j) = s[j]
  BY ByteAgain
<1>3. s = [j \in 1..Len(s) |-> s[j]]
  OBVIOUS
<1> QED BY <1>1, <1>2, <1>3

-------------------------------------------------------------------------------
(* What encode writes at each place: the sextet, or padding behind the text. *)
LEMMA CharOf ==
  ASSUME NEW s \in Seq(Bytes), NEW k \in 1..Groups(Len(s))
  PROVE  IF k <= Chars(Len(s))
           THEN EncodedChar(s, k) = Sextet(s, k) /\ Sextet(s, k) \in 0..63
           ELSE EncodedChar(s, k) = Pad
<1> DEFINE p == (k - 1) \div 4
           t == (k - 1) % 4
           b1 == At(s, 3 * p + 1)
           b2 == At(s, 3 * p + 2)
           b3 == At(s, 3 * p + 3)
<1>1. Len(s) \in Nat
  OBVIOUS
<1>2. PICK q \in Nat, r \in 0..2 : Len(s) = 3 * q + r
  BY <1>1, ThirdsOf
<1>3. Chars(Len(s)) = 4 * q + (IF r = 0 THEN 0 ELSE r + 1)
      /\ Groups(Len(s)) = 4 * q + (IF r = 0 THEN 0 ELSE 4)
  BY <1>2, Counts
<1>4. p \in Nat /\ t \in 0..3 /\ k = 4 * p + t + 1
  BY <1>3
<1>5. b1 \in Bytes /\ b2 \in Bytes /\ b3 \in Bytes
  BY <1>4, AtByte
<1>6. /\ t = 0 => EncodedChar(s, k) = b1 \div 4 /\ Sextet(s, k) = b1 \div 4
      /\ t = 1 => /\ EncodedChar(s, k) = 16 * (b1 % 4) + b2 \div 16
                 /\ Sextet(s, k) = 16 * (b1 % 4) + b2 \div 16
      /\ t = 2 => /\ EncodedChar(s, k) = IF 3 * p + 2 > Len(s) THEN Pad
                                         ELSE 4 * (b2 % 16) + b3 \div 64
                 /\ Sextet(s, k) = 4 * (b2 % 16) + b3 \div 64
      /\ t = 3 => /\ EncodedChar(s, k) = IF 3 * p + 3 > Len(s) THEN Pad ELSE b3 % 64
                 /\ Sextet(s, k) = b3 % 64
  BY SMTT(60) DEF EncodedChar, Sextet
<1> HIDE DEF p, t, b1, b2, b3
<1>7. /\ t \in {0, 1} => k <= Chars(Len(s))
      /\ t = 2 => (3 * p + 2 > Len(s) <=> k > Chars(Len(s)))
      /\ t = 3 => (3 * p + 3 > Len(s) <=> k > Chars(Len(s)))
  BY <1>2, <1>3, <1>4
<1>8. /\ b1 \div 4 \in 0..63 /\ b3 % 64 \in 0..63
      /\ 16 * (b1 % 4) + b2 \div 16 \in 0..63
      /\ 4 * (b2 % 16) + b3 \div 64 \in 0..63
  BY <1>5 DEF Bytes
<1>9. k \in Nat /\ Chars(Len(s)) \in Nat
  BY <1>3
<1>10. Sextet(s, k) \in 0..63
  <2>1. t = 0 \/ t = 1 \/ t = 2 \/ t = 3
    BY <1>4
  <2> QED BY <2>1, <1>6, <1>8, ZenonT(60)
<1>11. CASE t \in {0, 1}
  BY <1>6, <1>7, <1>10, <1>11
<1>12. CASE t = 2
  BY <1>6, <1>7, <1>9, <1>10, <1>12
<1>13. CASE t = 3
  BY <1>6, <1>7, <1>9, <1>10, <1>13
<1> QED BY <1>4, <1>11, <1>12, <1>13

LEMMA SizesOf ==
  ASSUME NEW n \in Nat
  PROVE  /\ Chars(n) \in Nat /\ Groups(n) \in Nat /\ Chars(n) <= Groups(n)
         /\ Groups(n) <= Chars(n) + 2
         /\ Groups(n) > Chars(n) => Chars(n) >= 2
         /\ 4 * ((Chars(n) + 3) \div 4) = Groups(n)
<1>1. PICK q \in Nat, r \in 0..2 : n = 3 * q + r
  BY ThirdsOf
<1>2. Chars(n) = 4 * q + (IF r = 0 THEN 0 ELSE r + 1)
      /\ Groups(n) = 4 * q + (IF r = 0 THEN 0 ELSE 4)
  BY <1>1, Counts
<1> QED BY <1>2

LEMMA IndexOf ==
  /\ \A c \in 0..63 : B64index(c) = c /\ c \in Symbols /\ c # Pad
  /\ B64index(Minus) = 62 /\ B64index(Underscore) = 63
  /\ {Minus, Underscore, Pad} \subseteq Symbols /\ Minus # Pad /\ Underscore # Pad
BY DEF B64index, Minus, Underscore, Pad, Symbols

LEMMA EncodeEncodes ==
  ASSUME NEW s \in Seq(Bytes)
  PROVE  /\ Encodes(Encode(s), s) /\ Len(Encode(s)) = Groups(Len(s))
         /\ \A k \in 1..Chars(Len(s)) : Encode(s)[k] \in 0..63
<1> DEFINE e == Encode(s)
<1>1. Len(s) \in Nat /\ Groups(Len(s)) \in Nat /\ Chars(Len(s)) \in Nat
      /\ Chars(Len(s)) <= Groups(Len(s))
  BY SizesOf
<1>2. e = [k \in 1..Groups(Len(s)) |-> EncodedChar(s, k)]
  BY DEF Encode, Groups
<1>3. ASSUME NEW k \in 1..Groups(Len(s))
      PROVE  /\ e[k] \in Symbols
             /\ IF k <= Chars(Len(s)) THEN /\ e[k] \in 0..63 /\ e[k] # Pad
                                           /\ B64index(e[k]) = Sextet(s, k)
                                      ELSE e[k] = Pad
  <2>1. e[k] = EncodedChar(s, k)
    BY <1>2
  <2>2. IF k <= Chars(Len(s)) THEN e[k] = Sextet(s, k) /\ Sextet(s, k) \in 0..63 ELSE e[k] = Pad
    BY <2>1, CharOf
  <2> HIDE DEF e
  <2>3. CASE k <= Chars(Len(s))
    <3>1. e[k] = Sextet(s, k) /\ e[k] \in 0..63
      BY <2>2, <2>3
    <3>2. B64index(e[k]) = e[k] /\ e[k] \in Symbols /\ e[k] # Pad
      BY <3>1, IndexOf
    <3> QED BY <2>3, <3>1, <3>2
  <2>4. CASE ~(k <= Chars(Len(s)))
    <3>1. e[k] = Pad
      BY <2>2, <2>4
    <3> QED BY <2>4, <3>1, IndexOf
  <2> QED BY <2>3, <2>4
<1>4. e \in Seq(Symbols) /\ Len(e) = Groups(Len(s))
  BY <1>1, <1>2, <1>3
<1> QED BY <1>1, <1>3, <1>4 DEF Encodes

LEMMA UnpaddedEncodes ==
  ASSUME NEW s \in Seq(Bytes)
  PROVE  /\ Encodes(Unpadded(Encode(s)), s) /\ Len(Unpadded(Encode(s))) = Chars(Len(s))
         /\ \A k \in 1..Chars(Len(s)) : Unpadded(Encode(s))[k] = Encode(s)[k]
<1> DEFINE e == Encode(s)
           n == Len(s)
<1>1. /\ Encodes(e, s) /\ Len(e) = Groups(n) /\ e \in Seq(Symbols)
      /\ \A k \in 1..Chars(n) : e[k] \in 0..63
  BY EncodeEncodes DEF Encodes
<1>2. /\ n \in Nat /\ Chars(n) \in Nat /\ Groups(n) \in Nat /\ Chars(n) <= Groups(n)
      /\ Groups(n) <= Chars(n) + 2 /\ (Groups(n) > Chars(n) => Chars(n) >= 2)
  BY SizesOf
<1>3. \A k \in 1..Groups(n) : (e[k] = Pad) <=> (k > Chars(n))
  BY <1>1, <1>2 DEF Encodes
<1> HIDE DEF e, n
<1>4. Unpadded(e) = SubSeq(e, 1, Chars(n))
  <2>1. CASE Groups(n) = Chars(n)
    <3>1. ~(e # <<>> /\ e[Len(e)] = Pad)
      BY <1>1, <1>2, <1>3, <2>1
    <3> QED BY <3>1, <2>1, <1>1, <1>2 DEF Unpadded
  <2>2. CASE Groups(n) = Chars(n) + 1
    <3>1. e # <<>> /\ e[Len(e)] = Pad /\ e[Len(e) - 1] # Pad
      BY <1>1, <1>2, <1>3, <2>2
    <3> QED BY <3>1, <2>2, <1>1, <1>2 DEF Unpadded
  <2>3. CASE Groups(n) = Chars(n) + 2
    <3>1. e # <<>> /\ e[Len(e)] = Pad /\ e[Len(e) - 1] = Pad
      BY <1>1, <1>2, <1>3, <2>3
    <3> QED BY <3>1, <2>3, <1>1, <1>2 DEF Unpadded
  <2> QED BY <2>1, <2>2, <2>3, <1>2
<1>5. /\ SubSeq(e, 1, Chars(n)) \in Seq(Symbols) /\ Len(SubSeq(e, 1, Chars(n))) = Chars(n)
      /\ \A k \in 1..Chars(n) : SubSeq(e, 1, Chars(n))[k] = e[k]
  BY <1>1, <1>2
<1>6. \A k \in 1..Chars(n) : e[k] # Pad /\ B64index(e[k]) = Sextet(s, k)
  BY <1>1, <1>2 DEF Encodes, n
<1> QED BY <1>2, <1>4, <1>5, <1>6 DEF Encodes, e, n

LEMMA UrlEncodeEncodes ==
  ASSUME NEW s \in Seq(Bytes)
  PROVE  Encodes(UrlEncode(s), s) /\ Len(UrlEncode(s)) = Chars(Len(s))
<1> DEFINE e == Unpadded(Encode(s))
           u == UrlEncode(s)
<1>1. /\ Len(e) = Chars(Len(s)) /\ Chars(Len(s)) \in Nat
      /\ \A k \in 1..Chars(Len(s)) : e[k] \in 0..63 /\ B64index(e[k]) = Sextet(s, k)
  <2>1. Len(e) = Chars(Len(s)) /\ Encodes(e, s) /\ Chars(Len(s)) \in Nat
    BY UnpaddedEncodes, SizesOf
  <2>2. \A k \in 1..Chars(Len(s)) : e[k] \in 0..63
    BY EncodeEncodes, UnpaddedEncodes
  <2> HIDE DEF e
  <2> QED BY <2>1, <2>2 DEF Encodes
<1>2. u = [k \in 1..Chars(Len(s)) |->
             CASE e[k] = 62 -> Minus [] e[k] = 63 -> Underscore [] OTHER -> e[k]]
  BY <1>1 DEF UrlEncode
<1> HIDE DEF e, u
<1>3. \A k \in 1..Chars(Len(s)) : u[k] \in Symbols /\ u[k] # Pad /\ B64index(u[k]) = Sextet(s, k)
  <2> TAKE k \in 1..Chars(Len(s))
  <2>1. e[k] \in 0..63 /\ B64index(e[k]) = Sextet(s, k)
    BY <1>1
  <2>2. u[k] = CASE e[k] = 62 -> Minus [] e[k] = 63 -> Underscore [] OTHER -> e[k]
    BY <1>2
  <2>3. B64index(e[k]) = e[k] /\ e[k] \in Symbols /\ e[k] # Pad
    BY <2>1, IndexOf
  <2>4. CASE e[k] = 62
    BY <2>1, <2>2, <2>3, <2>4, IndexOf
  <2>5. CASE e[k] = 63
    BY <2>1, <2>2, <2>3, <2>5, IndexOf
  <2>6. CASE e[k] # 62 /\ e[k] # 63
    BY <2>1, <2>2, <2>3, <2>6
  <2> QED BY <2>4, <2>5, <2>6
<1>4. u \in Seq(Symbols) /\ Len(u) = Chars(Len(s))
  BY <1>1, <1>2, <1>3
<1> QED BY <1>1, <1>3, <1>4 DEF Encodes, u

(* base64url::decode puts the padding back before it decodes.                *)
LEMMA UrlDecodeEncoded ==
  ASSUME NEW s \in Seq(Bytes)
  PROVE  UrlDecode(UrlEncode(s)) = s
<1> DEFINE u == UrlEncode(s)
           n == Len(s)
           d == [k \in 1..Groups(n) |->
                   IF k > Len(u) THEN Pad
                   ELSE CASE u[k] = Minus -> 62 [] u[k] = Underscore -> 63 [] OTHER -> u[k]]
<1>1. Len(u) = Chars(n) /\ Encodes(u, s)
  BY UrlEncodeEncodes
<1>2. /\ n \in Nat /\ Chars(n) \in Nat /\ Groups(n) \in Nat /\ Chars(n) <= Groups(n)
      /\ 4 * ((Chars(n) + 3) \div 4) = Groups(n)
  BY SizesOf
<1>3. UrlDecode(u) = Decode(d)
  BY <1>1, <1>2 DEF UrlDecode
<1>4. \A k \in 1..Chars(n) : u[k] \in Symbols /\ u[k] # Pad /\ B64index(u[k]) = Sextet(s, k)
  BY <1>1, <1>2 DEF Encodes
<1> HIDE DEF u, n
<1>5. ASSUME NEW k \in 1..Groups(n)
      PROVE  /\ d[k] \in Symbols
             /\ IF k <= Chars(n) THEN d[k] # Pad /\ B64index(d[k]) = Sextet(s, k) ELSE d[k] = Pad
  <2>1. CASE k <= Chars(n)
    <3>1. k \in 1..Chars(n) /\ ~(k > Len(u))
      BY <2>1, <1>1, <1>2
    <3>2. d[k] = CASE u[k] = Minus -> 62 [] u[k] = Underscore -> 63 [] OTHER -> u[k]
      BY <3>1, <1>5
    <3> HIDE DEF d
    <3> QED BY <2>1, <3>1, <3>2, <1>4 DEF B64index, Symbols, Pad, Minus, Underscore
  <2>2. CASE ~(k <= Chars(n))
    BY <2>2, <1>1, <1>2 DEF Symbols, Pad, Underscore
  <2> QED BY <2>1, <2>2
<1>6. d \in Seq(Symbols) /\ Len(d) = Groups(n)
  <2>1. d = [k \in 1..Groups(n) |-> d[k]]
    OBVIOUS
  <2> HIDE DEF d
  <2>2. Groups(n) \in Nat
    BY <1>2
  <2>3. \A k \in 1..Groups(n) : d[k] \in Symbols
    BY <1>5
  <2> QED BY <2>1, <2>2, <2>3, SMTT(60)
<1>7. Encodes(d, s)
  <2> HIDE DEF d
  <2>1. Len(d) = Groups(Len(s))
    BY <1>6 DEF n
  <2>2. \A k \in 1..Len(d) :
          IF k <= Chars(Len(s)) THEN d[k] # Pad /\ B64index(d[k]) = Sextet(s, k) ELSE d[k] = Pad
    BY <1>5, <1>6, <2>1 DEF n
  <2> QED BY <1>6, <2>1, <2>2 DEF Encodes
<1> QED BY <1>3, <1>7, DecodeEncoded DEF u

(* The four ways to decode an encoding, for every text of bytes.             *)
THEOREM DecodersInvertEncoders ==
  ASSUME NEW s \in Seq(Bytes)
  PROVE  /\ Decode(Encode(s)) = s
         /\ Decode(Unpadded(Encode(s))) = s
         /\ Decode(UrlEncode(s)) = s
         /\ UrlDecode(UrlEncode(s)) = s
BY EncodeEncodes, UnpaddedEncodes, UrlEncodeEncodes, DecodeEncoded, UrlDecodeEncoded

(* In the behaviours that TLC looks at, but with texts of any length.        *)
THEOREM RoundTrips == Base64Spec => []Base64RoundTrip
<1>1. Base64Init => b64_data \in Seq(Bytes)
  BY DEF Base64Init
<1>2. b64_data \in Seq(Bytes) /\ [Base64Next]_b64_data => (b64_data \in Seq(Bytes))'
  <2>1. \A b \in B64Bytes : b \in Bytes
    BY B64Assumption DEF Bytes
  <2> QED BY <2>1 DEF Base64Next
<1>3. b64_data \in Seq(Bytes) => Base64RoundTrip
  BY DecodersInvertEncoders DEF Base64RoundTrip
<1> QED BY <1>1, <1>2, <1>3, PTL DEF Base64Spec

-------------------------------------------------------------------------------
Frame == [start : Nat, ext : {0, 2, 8}, masked : BOOLEAN, payload : Nat]

(* The server's frames follow each other without a gap, so a place in the    *)
(* stream starts at most one of them.                                        *)
Contiguous ==
  /\ sent # <<>> => sent[1].start = 0
  /\ \A k \in 1..Len(sent) - 1 : sent[k + 1].start = FrameEnd(sent[k])
  /\ \A i, j \in 1..Len(sent) : i < j => FrameEnd(sent[i]) <= sent[j].start

(* parser_data is a part of the stream, and before the first read it is the  *)
(* start of it.                                                              *)
Bounded ==
  /\ lo <= hi /\ hi <= SentBytes /\ parser_wanted_size >= 2
  /\ parser = "handshake" => lo = 0 /\ hi = 0

(* A length fits the field that says it.                                     *)
Fields ==
  \A k \in 1..Len(sent) :
    (sent[k].ext = 0 => sent[k].payload < 126) /\ (sent[k].ext = 2 => sent[k].payload < ShortMod)

(* As long as the parser knows its place...                                  *)
FramesInv == FramesTypeOK /\ Contiguous /\ Bounded /\ Fields /\ Whole /\ parser # "lost"

(* ...which it loses at a frame whose size wraps, for ever.                  *)
LostInv ==
  /\ parser = "lost" /\ sent \in Seq(Frame)
  /\ \E k \in 1..Len(sent) : sent[k].ext = 8 /\ Wraps(sent[k])

(* The 64-bit sum is the sum, or less.                                       *)
LEMMA SizeOf ==
  ASSUME NEW f \in Frame
  PROVE  /\ FrameSize(f) \in Nat /\ FrameSize(f) <= HeaderLen(f) + f.payload
         /\ ~Wraps(f) => FrameSize(f) = HeaderLen(f) + f.payload
<1>1. /\ HeaderLen(f) \in Nat /\ f.payload \in Nat /\ HeaderLen(f) + f.payload \in Nat
      /\ SizeMod \in Nat \ {0}
  BY FramesAssumption DEF Frame, HeaderLen
<1>2. \A x \in Nat : x % SizeMod \in 0..SizeMod - 1 /\ (x < SizeMod => x % SizeMod = x)
  BY <1>1
<1> QED BY <1>1, <1>2 DEF FrameSize, Wraps

LEMMA HeaderLenType ==
  ASSUME NEW f \in Frame
  PROVE  HeaderLen(f) \in Nat /\ HeaderLen(f) >= 2 /\ FrameEnd(f) \in Nat
         /\ FrameEnd(f) = f.start + HeaderLen(f) + f.payload
         /\ f.start \in Nat /\ f.payload \in Nat /\ f.start < FrameEnd(f)
BY DEF Frame, HeaderLen, FrameEnd

LEMMA SentBytesType == FramesInv => SentBytes \in Nat
<1> SUFFICES ASSUME FramesInv PROVE SentBytes \in Nat
  OBVIOUS
<1>1. sent \in Seq(Frame)
  BY DEF FramesInv, FramesTypeOK, Frame
<1>2. sent # <<>> => sent[Len(sent)] \in Frame
  BY <1>1
<1> QED BY <1>2, HeaderLenType DEF SentBytes

(* The frame that starts at lo is the next one to handle.                    *)
LEMMA HeadStartsAtLo ==
  ASSUME FramesInv, NEW k \in 1..Len(sent), sent[k].start = lo, lo < hi
  PROVE  HasHead /\ k = Len(handled) + 1
<1> DEFINE h == Len(handled) + 1
<1>1. sent \in Seq(Frame) /\ Len(handled) \in Nat /\ lo \in Nat /\ hi \in Nat
  BY DEF FramesInv, FramesTypeOK, Frame
<1>2. HasHead
  BY <1>1, SentBytesType DEF FramesInv, Whole, Bounded
<1>3. h \in 1..Len(sent) /\ sent[h].start = lo
  BY <1>1, <1>2 DEF FramesInv, Whole, HasHead, HeadFrame
<1>4. \A i \in 1..Len(sent) : sent[i] \in Frame
  BY <1>1
<1>5. \A i, j \in 1..Len(sent) : i < j => sent[i].start < sent[j].start
  <2> SUFFICES ASSUME NEW i \in 1..Len(sent), NEW j \in 1..Len(sent), i < j
               PROVE  sent[i].start < sent[j].start
    OBVIOUS
  <2>1. FrameEnd(sent[i]) <= sent[j].start
    BY DEF FramesInv, Contiguous
  <2>2. sent[i].start < FrameEnd(sent[i])
    BY <1>4, HeaderLenType
  <2>3. sent[i].start \in Nat /\ sent[j].start \in Nat /\ FrameEnd(sent[i]) \in Nat
    BY <1>4, HeaderLenType
  <2> QED BY <2>1, <2>2, <2>3
<1>6. k = h
  <2>1. k < h \/ k = h \/ h < k
    BY <1>3
  <2>2. sent[k].start \in Nat /\ sent[h].start \in Nat
    BY <1>3, <1>4 DEF Frame
  <2> QED BY <2>1, <2>2, <1>3, <1>5
<1> QED BY <1>2, <1>6

LEMMA FramesInitInv == FramesInit => FramesInv
<1> SUFFICES ASSUME FramesInit PROVE FramesInv
  OBVIOUS
<1>1. /\ sent = <<>> /\ handled = <<>> /\ Len(sent) = 0 /\ Len(handled) = 0
      /\ lo = 0 /\ hi = 0 /\ parser_wanted_size = 2 /\ parser = "handshake" /\ ended = FALSE
  BY DEF FramesInit
<1>2. FramesTypeOK
  <2>1. sent \in Seq(Frame) /\ handled \in Seq([from : Nat, size : Nat])
    BY <1>1
  <2> QED BY <1>1, <2>1 DEF FramesTypeOK, Frame
<1>3. Contiguous /\ Bounded
  BY <1>1 DEF Contiguous, Bounded, SentBytes
<1>4. Whole
  BY <1>1 DEF Whole, SentBytes, HasHead
<1> QED BY <1>1, <1>2, <1>3, <1>4 DEF FramesInv, Fields

(* A frame the server adds changes nothing about those before it.            *)
LEMMA ServerSendsInv ==
  ASSUME FramesInv, NEW ext \in {0, 2, 8}, NEW masked \in BOOLEAN, NEW p \in Payloads,
         ServerSends(ext, masked, p)
  PROVE  FramesInv'
<1> DEFINE f == [start |-> SentBytes, ext |-> ext, masked |-> masked, payload |-> p]
<1>1. f \in Frame
  BY SentBytesType, FramesAssumption DEF Frame
<1>2. sent \in Seq(Frame) /\ sent' = Append(sent, f)
      /\ UNCHANGED <<ended, lo, hi, parser_wanted_size, parser, handled>>
  BY DEF FramesInv, FramesTypeOK, Frame, ServerSends
<1>3. sent' \in Seq(Frame) /\ Len(sent') = Len(sent) + 1 /\ Len(sent) \in Nat
      /\ \A k \in 1..Len(sent) : sent'[k] = sent[k]
      /\ sent'[Len(sent) + 1] = f
  BY <1>1, <1>2
<1>4. \A k \in 1..Len(sent) : sent[k] \in Frame /\ sent[k].start \in Nat
  BY <1>2, HeaderLenType
<1>5. FramesTypeOK'
  BY <1>2, <1>3 DEF FramesInv, FramesTypeOK, Frame
<1>6. SentBytes \in Nat /\ SentBytes' = FrameEnd(f) /\ FrameEnd(f) >= SentBytes + 2
      /\ FrameEnd(f) \in Nat
  <2>1. SentBytes' = FrameEnd(sent'[Len(sent')])
    BY <1>3 DEF SentBytes, FrameEnd, HeaderLen
  <2>2. sent'[Len(sent')] = f
    BY <1>1, <1>2
  <2>3. f.start = SentBytes /\ f.payload \in Nat
    BY <1>1, HeaderLenType
  <2> QED BY <2>1, <2>2, <2>3, <1>1, HeaderLenType, SentBytesType
<1>7. Contiguous'
  <2>1. sent' # <<>> => sent'[1].start = 0
    <3>1. CASE sent = <<>>
      BY <3>1, <1>2, <1>3 DEF SentBytes
    <3>2. CASE sent # <<>>
      BY <3>2, <1>2, <1>3 DEF FramesInv, Contiguous
    <3> QED BY <3>1, <3>2
  <2>2. ASSUME NEW k \in 1..Len(sent') - 1 PROVE sent'[k + 1].start = FrameEnd(sent'[k])
    <3>1. CASE k = Len(sent)
      <4>1. sent # <<>> /\ sent'[k + 1].start = SentBytes /\ sent'[k] = sent[k]
        BY <3>1, <2>2, <1>3
      <4> QED BY <4>1, <3>1 DEF SentBytes
    <3>2. CASE k # Len(sent)
      <4>1. k \in 1..Len(sent) - 1 /\ sent'[k + 1] = sent[k + 1] /\ sent'[k] = sent[k]
        BY <3>2, <2>2, <1>3
      <4> QED BY <4>1 DEF FramesInv, Contiguous
    <3> QED BY <3>1, <3>2
  <2>3. ASSUME NEW i \in 1..Len(sent'), NEW j \in 1..Len(sent'), i < j
        PROVE  FrameEnd(sent'[i]) <= sent'[j].start
    <3>1. i \in 1..Len(sent) /\ sent'[i] = sent[i]
      BY <2>3, <1>3
    <3>2. CASE j \in 1..Len(sent)
      <4>1. sent'[j] = sent[j]
        BY <3>2, <1>3
      <4> QED BY <4>1, <3>1, <3>2, <2>3 DEF FramesInv, Contiguous
    <3>3. CASE j = Len(sent) + 1
      <4>1. sent'[j].start = SentBytes /\ SentBytes = FrameEnd(sent[Len(sent)])
        BY <3>1, <3>3, <1>3 DEF SentBytes
      <4>2. CASE i = Len(sent)
        BY <4>1, <4>2, <3>1, <1>4, HeaderLenType
      <4>3. CASE i # Len(sent)
        <5>1. Len(sent) \in 1..Len(sent) /\ i < Len(sent)
          BY <4>3, <3>1, <1>3
        <5>2. FrameEnd(sent[i]) <= sent[Len(sent)].start
          BY <5>1, <3>1 DEF FramesInv, Contiguous
        <5>3. sent[Len(sent)].start <= FrameEnd(sent[Len(sent)])
          BY <5>1, <1>4, HeaderLenType DEF Frame
        <5>4. FrameEnd(sent[i]) \in Nat
          BY <3>1, <1>4, HeaderLenType
        <5>5. sent[Len(sent)].start \in Nat /\ FrameEnd(sent[Len(sent)]) \in Nat
          BY <5>1, <1>4, HeaderLenType
        <5>6. FrameEnd(sent[i]) <= FrameEnd(sent[Len(sent)])
          BY <5>2, <5>3, <5>4, <5>5
        <5> QED BY <5>6, <4>1, <3>1
      <4> QED BY <4>2, <4>3
    <3> QED BY <3>2, <3>3, <1>3
  <2> QED BY <2>1, <2>2, <2>3 DEF Contiguous
<1>8. Bounded'
  BY <1>2, <1>6 DEF FramesInv, FramesTypeOK, Bounded
<1>9. Whole'
  <2>1. Len(handled) \in Nat /\ Len(handled) <= Len(sent) /\ lo \in Nat /\ hi \in Nat
    BY DEF FramesInv, FramesTypeOK, Whole
  <2>2. \A k \in 1..Len(handled) :
          handled'[k] = [from |-> sent'[k].start + HeaderLen(sent'[k]), size |-> sent'[k].payload]
    <3> SUFFICES ASSUME NEW k \in 1..Len(handled)
                 PROVE  handled'[k] = [from |-> sent'[k].start + HeaderLen(sent'[k]),
                                       size |-> sent'[k].payload]
      OBVIOUS
    <3>1. sent'[k] = sent[k] /\ handled' = handled
      BY <2>1, <1>2, <1>3
    <3>2. handled[k] = [from |-> sent[k].start + HeaderLen(sent[k]), size |-> sent[k].payload]
      BY DEF FramesInv, Whole
    <3> QED BY <3>1, <3>2
  <2>3. HasHead'
    BY <2>1, <1>2, <1>3 DEF HasHead
  <2>4. CASE HasHead
    <3>1. HeadFrame' = HeadFrame
      BY <2>4, <2>1, <1>2, <1>3 DEF HasHead, HeadFrame
    <3>2. HeadFrame \in Frame
      BY <2>4, <2>1, <1>4 DEF HasHead, HeadFrame
    <3> QED BY <2>1, <2>2, <2>3, <2>4, <3>1, <3>2, <1>2, <1>3
            DEF FramesInv, Whole, HeaderLen, FrameEnd
  <2>5. CASE ~HasHead
    <3>1. HeadFrame' = f
      BY <2>5, <2>1, <1>2, <1>3 DEF HasHead, HeadFrame
    <3>2. lo = SentBytes /\ hi = SentBytes
      BY <2>5, <2>1, <1>6 DEF FramesInv, Whole, Bounded
    <3>3. ~(parser_wanted_size > 2)
      BY <2>5 DEF FramesInv, Whole
    <3>4. lo' = HeadFrame'.start /\ hi' < FrameEnd(HeadFrame)'
      BY <3>1, <3>2, <1>2, <1>6 DEF FrameEnd, HeaderLen
    <3> QED BY <2>1, <2>2, <2>3, <3>3, <3>4, <1>2, <1>3 DEF Whole
  <2> QED BY <2>4, <2>5
<1>10. Fields' /\ parser' # "lost"
  BY <1>2, <1>3 DEF FramesInv, Fields, ServerSends
<1> QED BY <1>5, <1>7, <1>8, <1>9, <1>10 DEF FramesInv

(* What a step of the parser leaves alone.                                   *)
LEMMA SameFrames ==
  ASSUME FramesInv, UNCHANGED sent
  PROVE  Contiguous' /\ Fields' /\ SentBytes' = SentBytes /\ SentBytes \in Nat
BY SentBytesType DEF FramesInv, Contiguous, Fields, SentBytes, FrameEnd, HeaderLen

(* parser_data waits for the rest of its frame, which is not there or masked.*)
LEMMA WaitInv ==
  ASSUME FramesInv, NEW wanted \in Nat, wanted >= 2, Wait(wanted),
         wanted > 2 => HasHead /\ wanted <= FrameEnd(HeadFrame) - lo,
         HasHead => HeadFrame.masked \/ hi < FrameEnd(HeadFrame),
         parser # "handshake"
  PROVE  FramesInv'
<1>1. UNCHANGED <<sent, ended, lo, hi, handled>> /\ parser_wanted_size' = wanted /\ parser' = "idle"
  BY DEF Wait
<1>2. FramesTypeOK'
  BY <1>1 DEF FramesInv, FramesTypeOK
<1>3. Contiguous' /\ Bounded'
  BY <1>1, SameFrames DEF FramesInv, Bounded
<1>4. Whole'
  BY <1>1, SameFrames DEF FramesInv, Whole, HasHead, HeadFrame, FrameEnd, HeaderLen
<1> QED BY <1>1, <1>2, <1>3, <1>4, SameFrames DEF FramesInv

(* A whole frame is handed out, and parser_data starts with the next one.    *)
LEMMA ParsesFrameInv ==
  ASSUME FramesInv, HasHead, NEW wanted, ParsesFrame(HeadFrame, wanted),
         hi - lo >= HeaderLen(HeadFrame) + HeadFrame.payload, ~Wraps(HeadFrame), parser = "parsing"
  PROVE  FramesInv'
<1> DEFINE f == HeadFrame
           h == Len(handled) + 1
<1>1. sent \in Seq(Frame) /\ Len(handled) \in Nat /\ lo \in Nat /\ hi \in Nat
      /\ handled \in Seq([from : Nat, size : Nat]) /\ Len(sent) \in Nat
  BY DEF FramesInv, FramesTypeOK, Frame
<1>2. h \in 1..Len(sent) /\ f = sent[h] /\ f \in Frame /\ lo = f.start
  BY <1>1 DEF FramesInv, Whole, HasHead, HeadFrame
<1>4. HeaderLen(f) \in Nat /\ FrameEnd(f) \in Nat /\ f.payload \in Nat
  BY <1>2, HeaderLenType DEF Frame
<1>3. /\ handled' = Append(handled, [from |-> lo + HeaderLen(f), size |-> f.payload])
      /\ parser_wanted_size' = 2 /\ lo' = FrameEnd(f)
      /\ UNCHANGED <<sent, ended, hi, parser>>
  <2>1. ~(hi - lo - HeaderLen(f) < f.payload)
    <3> HIDE DEF f
    <3>1. hi - lo >= HeaderLen(f) + f.payload
      BY DEF f
    <3> QED BY <3>1, <1>1, <1>4
  <2>2. FrameSize(f) = HeaderLen(f) + f.payload /\ ~Wraps(f)
    BY <1>2, SizeOf
  <2>3. lo + FrameSize(f) = FrameEnd(f)
    BY <2>2, <1>2, <1>4, HeaderLenType
  <2> QED BY <2>1, <2>2, <2>3 DEF ParsesFrame, WantedAfter
<1>5. FramesTypeOK'
  BY <1>1, <1>3, <1>4 DEF FramesInv, FramesTypeOK
<1>6. Contiguous' /\ Bounded'
  <2>1. FrameEnd(f) <= hi
    <3>1. FrameEnd(f) = lo + HeaderLen(f) + f.payload
      BY <1>2, HeaderLenType
    <3> HIDE DEF f
    <3>2. hi - lo >= HeaderLen(f) + f.payload
      BY DEF f
    <3> QED BY <3>1, <3>2, <1>1, <1>4
  <2> QED BY <2>1, <1>3, SameFrames DEF FramesInv, Bounded
<1>7. Len(handled') = h /\ \A k \in 1..Len(handled) : handled'[k] = handled[k]
      /\ handled'[h] = [from |-> f.start + HeaderLen(f), size |-> f.payload]
  BY <1>1, <1>2, <1>3, <1>4, SMTT(60)
<1>8. lo' = IF HasHead' THEN HeadFrame'.start ELSE SentBytes'
  <2>1. CASE h < Len(sent)
    <3>1. HasHead' /\ HeadFrame' = sent[h + 1]
      BY <2>1, <1>3, <1>7 DEF HasHead, HeadFrame
    <3>2. h \in 1..Len(sent) - 1
      BY <2>1, <1>1, <1>2
    <3>3. sent[h + 1].start = FrameEnd(sent[h])
      BY <3>2 DEF FramesInv, Contiguous
    <3> QED BY <3>1, <3>3, <1>2, <1>3
  <2>2. CASE h = Len(sent)
    <3>1. ~HasHead'
      BY <2>2, <1>1, <1>3, <1>7 DEF HasHead
    <3>2. SentBytes' = FrameEnd(sent[h])
      BY <2>2, <1>2, <1>3, SameFrames DEF SentBytes
    <3> QED BY <3>1, <3>2, <1>2, <1>3
  <2> QED BY <2>1, <2>2, <1>1, <1>2
<1>9. ASSUME NEW k \in 1..Len(handled')
      PROVE  handled'[k] = [from |-> sent'[k].start + HeaderLen(sent'[k]), size |-> sent'[k].payload]
  <2>1. CASE k = h
    BY <2>1, <1>2, <1>3, <1>7
  <2>2. CASE k # h
    <3>1. k \in 1..Len(handled)
      BY <2>2, <1>1, <1>7, <1>9
    <3> QED BY <3>1, <1>3, <1>7 DEF FramesInv, Whole
  <2> QED BY <2>1, <2>2
<1>10. Whole'
  BY <1>1, <1>2, <1>3, <1>7, <1>8, <1>9 DEF Whole
<1> QED BY <1>3, <1>5, <1>6, <1>10, SameFrames DEF FramesInv

LEMMA ParserTurnInv == FramesInv /\ ParserTurn => FramesInv' \/ LostInv'
<1> SUFFICES ASSUME FramesInv, ParserTurn PROVE FramesInv' \/ LostInv'
  OBVIOUS
<1>1. lo \in Nat /\ hi \in Nat /\ parser_wanted_size \in Nat /\ parser_wanted_size >= 2
      /\ sent \in Seq(Frame) /\ parser = "parsing" /\ Len(handled) \in Nat
  BY DEF FramesInv, FramesTypeOK, Bounded, Frame, ParserTurn
<1>2. HasHead => HeadFrame \in Frame /\ lo = HeadFrame.start
  BY <1>1 DEF FramesInv, Whole, HasHead, HeadFrame
<1>3. parser_wanted_size > 2 => HasHead /\ parser_wanted_size <= FrameEnd(HeadFrame) - lo
  BY DEF FramesInv, Whole
<1>4. CASE hi - lo < parser_wanted_size
  <2>1. Wait(parser_wanted_size)
    BY <1>4 DEF ParserTurn
  <2>2. HasHead => hi < FrameEnd(HeadFrame)
    <3>1. HasHead => FrameEnd(HeadFrame) \in Nat /\ FrameEnd(HeadFrame) - lo >= 2
      BY <1>1, <1>2, HeaderLenType DEF Frame
    <3> QED BY <3>1, <1>1, <1>3, <1>4
  <2> QED BY <2>1, <2>2, <1>1, <1>3, WaitInv
<1>5. CASE ~(hi - lo < parser_wanted_size)
  <2>1. PICK k \in 1..Len(sent) : sent[k].start = lo /\ Parses(sent[k])
    BY <1>5 DEF ParserTurn
  <2>2. HasHead /\ sent[k] = HeadFrame
    BY <2>1, <1>1, <1>5, HeadStartsAtLo DEF HeadFrame
  <2> DEFINE f == HeadFrame
             header == Larger(parser_wanted_size, HeaderLen(f))
             frame == Larger(header, FrameSize(f))
  <2>3. HeaderLen(f) \in Nat /\ HeaderLen(f) >= 2 /\ f.payload \in Nat
        /\ FrameEnd(f) - lo = HeaderLen(f) + f.payload /\ FrameEnd(f) \in Nat
    <3>1. f \in Frame /\ lo = f.start
      BY <2>2, <1>2
    <3> HIDE DEF f
    <3>2. HeaderLen(f) \in Nat /\ HeaderLen(f) >= 2 /\ FrameEnd(f) \in Nat /\ f.payload \in Nat
          /\ FrameEnd(f) = f.start + HeaderLen(f) + f.payload
      BY <3>1, HeaderLenType
    <3> QED BY <3>1, <3>2, <1>1
  <2>8. /\ FrameSize(f) \in Nat /\ FrameSize(f) <= HeaderLen(f) + f.payload
        /\ ~Wraps(f) => FrameSize(f) = HeaderLen(f) + f.payload
    BY <2>2, <1>2, SizeOf
  <2>4. /\ header \in Nat /\ header >= 2 /\ header <= FrameEnd(f) - lo
        /\ frame \in Nat /\ frame >= 2 /\ frame <= FrameEnd(f) - lo
        /\ ~Wraps(f) => frame = FrameEnd(f) - lo
    <3> HIDE DEF f
    <3>1. header \in Nat /\ header >= 2 /\ header <= FrameEnd(f) - lo
      BY <2>2, <2>3, <1>1, <1>3, SMTT(60) DEF Larger, f
    <3> HIDE DEF header
    <3> QED BY <3>1, <2>3, <2>8, <1>1, SMTT(60) DEF Larger
  <2>5. CASE hi - lo < header
    <3>1. Wait(header)
      BY <2>1, <2>2, <2>5, SMTT(60) DEF Parses
    <3>2. hi < FrameEnd(f)
      BY <2>3, <2>4, <2>5, <1>1
    <3> HIDE DEF header, frame, f
    <3> QED BY <3>1, <3>2, <2>2, <2>4, <1>1, WaitInv DEF f
  <2>6. CASE ~(hi - lo < header) /\ (hi - lo < frame \/ f.masked)
    <3>1. Wait(frame)
      BY <2>1, <2>2, <2>6 DEF Parses
    <3> HIDE DEF header, frame, f
    <3>2. f.masked \/ hi < FrameEnd(f)
      BY <2>3, <2>4, <2>6, <1>1
    <3> QED BY <3>1, <3>2, <2>2, <2>4, <1>1, WaitInv DEF f
  <2>7. CASE ~(hi - lo < header) /\ ~(hi - lo < frame \/ f.masked)
    <3>1. ParsesFrame(f, frame)
      BY <2>1, <2>2, <2>7 DEF Parses
    <3>2. CASE ~Wraps(f)
      <4>1. hi - lo >= HeaderLen(f) + f.payload
        <5> HIDE DEF header, frame, f
        <5> QED BY <2>3, <2>4, <2>7, <3>2, <1>1
      <4> QED BY <3>1, <3>2, <4>1, <2>2, <1>1, ParsesFrameInv
    <3>3. CASE Wraps(f)
      <4>1. parser' = "lost" /\ sent' = sent
        BY <3>1, <3>3 DEF ParsesFrame
      <4>2. f.ext = 8
        <5>1. (f.ext = 0 => f.payload < 126) /\ (f.ext = 2 => f.payload < ShortMod)
          BY <2>1, <2>2 DEF FramesInv, Fields
        <5>2. f.ext \in {0, 2, 8} /\ HeaderLen(f) <= 2 + f.ext + 4
          BY <2>2, <1>2 DEF HeaderLen, Frame
        <5>3. HeaderLen(f) + f.payload >= SizeMod
          BY <3>3 DEF Wraps
        <5> HIDE DEF f
        <5> QED BY <5>1, <5>2, <5>3, <2>3, FramesAssumption
      <4> HIDE DEF f
      <4>3. sent[k].ext = 8 /\ Wraps(sent[k])
        BY <2>2, <3>3, <4>2 DEF f
      <4> QED BY <4>1, <4>3, <1>1 DEF LostInv, Wraps, HeaderLen
    <3> QED BY <3>2, <3>3
  <2> QED BY <2>5, <2>6, <2>7
<1> QED BY <1>4, <1>5

(* Reads append to parser_data; only the loop goes on to wait.               *)
LEMMA ReadsInv ==
  ASSUME FramesInv, UNCHANGED <<sent, lo, parser_wanted_size, handled>>, ended' \in BOOLEAN,
         hi' \in Nat, hi <= hi', hi' <= SentBytes,
         \/ hi' = hi /\ parser' = parser
         \/ parser' \in {"opened", "parsing", "cleared", "aborted"}
  PROVE  FramesInv'
<1>1. FramesTypeOK'
  BY DEF FramesInv, FramesTypeOK
<1>2. Contiguous' /\ Bounded'
  BY SameFrames DEF FramesInv, FramesTypeOK, Bounded
<1>3. Whole'
  BY SameFrames DEF FramesInv, Whole, HasHead, HeadFrame, FrameEnd, HeaderLen
<1> QED BY <1>1, <1>2, <1>3, SameFrames DEF FramesInv

LEMMA FramesStepInv == FramesInv /\ [FramesNext]_framesVars => FramesInv' \/ LostInv'
<1> SUFFICES ASSUME FramesInv, [FramesNext]_framesVars PROVE FramesInv' \/ LostInv'
  OBVIOUS
<1>0. hi \in Nat /\ hi <= SentBytes /\ SentBytes \in Nat /\ ended \in BOOLEAN
      /\ (parser = "handshake" => hi = 0)
  BY SentBytesType DEF FramesInv, FramesTypeOK, Bounded
<1>1. ASSUME NEW ext \in {0, 2, 8}, NEW masked \in BOOLEAN, NEW p \in Payloads,
             ServerSends(ext, masked, p)
      PROVE  FramesInv'
  BY <1>1, ServerSendsInv
<1>2. CASE ServerEnds
  BY <1>0, <1>2, ReadsInv DEF ServerEnds
<1>3. ASSUME NEW n \in 0..MaxHandshake, HandshakeDone(n) PROVE FramesInv'
  <2>1. hi' \in Nat /\ hi <= hi' /\ hi' <= SentBytes /\ parser' = "opened"
        /\ UNCHANGED <<sent, ended, lo, parser_wanted_size, handled>>
    BY <1>0, <1>3 DEF HandshakeDone
  <2> QED BY <2>1, <1>0, ReadsInv
<1>4. ASSUME NEW n \in 0..Chunk, Receives(n) PROVE FramesInv'
  <2>1. hi' \in Nat /\ hi <= hi' /\ hi' <= SentBytes /\ parser' \in {"parsing", "aborted"}
        /\ UNCHANGED <<sent, ended, lo, parser_wanted_size, handled>>
    BY <1>0, <1>4, FramesAssumption DEF Receives
  <2> QED BY <2>1, <1>0, ReadsInv
<1>5. CASE SeesEnd
  BY <1>0, <1>5, ReadsInv DEF SeesEnd
<1>6. CASE Cancelled
  BY <1>0, <1>6, ReadsInv DEF Cancelled
<1>7. CASE ParserTurn
  BY <1>7, ParserTurnInv
<1>8. CASE UNCHANGED framesVars
  BY <1>0, <1>8, ReadsInv DEF framesVars
<1> QED BY <1>1, <1>2, <1>3, <1>4, <1>5, <1>6, <1>7, <1>8 DEF FramesNext

(* Nothing but the server goes on when the parser has lost its place.        *)
LEMMA LostStep == LostInv /\ [FramesNext]_framesVars => LostInv'
<1> SUFFICES ASSUME LostInv, [FramesNext]_framesVars PROVE LostInv'
  OBVIOUS
<1>1. ASSUME NEW ext \in {0, 2, 8}, NEW masked \in BOOLEAN, NEW p \in Payloads,
             ServerSends(ext, masked, p)
      PROVE  LostInv'
  <2> DEFINE f == [start |-> SentBytes, ext |-> ext, masked |-> masked, payload |-> p]
  <2>1. SentBytes \in Nat
    <3>1. sent # <<>> => sent[Len(sent)] \in Frame
      BY DEF LostInv
    <3> QED BY <3>1, HeaderLenType DEF SentBytes
  <2>2. f \in Frame
    BY <2>1, FramesAssumption DEF Frame
  <2>3. sent \in Seq(Frame) /\ sent' = Append(sent, f) /\ parser' = "lost"
    BY <1>1 DEF LostInv, ServerSends
  <2>4. /\ sent' \in Seq(Frame) /\ Len(sent') = Len(sent) + 1 /\ Len(sent) \in Nat
        /\ \A k \in 1..Len(sent) : sent'[k] = sent[k]
    BY <2>2, <2>3
  <2> QED BY <2>3, <2>4 DEF LostInv, Wraps, HeaderLen
<1>2. CASE ServerEnds \/ UNCHANGED framesVars
  BY <1>2 DEF ServerEnds, framesVars, LostInv, Wraps, HeaderLen
<1> QED BY <1>1, <1>2 DEF FramesNext, HandshakeDone, Receives, SeesEnd, Cancelled, ParserTurn, LostInv

(* For frames of any size and any cut of the stream into reads: the payloads *)
(* handed to handle_frame are those of the server's frames in order, and the *)
(* parser waits only over a frame that is not all there, or masked.  Only a  *)
(* frame whose size does not fit 64 bits ends that.                          *)
THEOREM FramesAreWhole == FramesSpec => []FramesWhole
<1>1. FramesInit => FramesInv \/ LostInv
  BY FramesInitInv
<1>2. (FramesInv \/ LostInv) /\ [FramesNext]_framesVars => FramesInv' \/ LostInv'
  BY FramesStepInv, LostStep
<1>3. FramesInv \/ LostInv => FramesWhole
  BY DEF FramesInv, LostInv, FramesWhole
<1> QED BY <1>1, <1>2, <1>3, PTL DEF FramesSpec

-------------------------------------------------------------------------------
(* Texts.  A validation is a walk over the text from one sequence to the     *)
(* next, so that what is said of it at a place is proved from what is said   *)
(* further on; the walk over a text that goes on, or over the end of one, is *)
(* the same walk; and the walk ends well where the standard's table has a    *)
(* character at each of its places.                                          *)

(* What holds at a place whenever it holds further on holds everywhere.      *)
LEMMA FromTheRight ==
  ASSUME NEW N \in Nat, NEW S, \A i \in 1..N : (\A j \in 1..N : i < j => j \in S) => i \in S
  PROVE  \A i \in 1..N : i \in S
<1> DEFINE T == {k \in Nat : k < N /\ (N - k) \notin S}
<1>1. T = {}
  <2> SUFFICES ASSUME T # {} PROVE FALSE
    OBVIOUS
  <2>1. PICK k \in T : \A j \in T : k <= j
    BY LeastNumber
  <2>2. k \in Nat /\ k < N /\ (N - k) \notin S
    OBVIOUS
  <2>3. ASSUME NEW j \in 1..N, (N - k) < j PROVE j \in S
    <3>1. N - j \in Nat /\ N - j < k /\ N - j < N /\ N - (N - j) = j
      BY <2>2, <2>3
    <3>2. (N - j) \notin T
      BY <3>1, <2>1, <2>2
    <3> QED BY <3>1, <3>2
  <2>4. N - k \in 1..N
    BY <2>2
  <2> QED BY <2>2, <2>3, <2>4
<1>2. ASSUME NEW i \in 1..N PROVE i \in S
  <2>1. N - i \in Nat /\ N - i < N /\ N - (N - i) = i
    OBVIOUS
  <2>2. (N - i) \notin T
    BY <1>1
  <2> QED BY <2>1, <2>2
<1> QED BY <1>2

(* A function that is defined by looking further on, place by place, exists. *)
Jumps(N, stop, base, next, f) ==
  f = [i \in 1..N |-> IF i \in stop THEN base[i] ELSE f[next[i]]]

LEMMA JumpRecursion ==
  ASSUME NEW N \in Nat \ {0}, NEW stop, NEW base, NEW next,
         \A i \in 1..N : i \in stop \/ (next[i] \in 1..N /\ next[i] > i)
  PROVE  \E f : Jumps(N, stop, base, next, f)
<1> DEFINE Right(g, i) == g[i] = IF i \in stop THEN base[i] ELSE g[next[i]]
           Solved(k) == \E g : g = [i \in 1..N |-> g[i]] /\ \A i \in 1..N : k <= i => Right(g, i)
           S == {k \in 1..N : Solved(k)}
<1>1. Solved(N + 1)
  <2> DEFINE g == [i \in 1..N |-> 0]
  <2>1. g = [i \in 1..N |-> g[i]]
    OBVIOUS
  <2>2. \A i \in 1..N : ~(N + 1 <= i)
    OBVIOUS
  <2> QED BY <2>1, <2>2
<1>2. ASSUME NEW k \in 1..N, Solved(k + 1)
      PROVE  Solved(k)
  <2>1. PICK g : g = [i \in 1..N |-> g[i]] /\ \A i \in 1..N : k + 1 <= i => Right(g, i)
    BY <1>2
  <2> DEFINE v == IF k \in stop THEN base[k] ELSE g[next[k]]
             h == [i \in 1..N |-> IF i = k THEN v ELSE g[i]]
  <2>2. h = [i \in 1..N |-> h[i]] /\ \A i \in 1..N : h[i] = IF i = k THEN v ELSE g[i]
    OBVIOUS
  <2> HIDE DEF h
  <2>3. ASSUME NEW i \in 1..N, k < i PROVE Right(h, i)
    <3>1. i # k /\ h[i] = g[i] /\ Right(g, i)
      BY <2>1, <2>2, <2>3
    <3>2. CASE i \in stop
      BY <3>1, <3>2
    <3>3. CASE i \notin stop
      <4>1. next[i] \in 1..N /\ next[i] # k
        BY <2>3, <3>3
      <4>2. h[next[i]] = g[next[i]]
        BY <4>1, <2>2
      <4> QED BY <3>1, <3>3, <4>2
    <3> QED BY <3>2, <3>3
  <2>4. Right(h, k)
    <3>1. h[k] = v
      BY <2>2
    <3>2. CASE k \in stop
      BY <3>1, <3>2
    <3>3. CASE k \notin stop
      <4>1. next[k] \in 1..N /\ next[k] # k
        BY <3>3
      <4>2. h[next[k]] = g[next[k]]
        BY <4>1, <2>2
      <4> QED BY <3>1, <3>3, <4>2
    <3> QED BY <3>2, <3>3
  <2>5. \A i \in 1..N : k <= i => i = k \/ k < i
    OBVIOUS
  <2> HIDE DEF Right
  <2>6. \A i \in 1..N : k <= i => Right(h, i)
    BY <2>3, <2>4, <2>5
  <2> QED BY <2>2, <2>6
<1>3. ASSUME NEW k \in 1..N, \A j \in 1..N : k < j => j \in S
      PROVE  k \in S
  <2>1. CASE k = N
    BY <2>1, <1>1, <1>2
  <2>2. CASE k # N
    <3>1. k + 1 \in 1..N /\ k < k + 1
      BY <2>2
    <3>2. Solved(k + 1)
      <4> HIDE DEF Solved
      <4> QED BY <3>1, <1>3
    <3> QED BY <3>2, <1>2
  <2> QED BY <2>1, <2>2
<1>4. Solved(1)
  <2> HIDE DEF Solved
  <2>1. \A k \in 1..N : (\A j \in 1..N : k < j => j \in S) => k \in S
    BY <1>3
  <2>2. N \in Nat /\ 1 \in 1..N
    OBVIOUS
  <2> HIDE DEF S
  <2>3. 1 \in S
    BY <2>1, <2>2, FromTheRight
  <2> QED BY <2>3 DEF S
<1>5. PICK g : g = [i \in 1..N |-> g[i]] /\ \A i \in 1..N : Right(g, i)
  BY <1>4
<1>6. Jumps(N, stop, base, next, g)
  BY <1>5 DEF Jumps
<1> QED BY <1>6

-------------------------------------------------------------------------------
(* countl_one, by what it counts and by ranges.                              *)
LEMMA OnesAre ==
  ASSUME NEW c \in Bytes, NEW k \in 0..8,
         \A n \in 1..8 : c >= 256 - 2^(8 - n) <=> n <= k
  PROVE  Ones(c) = k
<1>1. {n \in 1..8 : c >= 256 - 2^(8 - n)} = 1..k
  <2>1. \A n \in 1..8 : n \in 1..k <=> n <= k
    OBVIOUS
  <2>2. 1..k \subseteq 1..8
    OBVIOUS
  <2> HIDE DEF Bytes
  <2> QED BY <2>1, <2>2, Zenon
<1>2. Cardinality(1..k) = k
  <2>1. 1 \in Int /\ k \in Int
    OBVIOUS
  <2>2. Cardinality(1..k) = IF 1 > k THEN 0 ELSE k - 1 + 1
    BY <2>1, FS_Interval
  <2> QED BY <2>2
<1> QED BY <1>1, <1>2 DEF Ones

LEMMA OnesOf ==
  ASSUME NEW c \in Bytes
  PROVE  /\ c < 128 => Ones(c) = 0
         /\ c \in 128..191 => Ones(c) = 1
         /\ c \in 192..223 => Ones(c) = 2
         /\ c \in 224..239 => Ones(c) = 3
         /\ c \in 240..247 => Ones(c) = 4
         /\ c \in 248..251 => Ones(c) = 5
         /\ c \in 252..253 => Ones(c) = 6
         /\ c = 254 => Ones(c) = 7
         /\ c = 255 => Ones(c) = 8
<1>1. /\ 256 - 2^(8 - 1) = 128 /\ 256 - 2^(8 - 2) = 192 /\ 256 - 2^(8 - 3) = 224
      /\ 256 - 2^(8 - 4) = 240 /\ 256 - 2^(8 - 5) = 248 /\ 256 - 2^(8 - 6) = 252
      /\ 256 - 2^(8 - 7) = 254 /\ 256 - 2^(8 - 8) = 255
  OBVIOUS
<1>2. \A n \in 1..8 : n \in {1, 2, 3, 4, 5, 6, 7, 8}
  OBVIOUS
<1> DEFINE Lit(k) == \A n \in 1..8 : c >= 256 - 2^(8 - n) <=> n <= k
<1>3. /\ c < 128 => Lit(0)
      /\ c \in 128..191 => Lit(1)
      /\ c \in 192..223 => Lit(2)
      /\ c \in 224..239 => Lit(3)
      /\ c \in 240..247 => Lit(4)
      /\ c \in 248..251 => Lit(5)
      /\ c \in 252..253 => Lit(6)
      /\ c = 254 => Lit(7)
      /\ c = 255 => Lit(8)
  <2>1. ASSUME NEW k, c >= 128 <=> 1 <= k, c >= 192 <=> 2 <= k, c >= 224 <=> 3 <= k,
               c >= 240 <=> 4 <= k, c >= 248 <=> 5 <= k, c >= 252 <=> 6 <= k,
               c >= 254 <=> 7 <= k, c >= 255 <=> 8 <= k
        PROVE  Lit(k)
    <3> SUFFICES ASSUME NEW n \in 1..8 PROVE c >= 256 - 2^(8 - n) <=> n <= k
      OBVIOUS
    <3>1. n \in {1, 2, 3, 4, 5, 6, 7, 8}
      BY <1>2
    <3> HIDE DEF Bytes
    <3>2. CASE n = 1
      BY ONLY <3>2, <1>1, <2>1
    <3>3. CASE n = 2
      BY ONLY <3>3, <1>1, <2>1
    <3>4. CASE n = 3
      BY ONLY <3>4, <1>1, <2>1
    <3>5. CASE n = 4
      BY ONLY <3>5, <1>1, <2>1
    <3>6. CASE n = 5
      BY ONLY <3>6, <1>1, <2>1
    <3>7. CASE n = 6
      BY ONLY <3>7, <1>1, <2>1
    <3>8. CASE n = 7
      BY ONLY <3>8, <1>1, <2>1
    <3>9. CASE n = 8
      BY ONLY <3>9, <1>1, <2>1
    <3> QED BY ONLY <3>1, <3>2, <3>3, <3>4, <3>5, <3>6, <3>7, <3>8, <3>9
  <2> HIDE DEF Lit
  <2> QED BY <2>1 DEF Bytes
<1>4. \A k \in 0..8 : Lit(k) => Ones(c) = k
  BY OnesAre
<1> HIDE DEF Lit
<1> QED BY <1>3, <1>4

LEMMA OnesRange == \A c \in Bytes : Ones(c) \in 0..8 /\ (Ones(c) = 1 <=> c \in 128..191)
BY OnesOf DEF Bytes

-------------------------------------------------------------------------------
(* The first k bytes of a sequence of at most four, as a number.             *)
Lead(c) == c % 2^(7 - Ones(c))

Point(s, i, k) ==
  IF k = 1 THEN Lead(s[i])
  ELSE IF k = 2 THEN 64 * Lead(s[i]) + (s[i + 1] % 64)
  ELSE IF k = 3 THEN 64 * (64 * Lead(s[i]) + (s[i + 1] % 64)) + (s[i + 2] % 64)
  ELSE 64 * (64 * (64 * Lead(s[i]) + (s[i + 1] % 64)) + (s[i + 2] % 64)) + (s[i + 3] % 64)

LEMMA CodePointIs ==
  ASSUME NEW s, NEW i \in Nat, NEW k \in 1..4
  PROVE  CodePoint(s, i, k) = Point(s, i, k)
<1> DEFINE body(f) == [t \in 0..(k - 1) |-> IF t = 0 THEN Lead(s[i]) ELSE 64 * f[t - 1] + (s[i + t] % 64)]
           w == CHOOSE f : f = body(f)
           g == [t \in 0..(k - 1) |-> Point(s, i, t + 1)]
<1>1. CodePoint(s, i, k) = w[k - 1]
  BY DEF CodePoint, Lead
<1>2. g = body(g)
  <2> SUFFICES ASSUME NEW t \in 0..(k - 1)
               PROVE  Point(s, i, t + 1) = IF t = 0 THEN Lead(s[i]) ELSE 64 * g[t - 1] + (s[i + t] % 64)
    BY Zenon
  <2>1. CASE t = 0
    BY <2>1 DEF Point
  <2>2. CASE t # 0
    <3>1. t \in {1, 2, 3} /\ t - 1 \in 0..(k - 1) /\ (t - 1) + 1 = t
      BY <2>2
    <3>2. g[t - 1] = Point(s, i, t)
      BY <3>1
    <3> HIDE DEF g
    <3>3. Point(s, i, t + 1) = 64 * Point(s, i, t) + (s[i + t] % 64)
      BY <3>1 DEF Point
    <3> QED BY <3>2, <3>3, <2>2
  <2> QED BY <2>1, <2>2
<1>3. w = body(w)
  <2> HIDE DEF g
  <2> QED BY <1>2
<1> HIDE DEF w
<1>4. \A t \in 0..(k - 1) : w[t] = IF t = 0 THEN Lead(s[i]) ELSE 64 * w[t - 1] + (s[i + t] % 64)
  BY <1>3
<1>5. w[0] = Lead(s[i])
  BY <1>4
<1>6. k > 1 => w[1] = 64 * w[0] + (s[i + 1] % 64)
  BY <1>4
<1>7. k > 2 => w[2] = 64 * w[1] + (s[i + 2] % 64)
  BY <1>4
<1>8. k > 3 => w[3] = 64 * w[2] + (s[i + 3] % 64)
  BY <1>4
<1>9. k \in {1, 2, 3, 4}
  OBVIOUS
<1> QED BY <1>1, <1>5, <1>6, <1>7, <1>8, <1>9 DEF Point

(* The verdict on the sequence at i, case by case.                           *)
Tails(s, i, k) == \A t \in 1..(k - 1) : IsTail(s[i + t])

Refused(m, n) == n \in {1, 7, 8} \/ (n \in {5, 6} /\ m # "normal")

Forbidden(m, p, n) == m # "normal" /\ (Overlong(p, n) \/ Disallowed(m, p))

TooLarge(m, p) == m \in {"pedantic", "extreme"} /\ p > 1114111

LEMMA VerdictIs ==
  ASSUME NEW m, NEW s \in Seq(Bytes), NEW i \in 1..Len(s)
  PROVE  LET n == Ones(s[i])
             r == Len(s) - i + 1 IN
         /\ n \in 0..8
         /\ n = 0 => Verdict(m, s, i) = "valid"
         /\ Refused(m, n) => Verdict(m, s, i) = "invalid"
         /\ n # 0 /\ ~Refused(m, n) =>
              /\ n <= r => Verdict(m, s, i) =
                   IF Tails(s, i, n) /\ ~Forbidden(m, Point(s, i, n), n) THEN "valid" ELSE "invalid"
              /\ r < n => Verdict(m, s, i) =
                   IF Tails(s, i, r) /\ ~TooLarge(m, Point(s, i, r) * 64^(n - r))
                     THEN "valid_incomplete" ELSE "invalid"
<1> DEFINE n == Ones(s[i])
           r == Len(s) - i + 1
           k == IF n < r THEN n ELSE r
           T == \A t \in 1..(k - 1) : IsTail(s[i + t])
           p == CodePoint(s, i, k)
           q == CodePoint(s, i, n)
<1>1. n \in 0..8 /\ r \in Nat \ {0} /\ i \in Nat
  BY OnesRange
<1>2. ASSUME n # 0, ~Refused(m, n)
      PROVE  Verdict(m, s, i) =
               IF \E t \in 1..(k - 1) : ~IsTail(s[i + t]) THEN "invalid"
               ELSE IF k < n
                 THEN IF TooLarge(m, p * 64^(n - k)) THEN "invalid" ELSE "valid_incomplete"
               ELSE IF Forbidden(m, q, n) THEN "invalid" ELSE "valid"
  BY <1>2, SMT DEF Verdict, Refused, TooLarge, Forbidden
<1>3. T <=> ~\E t \in 1..(k - 1) : ~IsTail(s[i + t])
  BY Zenon
<1>4. ASSUME n <= r PROVE k = n /\ ~(k < n) /\ (T <=> Tails(s, i, n))
  <2>1. k = n
    BY <1>1, <1>4
  <2> HIDE DEF k, n
  <2>2. ~(n < n)
    BY <1>1
  <2> QED BY <2>1, <2>2, Zenon DEF Tails
<1>5. ASSUME r < n PROVE k = r /\ k < n /\ (T <=> Tails(s, i, r))
  <2>1. k = r
    BY <1>1, <1>5
  <2> HIDE DEF k, r
  <2> QED BY <2>1, <1>5, Zenon DEF Tails
<1>6. m # "normal" /\ n # 0 /\ ~Refused(m, n) => n \in 1..4 /\ q = Point(s, i, n)
  BY <1>1, CodePointIs DEF Refused
<1>7. m # "normal" /\ n # 0 /\ ~Refused(m, n) /\ r < n => p = Point(s, i, r)
  BY <1>1, <1>5, <1>6, CodePointIs
<1>9. n = 0 => Verdict(m, s, i) = "valid"
  BY SMT DEF Verdict
<1>10. Refused(m, n) => Verdict(m, s, i) = "invalid"
  BY <1>1, SMT DEF Verdict, Refused
<1> HIDE DEF p, q, k, T
<1>8. ASSUME n # 0, ~Refused(m, n)
      PROVE  Verdict(m, s, i) =
               IF ~T THEN "invalid"
               ELSE IF k < n
                 THEN IF TooLarge(m, p * 64^(n - k)) THEN "invalid" ELSE "valid_incomplete"
               ELSE IF Forbidden(m, q, n) THEN "invalid" ELSE "valid"
  BY <1>2, <1>3, <1>8, Zenon
<1> HIDE DEF n, r
<1>11. ASSUME n # 0, ~Refused(m, n), n <= r
       PROVE  Verdict(m, s, i) = IF ~Tails(s, i, n) THEN "invalid"
                                 ELSE IF Forbidden(m, q, n) THEN "invalid" ELSE "valid"
  BY <1>4, <1>8, <1>11, Zenon
<1>12. ASSUME n # 0, ~Refused(m, n), r < n
       PROVE  Verdict(m, s, i) = IF ~Tails(s, i, r) THEN "invalid"
                                 ELSE IF TooLarge(m, p * 64^(n - r)) THEN "invalid" ELSE "valid_incomplete"
  BY <1>5, <1>8, <1>12, Zenon
<1>13. m = "normal" => \A x, y : ~Forbidden(m, x, y) /\ ~TooLarge(m, x)
  BY SMT DEF Forbidden, TooLarge
<1> QED BY <1>1, <1>6, <1>7, <1>9, <1>10, <1>11, <1>12, <1>13, Zenon DEF n, r

-------------------------------------------------------------------------------
Step(c) == IF Ones(c) = 0 THEN 1 ELSE Ones(c)

Verdicts == {"valid", "invalid", "valid_incomplete"}

LEMMA ValidStep ==
  ASSUME NEW m, NEW s \in Seq(Bytes), NEW i \in 1..Len(s)
  PROVE  /\ Verdict(m, s, i) \in Verdicts
         /\ Verdict(m, s, i) = "valid" => Step(s[i]) \in 1..(Len(s) - i + 1)
<1> DEFINE n == Ones(s[i])
           r == Len(s) - i + 1
<1>1. n \in 0..8 /\ r \in Nat \ {0} /\ (n <= r \/ r < n)
  <2>1. n \in 0..8
    BY OnesRange
  <2>2. r \in Nat \ {0}
    OBVIOUS
  <2> HIDE DEF n, r
  <2> QED BY <2>1, <2>2
<1>2. n = 0 => Verdict(m, s, i) = "valid"
  BY VerdictIs
<1>3. Refused(m, n) => Verdict(m, s, i) = "invalid"
  BY VerdictIs
<1>4. n # 0 /\ ~Refused(m, n) /\ n <= r => Verdict(m, s, i) \in {"valid", "invalid"}
  BY VerdictIs
<1>5. n # 0 /\ ~Refused(m, n) /\ r < n => Verdict(m, s, i) \in {"valid_incomplete", "invalid"}
  BY VerdictIs
<1> HIDE DEF n, r
<1>6. Verdict(m, s, i) \in Verdicts
  BY <1>1, <1>2, <1>3, <1>4, <1>5 DEF Verdicts
<1>7. Verdict(m, s, i) = "valid" => n <= r \/ n = 0
  BY <1>1, <1>2, <1>3, <1>4, <1>5
<1> QED BY <1>1, <1>6, <1>7 DEF Step, n, r

(* t is s without its first d bytes, and u begins with s.                    *)
EndOf(t, s, d) == Len(t) = Len(s) - d /\ \A j \in 1..Len(t) : t[j] = s[d + j]

Begins(s, u) == Len(s) <= Len(u) /\ \A j \in 1..Len(s) : u[j] = s[j]

(* The verdict depends on nothing in front of the sequence.                  *)
LEMMA VerdictOfRest ==
  ASSUME NEW m, NEW s \in Seq(Bytes), NEW d \in 0..Len(s), NEW t \in Seq(Bytes), EndOf(t, s, d),
         NEW i \in 1..Len(t)
  PROVE  Verdict(m, t, i) = Verdict(m, s, d + i)
<1> DEFINE n == Ones(t[i])
           r == Len(t) - i + 1
<1>1. /\ d + i \in 1..Len(s) /\ s[d + i] = t[i] /\ Ones(s[d + i]) = n
      /\ Len(s) - (d + i) + 1 = r /\ r \in Nat \ {0} /\ i \in Nat /\ d \in Nat
  BY DEF EndOf
<1>2. ASSUME NEW k \in Nat, k < r PROVE t[i + k] = s[(d + i) + k]
  <2>1. i + k \in 1..Len(t) /\ d + (i + k) = (d + i) + k
    BY <1>1, <1>2, SMTT(30)
  <2> QED BY <2>1 DEF EndOf
<1>3. n \in 0..8
  BY VerdictIs
<1> HIDE DEF r
<1>4. ASSUME NEW k \in 1..r PROVE Tails(t, i, k) <=> Tails(s, d + i, k)
  <2>1. \A x \in 1..(k - 1) : x \in Nat /\ x < r
    BY <1>1
  <2>2. \A x \in 1..(k - 1) : t[i + x] = s[(d + i) + x]
    BY <2>1, <1>2
  <2> QED BY <2>2, Zenon DEF Tails
<1>5. ASSUME NEW k \in 1..r, k <= 4 PROVE Point(t, i, k) = Point(s, d + i, k)
  <2>1. t[i] = s[d + i]
    BY <1>1
  <2>2. k = 1 \/ k = 2 \/ k = 3 \/ k = 4
    <3>1. k \in Int /\ 1 <= k
      BY <1>1
    <3> QED BY ONLY <3>1, <1>5, SMT
  <2>3. 1 < k => t[i + 1] = s[(d + i) + 1]
    BY <1>1, <1>2
  <2>4. 2 < k => t[i + 2] = s[(d + i) + 2]
    BY <1>1, <1>2
  <2>5. 3 < k => t[i + 3] = s[(d + i) + 3]
    BY <1>1, <1>2
  <2> QED BY <2>1, <2>2, <2>3, <2>4, <2>5 DEF Point
<1> HIDE DEF n
<1>6. CASE n = 0
  BY <1>6, <1>1, VerdictIs DEF n
<1>7. CASE Refused(m, n)
  BY <1>7, <1>1, VerdictIs DEF n
<1>8. CASE n # 0 /\ ~Refused(m, n) /\ n <= r
  <2>1. Verdict(m, t, i) =
          IF Tails(t, i, n) /\ ~Forbidden(m, Point(t, i, n), n) THEN "valid" ELSE "invalid"
    BY <1>8, VerdictIs DEF n, r
  <2>2. Verdict(m, s, d + i) =
          IF Tails(s, d + i, n) /\ ~Forbidden(m, Point(s, d + i, n), n) THEN "valid" ELSE "invalid"
    BY <1>8, <1>1, VerdictIs
  <2>3. n \in 1..r
    BY <1>3, <1>8, <1>1
  <2>4. Tails(t, i, n) <=> Tails(s, d + i, n)
    BY <2>3, <1>4
  <2>5. Forbidden(m, Point(t, i, n), n) <=> Forbidden(m, Point(s, d + i, n), n)
    <3>1. CASE m = "normal"
      BY <3>1 DEF Forbidden
    <3>2. CASE m # "normal"
      <4>1. n <= 4
        BY <3>2, <1>3, <1>8 DEF Refused
      <4>2. Point(t, i, n) = Point(s, d + i, n)
        BY <4>1, <2>3, <1>5
      <4> QED BY <4>2
    <3> QED BY <3>1, <3>2
  <2> QED BY <2>1, <2>2, <2>4, <2>5
<1>9. CASE n # 0 /\ ~Refused(m, n) /\ r < n
  <2>1. Verdict(m, t, i) =
          IF Tails(t, i, r) /\ ~TooLarge(m, Point(t, i, r) * 64^(n - r))
            THEN "valid_incomplete" ELSE "invalid"
    BY <1>9, VerdictIs DEF n, r
  <2>2. Verdict(m, s, d + i) =
          IF Tails(s, d + i, r) /\ ~TooLarge(m, Point(s, d + i, r) * 64^(n - r))
            THEN "valid_incomplete" ELSE "invalid"
    BY <1>9, <1>1, VerdictIs
  <2>3. r \in 1..r
    BY <1>1
  <2>4. Tails(t, i, r) <=> Tails(s, d + i, r)
    BY <2>3, <1>4
  <2>5. TooLarge(m, Point(t, i, r) * 64^(n - r)) <=> TooLarge(m, Point(s, d + i, r) * 64^(n - r))
    <3>1. CASE m = "normal"
      BY <3>1, SMT DEF TooLarge
    <3>2. CASE m # "normal"
      <4>1. r <= 4
        BY <3>2, <1>1, <1>3, <1>9 DEF Refused
      <4>2. Point(t, i, r) = Point(s, d + i, r)
        BY <4>1, <2>3, <1>5
      <4> QED BY <4>2
    <3> QED BY <3>1, <3>2
  <2> QED BY <2>1, <2>2, <2>4, <2>5
<1> QED BY <1>1, <1>3, <1>6, <1>7, <1>8, <1>9

LEMMA LeadIs ==
  ASSUME NEW c \in Bytes
  PROVE  /\ Ones(c) = 2 => c \in 192..223 /\ Lead(c) = c - 192
         /\ Ones(c) = 3 => c \in 224..239 /\ Lead(c) = c - 224
         /\ Ones(c) = 4 => c \in 240..247 /\ Lead(c) = c - 240
<1>1. /\ Ones(c) = 2 => c \in 192..223
      /\ Ones(c) = 3 => c \in 224..239
      /\ Ones(c) = 4 => c \in 240..247
  BY OnesOf DEF Bytes
<1>2. Ones(c) = 2 => Lead(c) = c % 32
  <2>1. Ones(c) = 2 => Lead(c) = c % 2^(7 - 2)
    BY Zenon DEF Lead
  <2>2. 2^(7 - 2) = 32
    OBVIOUS
  <2> QED BY <2>1, <2>2, Zenon
<1>3. Ones(c) = 3 => Lead(c) = c % 16
  <2>1. Ones(c) = 3 => Lead(c) = c % 2^(7 - 3)
    BY Zenon DEF Lead
  <2>2. 2^(7 - 3) = 16
    OBVIOUS
  <2> QED BY <2>1, <2>2, Zenon
<1>4. Ones(c) = 4 => Lead(c) = c % 8
  <2>1. Ones(c) = 4 => Lead(c) = c % 2^(7 - 4)
    BY Zenon DEF Lead
  <2>2. 2^(7 - 4) = 8
    OBVIOUS
  <2> QED BY <2>1, <2>2, Zenon
<1> QED BY <1>1, <1>2, <1>3, <1>4

(* What is still to come of a sequence only adds to its number.              *)
LEMMA PointGrows ==
  ASSUME NEW u, NEW i \in Nat, NEW n \in 2..4, NEW r \in 1..n, NEW k \in r..n,
         \A x \in 0..(k - 1) : u[i + x] \in Bytes, Ones(u[i]) = n
  PROVE  /\ Point(u, i, k) \in Nat
         /\ Point(u, i, r) * 64^(n - r) \in Nat /\ Point(u, i, k) * 64^(n - k) \in Nat
         /\ Point(u, i, r) * 64^(n - r) <= Point(u, i, k) * 64^(n - k)
<1> DEFINE P(j) == Point(u, i, j)
<1>1. u[i] \in Bytes
  <2>1. 0 \in 0..(k - 1) /\ i + 0 = i
    OBVIOUS
  <2> QED BY <2>1
<1>2. P(1) \in Nat
  <2>1. n = 2 \/ n = 3 \/ n = 4
    OBVIOUS
  <2>2. Lead(u[i]) \in Nat
    BY <1>1, <2>1, LeadIs
  <2> QED BY <2>2 DEF Point
<1>3. ASSUME NEW x \in 1..(k - 1) PROVE u[i + x] % 64 \in Nat
  BY DEF Bytes
<1>4. k > 1 => P(2) \in Nat /\ 64 * P(1) <= P(2)
  <2>1. P(2) = 64 * P(1) + (u[i + 1] % 64)
    BY DEF Point
  <2> HIDE DEF P
  <2> QED BY <2>1, <1>2, <1>3
<1>5. k > 2 => P(3) \in Nat /\ 64 * P(2) <= P(3)
  <2>1. P(3) = 64 * P(2) + (u[i + 2] % 64)
    BY DEF Point
  <2> HIDE DEF P
  <2> QED BY <2>1, <1>3, <1>4
<1>6. k > 3 => P(4) \in Nat /\ 64 * P(3) <= P(4)
  <2>1. P(4) = 64 * P(3) + (u[i + 3] % 64)
    BY DEF Point
  <2> HIDE DEF P
  <2> QED BY <2>1, <1>3, <1>5
<1> HIDE DEF P
<1> DEFINE E(d) == 64^d
<1>7. E(0) = 1 /\ E(1) = 64 /\ E(2) = 4096 /\ E(3) = 262144
  OBVIOUS
<1> HIDE DEF E
<1> SUFFICES /\ P(k) \in Nat /\ P(r) * E(n - r) \in Nat /\ P(k) * E(n - k) \in Nat
             /\ P(r) * E(n - r) <= P(k) * E(n - k)
  BY Zenon DEF P, E
<1>8. CASE n = 2
  <2>1. (r = 1 \/ r = 2) /\ (k = 1 \/ k = 2) /\ r <= k
    BY <1>8
  <2>2. n - 1 = 1 /\ n - 2 = 0
    BY <1>8
  <2> QED BY <1>2, <1>4, <1>7, <2>1, <2>2
<1>9. CASE n = 3
  <2>1. (r = 1 \/ r = 2 \/ r = 3) /\ (k = 1 \/ k = 2 \/ k = 3) /\ r <= k
    BY <1>9
  <2>2. n - 1 = 2 /\ n - 2 = 1 /\ n - 3 = 0
    BY <1>9
  <2> QED BY <1>2, <1>4, <1>5, <1>7, <2>1, <2>2
<1>10. CASE n = 4
  <2>1. (r = 1 \/ r = 2 \/ r = 3 \/ r = 4) /\ (k = 1 \/ k = 2 \/ k = 3 \/ k = 4) /\ r <= k
    BY <1>10
  <2>2. n - 1 = 3 /\ n - 2 = 2 /\ n - 3 = 1 /\ n - 4 = 0
    BY <1>10
  <2> QED BY <1>2, <1>4, <1>5, <1>6, <1>7, <2>1, <2>2
<1>11. n = 2 \/ n = 3 \/ n = 4
  OBVIOUS
<1> QED BY <1>8, <1>9, <1>10, <1>11

(* What follows can neither spoil a valid sequence nor save an invalid one.  *)
LEMMA VerdictExtends ==
  ASSUME NEW m, NEW s \in Seq(Bytes), NEW u \in Seq(Bytes), Begins(s, u),
         NEW i \in 1..Len(s)
  PROVE  Verdict(m, s, i) \in {"valid", "invalid"} => Verdict(m, u, i) = Verdict(m, s, i)
<1> DEFINE n == Ones(s[i])
           r == Len(s) - i + 1
           q == Len(u) - i + 1
<1>1. /\ u[i] = s[i] /\ Ones(u[i]) = n /\ i \in 1..Len(u)
      /\ r \in Nat \ {0} /\ q \in Nat \ {0} /\ r <= q /\ i \in Nat
  BY DEF Begins
<1>2. ASSUME NEW k \in Nat, k < r PROVE u[i + k] = s[i + k]
  <2>1. i + k \in 1..Len(s)
    BY <1>1, <1>2
  <2> QED BY <2>1 DEF Begins
<1>3. ASSUME NEW k \in Nat, k < q PROVE u[i + k] \in Bytes
  <2>1. i + k \in 1..Len(u)
    BY <1>1, <1>3
  <2> QED BY <2>1
<1>4. n \in 0..8
  BY VerdictIs
<1> HIDE DEF r, q
<1>5. ASSUME NEW k \in 1..r PROVE Tails(u, i, k) <=> Tails(s, i, k)
  <2>1. \A x \in 1..(k - 1) : x \in Nat /\ x < r
    BY <1>1
  <2>2. \A x \in 1..(k - 1) : u[i + x] = s[i + x]
    BY <2>1, <1>2
  <2> QED BY <2>2, Zenon DEF Tails
<1>6. ASSUME NEW k \in 1..r, k <= 4 PROVE Point(u, i, k) = Point(s, i, k)
  <2>1. u[i] = s[i]
    BY <1>1
  <2>2. k = 1 \/ k = 2 \/ k = 3 \/ k = 4
    <3>1. k \in Int /\ 1 <= k
      BY <1>1
    <3> QED BY ONLY <3>1, <1>6, SMT
  <2>3. 1 < k => u[i + 1] = s[i + 1]
    BY <1>1, <1>2
  <2>4. 2 < k => u[i + 2] = s[i + 2]
    BY <1>1, <1>2
  <2>5. 3 < k => u[i + 3] = s[i + 3]
    BY <1>1, <1>2
  <2> QED BY <2>1, <2>2, <2>3, <2>4, <2>5 DEF Point
<1> HIDE DEF n
<1>7. CASE n = 0
  BY <1>7, <1>1, VerdictIs DEF n
<1>8. CASE Refused(m, n)
  BY <1>8, <1>1, VerdictIs DEF n
<1>9. CASE n # 0 /\ ~Refused(m, n) /\ n <= r
  <2>1. Verdict(m, s, i) =
          IF Tails(s, i, n) /\ ~Forbidden(m, Point(s, i, n), n) THEN "valid" ELSE "invalid"
    BY <1>9, VerdictIs DEF n, r
  <2>2. Verdict(m, u, i) =
          IF Tails(u, i, n) /\ ~Forbidden(m, Point(u, i, n), n) THEN "valid" ELSE "invalid"
    <3>1. n <= q
      BY <1>1, <1>4, <1>9
    <3> QED BY <3>1, <1>9, <1>1, VerdictIs DEF q
  <2>3. n \in 1..r
    BY <1>4, <1>9, <1>1
  <2>4. Tails(u, i, n) <=> Tails(s, i, n)
    BY <2>3, <1>5
  <2>5. Forbidden(m, Point(u, i, n), n) <=> Forbidden(m, Point(s, i, n), n)
    <3>1. CASE m = "normal"
      BY <3>1 DEF Forbidden
    <3>2. CASE m # "normal"
      <4>1. n <= 4
        BY <3>2, <1>4, <1>9 DEF Refused
      <4>2. Point(u, i, n) = Point(s, i, n)
        BY <4>1, <2>3, <1>6
      <4> QED BY <4>2
    <3> QED BY <3>1, <3>2
  <2> QED BY <2>1, <2>2, <2>4, <2>5
<1>10. CASE n # 0 /\ ~Refused(m, n) /\ r < n
  <2>1. Verdict(m, s, i) =
          IF Tails(s, i, r) /\ ~TooLarge(m, Point(s, i, r) * 64^(n - r))
            THEN "valid_incomplete" ELSE "invalid"
    BY <1>10, VerdictIs DEF n, r
  <2> DEFINE k == IF n <= q THEN n ELSE q
  <2>2. k \in r..n /\ k \in 1..q /\ r \in 1..r /\ r \in 1..n
    BY <1>1, <1>4, <1>10
  <2>3. ~Tails(u, i, k) => Verdict(m, u, i) = "invalid"
    <3>1. CASE n <= q
      <4>1. Verdict(m, u, i) =
              IF Tails(u, i, n) /\ ~Forbidden(m, Point(u, i, n), n) THEN "valid" ELSE "invalid"
        BY <3>1, <1>10, <1>1, VerdictIs DEF q
      <4> QED BY <3>1, <4>1
    <3>2. CASE q < n
      <4>1. Verdict(m, u, i) =
              IF Tails(u, i, q) /\ ~TooLarge(m, Point(u, i, q) * 64^(n - q))
                THEN "valid_incomplete" ELSE "invalid"
        BY <3>2, <1>10, <1>1, VerdictIs DEF q
      <4>2. k = q
        BY <3>2, <1>1, <1>4
      <4> HIDE DEF k
      <4> QED BY <4>1, <4>2
    <3> QED BY <3>1, <3>2, <1>1, <1>4
  <2>4. ASSUME Tails(u, i, k), TooLarge(m, Point(u, i, k) * 64^(n - k)),
               Point(u, i, k) \in Nat
        PROVE  Verdict(m, u, i) = "invalid"
    <3>1. CASE n <= q
      <4>1. Verdict(m, u, i) =
              IF Tails(u, i, n) /\ ~Forbidden(m, Point(u, i, n), n) THEN "valid" ELSE "invalid"
        BY <3>1, <1>10, <1>1, VerdictIs DEF q
      <4>2. k = n /\ n - k = 0
        BY <3>1, <1>4
      <4> HIDE DEF k
      <4>3. Point(u, i, n) * 64^0 = Point(u, i, n)
        <5>1. \A x \in Nat : x * 64^0 = x
          BY 64^0 = 1
        <5> QED BY <5>1, <4>2, <2>4
      <4>4. TooLarge(m, Point(u, i, n))
        BY <2>4, <4>2, <4>3
      <4>5. \A x, y : TooLarge(m, x) => Forbidden(m, x, y)
        BY SMT DEF TooLarge, Forbidden, Disallowed
      <4> QED BY <4>1, <4>4, <4>5
    <3>2. CASE q < n
      <4>1. Verdict(m, u, i) =
              IF Tails(u, i, q) /\ ~TooLarge(m, Point(u, i, q) * 64^(n - q))
                THEN "valid_incomplete" ELSE "invalid"
        BY <3>2, <1>10, <1>1, VerdictIs DEF q
      <4>2. k = q
        BY <3>2, <1>1, <1>4
      <4> QED BY <4>1, <4>2, <2>4
    <3> QED BY <3>1, <3>2, <1>1, <1>4
  <2>5. ASSUME TooLarge(m, Point(s, i, r) * 64^(n - r))
        PROVE  TooLarge(m, Point(u, i, k) * 64^(n - k)) /\ Point(u, i, k) \in Nat
    <3>1. m # "normal" /\ m \in {"pedantic", "extreme"}
      BY <2>5, SMT DEF TooLarge
    <3>2. n \in 2..4
      BY <3>1, <1>4, <1>10 DEF Refused
    <3>3. Point(u, i, r) = Point(s, i, r)
      BY <3>2, <1>10, <2>2, <1>6
    <3>4. \A x \in 0..(k - 1) : u[i + x] \in Bytes
      <4>1. \A x \in 0..(k - 1) : x \in Nat /\ x < q
        <5> HIDE DEF k
        <5> QED BY ONLY <2>2, <1>1, SMT
      <4> QED BY <4>1, <1>3, Zenon
    <3>5. Ones(u[i]) = n
      BY <1>1 DEF n
    <3> HIDE DEF k
    <3>6. /\ Point(u, i, k) \in Nat
          /\ Point(u, i, r) * 64^(n - r) \in Nat /\ Point(u, i, k) * 64^(n - k) \in Nat
          /\ Point(u, i, r) * 64^(n - r) <= Point(u, i, k) * 64^(n - k)
      BY <3>2, <3>4, <3>5, <2>2, <1>1, PointGrows
    <3>7. \A x, y \in Nat : x <= y /\ TooLarge(m, x) => TooLarge(m, y)
      BY <3>1, SMT DEF TooLarge
    <3> QED BY <2>5, <3>3, <3>6, <3>7
  <2>6. ~Tails(s, i, r) => ~Tails(u, i, k)
    <3>1. \A x \in 1..(r - 1) : x \in 1..(k - 1)
      BY <2>2
    <3>2. Tails(u, i, k) => Tails(u, i, r)
      BY <3>1, Zenon DEF Tails
    <3> QED BY <3>2, <2>2, <1>5
  <2> HIDE DEF k
  <2> QED BY <2>1, <2>3, <2>4, <2>5, <2>6
<1> QED BY <1>1, <1>4, <1>7, <1>8, <1>9, <1>10

-------------------------------------------------------------------------------
(* validate, from every place of the text.                                   *)
From(m, s) ==
  CHOOSE f : f = [i \in 1..(Len(s) + 1) |->
    IF i > Len(s) \/ m = "none" THEN [result |-> "valid", last_pos |-> Len(s)]
    ELSE IF Verdict(m, s, i) # "valid" THEN [result |-> Verdict(m, s, i), last_pos |-> i - 1]
    ELSE f[i + (IF Ones(s[i]) = 0 THEN 1 ELSE Ones(s[i]))]]

AllValid(s) == [result |-> "valid", last_pos |-> Len(s)]

Stops(m, s, i) == [result |-> Verdict(m, s, i), last_pos |-> i - 1]

LEMMA ValidateIs == ASSUME NEW m, NEW s PROVE Validate(m, s) = From(m, s)[1]
BY DEF Validate, From

LEMMA FromIs ==
  ASSUME NEW m, NEW s \in Seq(Bytes), NEW i \in 1..(Len(s) + 1)
  PROVE  /\ i > Len(s) \/ m = "none" =>
              From(m, s)[i] = AllValid(s)
         /\ i <= Len(s) /\ m # "none" /\ Verdict(m, s, i) # "valid" =>
              From(m, s)[i] = Stops(m, s, i)
         /\ i <= Len(s) /\ m # "none" /\ Verdict(m, s, i) = "valid" =>
              /\ i + Step(s[i]) \in 1..(Len(s) + 1) /\ i < i + Step(s[i])
              /\ From(m, s)[i] = From(m, s)[i + Step(s[i])]
<1> DEFINE N == Len(s) + 1
           all == AllValid(s)
           bad(j) == Stops(m, s, j)
           ends(j) == j > Len(s) \/ m = "none"
           stop == {j \in 1..N : ends(j) \/ Verdict(m, s, j) # "valid"}
           base == [j \in 1..N |-> IF ends(j) THEN all ELSE bad(j)]
           next == [j \in 1..N |-> j + Step(s[j])]
           body(f) == [j \in 1..N |-> IF ends(j) THEN all
                                      ELSE IF Verdict(m, s, j) # "valid" THEN bad(j)
                                      ELSE f[j + Step(s[j])]]
           jump(f) == [j \in 1..N |-> IF j \in stop THEN base[j] ELSE f[next[j]]]
<1>2. From(m, s) = CHOOSE f : f = body(f)
  BY DEF From, Step, AllValid, Stops
<1>3. N \in Nat \ {0} /\ Len(s) \in Nat
  OBVIOUS
<1>4. ASSUME NEW j \in 1..N, ~ends(j), Verdict(m, s, j) = "valid"
      PROVE  j + Step(s[j]) \in 1..N /\ j < j + Step(s[j])
  <2>1. j \in 1..Len(s)
    BY <1>4
  <2>2. Step(s[j]) \in 1..(Len(s) - j + 1)
    BY <1>4, <2>1, ValidStep
  <2> QED BY <2>1, <2>2
<1> HIDE DEF ends, N, all, bad
<1>5. \A j \in 1..N : j \in stop \/ (next[j] \in 1..N /\ next[j] > j)
  <2> SUFFICES ASSUME NEW j \in 1..N, j \notin stop PROVE next[j] \in 1..N /\ next[j] > j
    OBVIOUS
  <2>1. ~ends(j) /\ Verdict(m, s, j) = "valid"
    OBVIOUS
  <2>2. next[j] = j + Step(s[j])
    OBVIOUS
  <2> HIDE DEF stop, next
  <2> QED BY <2>1, <2>2, <1>3, <1>4
<1>6. \A f : jump(f) = body(f)
  <2> SUFFICES ASSUME NEW f, NEW j \in 1..N
               PROVE  (IF j \in stop THEN base[j] ELSE f[next[j]]) =
                        IF ends(j) THEN all ELSE IF Verdict(m, s, j) # "valid" THEN bad(j)
                        ELSE f[j + Step(s[j])]
    BY Zenon
  <2>1. base[j] = IF ends(j) THEN all ELSE bad(j)
    OBVIOUS
  <2>2. next[j] = j + Step(s[j])
    OBVIOUS
  <2>3. j \in stop <=> ends(j) \/ Verdict(m, s, j) # "valid"
    OBVIOUS
  <2> HIDE DEF base, next, stop
  <2> QED BY <2>1, <2>2, <2>3, Zenon
<1>7. \E f : f = jump(f)
  <2> HIDE DEF stop, base, next, body
  <2>1. \E f : Jumps(N, stop, base, next, f)
    BY <1>3, <1>5, JumpRecursion
  <2> QED BY <2>1, Zenon DEF Jumps
<1>8. \E f : f = body(f)
  <2> HIDE DEF jump, body
  <2> QED BY <1>6, <1>7, Zenon
<1>9. From(m, s) = body(From(m, s))
  <2> HIDE DEF body
  <2> QED BY <1>2, <1>8, Zenon
<1> DEFINE v == From(m, s)
<1>10. \A j \in 1..N : v[j] = IF ends(j) THEN all ELSE IF Verdict(m, s, j) # "valid" THEN bad(j)
                              ELSE v[j + Step(s[j])]
  <2>1. v = body(v)
    BY <1>9
  <2> HIDE DEF v
  <2> QED BY <2>1, Zenon
<1> HIDE DEF v
<1>11. ASSUME NEW j \in 1..N
       PROVE  /\ ends(j) => v[j] = all
              /\ ~ends(j) /\ Verdict(m, s, j) # "valid" => v[j] = bad(j)
              /\ ~ends(j) /\ Verdict(m, s, j) = "valid" =>
                   j + Step(s[j]) \in 1..N /\ j < j + Step(s[j]) /\ v[j] = v[j + Step(s[j])]
  BY <1>4, <1>10, Zenon
<1>12. /\ i \in 1..N /\ (ends(i) <=> i > Len(s) \/ m = "none")
       /\ (i <= Len(s) /\ m # "none" => ~ends(i))
  BY <1>3 DEF ends, N
<1> QED BY <1>11, <1>12, Zenon DEF v, N, all, bad

(* Where the first sequence that is not valid begins.                        *)
LEMMA FromEnds ==
  ASSUME NEW m, NEW s \in Seq(Bytes), NEW i \in 1..(Len(s) + 1), i > Len(s) \/ m = "none"
  PROVE  From(m, s)[i] = AllValid(s)
BY FromIs

LEMMA FromGoes ==
  ASSUME NEW m, m # "none", NEW s \in Seq(Bytes), NEW i \in 1..Len(s), Verdict(m, s, i) = "valid"
  PROVE  /\ i + Step(s[i]) \in 1..(Len(s) + 1) /\ i < i + Step(s[i])
         /\ From(m, s)[i] = From(m, s)[i + Step(s[i])]
<1>1. i \in 1..(Len(s) + 1) /\ i <= Len(s)
  OBVIOUS
<1> QED BY <1>1, FromIs

LEMMA FromTypes ==
  ASSUME NEW m, NEW s \in Seq(Bytes), NEW i \in 1..(Len(s) + 1)
  PROVE  /\ From(m, s)[i].result \in Verdicts
         /\ From(m, s)[i].last_pos \in (i - 1)..Len(s)
<1> DEFINE N == Len(s) + 1
           v == From(m, s)
           S == {k \in 1..N : v[k].result \in Verdicts /\ v[k].last_pos \in (k - 1)..Len(s)}
<1>1. N \in Nat /\ Len(s) \in Nat
  OBVIOUS
<1>2. ASSUME NEW k \in 1..N, \A j \in 1..N : k < j => j \in S
      PROVE  k \in S
  <2>1. CASE k > Len(s) \/ m = "none"
    <3>1. v[k] = AllValid(s)
      BY <2>1, FromIs
    <3> HIDE DEF v
    <3> QED BY <3>1, <1>1 DEF Verdicts, AllValid
  <2>2. CASE k <= Len(s) /\ m # "none" /\ Verdict(m, s, k) # "valid"
    <3>1. v[k] = Stops(m, s, k)
      BY <2>2, FromIs
    <3>2. Verdict(m, s, k) \in Verdicts
      BY <2>2, ValidStep
    <3> HIDE DEF v
    <3> QED BY <2>2, <3>1, <3>2, <1>1 DEF Stops
  <2>3. CASE k <= Len(s) /\ m # "none" /\ Verdict(m, s, k) = "valid"
    <3> DEFINE j == k + Step(s[k])
    <3>1. j \in 1..N /\ k < j /\ v[k] = v[j]
      BY <2>3, FromIs
    <3> HIDE DEF j
    <3>2. v[j].result \in Verdicts /\ v[j].last_pos \in (j - 1)..Len(s)
      BY <3>1, <1>2
    <3> HIDE DEF v
    <3> QED BY <3>1, <3>2, <1>1
  <2> QED BY <2>1, <2>2, <2>3, <1>1
<1>3. \A k \in 1..N : k \in S
  <2> HIDE DEF S, N
  <2> QED BY <1>1, <1>2, FromTheRight
<1> QED BY <1>3

(* The walk over t is the one over s from d on, and the walk over u goes on  *)
(* from where the one over s ended.                                          *)
SameRest(m, t, s, d, i) ==
  /\ From(m, t)[i].result = From(m, s)[d + i].result
  /\ d + From(m, t)[i].last_pos = From(m, s)[d + i].last_pos

GoesOn(m, s, u, i) ==
  /\ From(m, s)[i].result = "invalid" => From(m, u)[i].result = "invalid"
  /\ From(m, s)[i].result # "invalid" => From(m, u)[i] = From(m, u)[From(m, s)[i].last_pos + 1]

(* Validating the rest of a text gives what validating all of it gives there.*)
LEMMA FromRest ==
  ASSUME NEW m, NEW s \in Seq(Bytes), NEW d \in 0..Len(s), NEW t \in Seq(Bytes), EndOf(t, s, d),
         NEW i \in 1..(Len(t) + 1)
  PROVE  SameRest(m, t, s, d, i)
<1> DEFINE N == Len(t) + 1
           v == From(m, t)
           w == From(m, s)
           S == {k \in 1..N : v[k].result = w[d + k].result /\ d + v[k].last_pos = w[d + k].last_pos}
<1>1. N \in Nat /\ Len(t) \in Nat /\ Len(s) \in Nat /\ d \in Nat /\ Len(t) = Len(s) - d
  BY DEF EndOf
<1>2. ASSUME NEW k \in 1..N, \A j \in 1..N : k < j => j \in S
      PROVE  k \in S
  <2>1. d + k \in 1..(Len(s) + 1) /\ (k > Len(t) <=> d + k > Len(s))
    BY <1>1
  <2>2. CASE k > Len(t) \/ m = "none"
    <3>1. v[k] = AllValid(t) /\ w[d + k] = AllValid(s)
      BY <2>1, <2>2, FromIs
    <3> HIDE DEF v, w
    <3> QED BY <3>1, <1>1 DEF AllValid
  <2>3. CASE k <= Len(t) /\ m # "none"
    <3>1. k \in 1..Len(t) /\ d + k <= Len(s)
      BY <2>1, <2>3, <1>1
    <3>2. Verdict(m, t, k) = Verdict(m, s, d + k)
      BY <3>1, VerdictOfRest
    <3>3. t[k] = s[d + k]
      BY <3>1 DEF EndOf
    <3>4. CASE Verdict(m, t, k) # "valid"
      <4>1. v[k] = Stops(m, t, k) /\ w[d + k] = Stops(m, s, d + k)
        BY <2>1, <2>3, <3>1, <3>2, <3>4, FromIs
      <4>2. d + (k - 1) = (d + k) - 1
        BY <1>1
      <4> HIDE DEF v, w
      <4> QED BY <3>2, <4>1, <4>2 DEF Stops
    <3>5. CASE Verdict(m, t, k) = "valid"
      <4> DEFINE j == k + Step(t[k])
      <4>1. j \in 1..N /\ k < j /\ v[k] = v[j]
        BY <2>3, <3>1, <3>5, FromGoes
      <4>2. w[d + k] = w[(d + k) + Step(t[k])]
        <5>1. Verdict(m, s, d + k) = "valid"
          BY <3>2, <3>5
        <5>2. w[d + k] = w[(d + k) + Step(s[d + k])]
          <6>1. d + k \in 1..Len(s)
            BY <2>1, <3>1
          <6> QED BY <2>3, <5>1, <6>1, FromGoes
        <5> QED BY <3>3, <5>2
      <4>3. Step(t[k]) \in Int
        <5>1. Step(t[k]) \in 1..(Len(t) - k + 1)
          BY <3>1, <3>5, ValidStep
        <5> QED BY <5>1
      <4>4. (d + k) + Step(t[k]) = d + j
        BY <1>1, <4>3
      <4> HIDE DEF j
      <4>5. v[j].result = w[d + j].result /\ d + v[j].last_pos = w[d + j].last_pos
        BY <4>1, <1>2
      <4> HIDE DEF v, w
      <4> QED BY <4>1, <4>2, <4>4, <4>5
    <3> QED BY <3>4, <3>5
  <2> QED BY <2>2, <2>3, <1>1
<1>3. \A k \in 1..N : k \in S
  <2> HIDE DEF S, N
  <2> QED BY <1>1, <1>2, FromTheRight
<1> QED BY <1>3, Zenon DEF SameRest

(* What follows a text leaves an invalid one invalid, and is validated from  *)
(* where the text was left.                                                  *)
LEMMA FromExtends ==
  ASSUME NEW m, NEW s \in Seq(Bytes), NEW u \in Seq(Bytes), Begins(s, u),
         NEW i \in 1..(Len(s) + 1)
  PROVE  GoesOn(m, s, u, i)
<1> DEFINE N == Len(s) + 1
           v == From(m, s)
           w == From(m, u)
           S == {k \in 1..N : /\ v[k].result = "invalid" => w[k].result = "invalid"
                              /\ v[k].result # "invalid" => w[k] = w[v[k].last_pos + 1]}
<1>1. N \in Nat /\ Len(s) \in Nat /\ Len(u) \in Nat /\ Len(s) <= Len(u)
  BY DEF Begins
<1>2. ASSUME NEW k \in 1..N, \A j \in 1..N : k < j => j \in S
      PROVE  k \in S
  <2>1. k \in 1..(Len(u) + 1) /\ N \in 1..(Len(u) + 1)
    BY <1>1
  <2>2. CASE k > Len(s) \/ m = "none"
    <3>1. v[k] = AllValid(s)
      BY <2>2, FromIs
    <3>2. v[k].result = "valid" /\ v[k].last_pos + 1 = N
      <4> HIDE DEF v
      <4> QED BY <3>1 DEF AllValid
    <3>3. w[k] = w[N]
      <4>1. CASE m = "none"
        BY <2>1, <4>1, FromIs
      <4>2. CASE k > Len(s)
        <5>1. k = N
          BY <4>2, <1>1
        <5> QED BY <5>1
      <4> QED BY <2>2, <4>1, <4>2
    <3> HIDE DEF v, w
    <3> QED BY <3>2, <3>3
  <2>3. CASE k <= Len(s) /\ m # "none"
    <3>1. k \in 1..Len(s) /\ k <= Len(u) /\ u[k] = s[k]
      BY <2>3, <1>1 DEF Begins
    <3>2. Verdict(m, s, k) \in {"valid", "invalid"} => Verdict(m, u, k) = Verdict(m, s, k)
      BY <3>1, VerdictExtends
    <3>3. Verdict(m, s, k) \in Verdicts
      BY <3>1, ValidStep
    <3>4. CASE Verdict(m, s, k) # "valid"
      <4>1. v[k] = Stops(m, s, k)
        BY <2>3, <3>4, FromIs
      <4>2. v[k].result = Verdict(m, s, k) /\ v[k].last_pos + 1 = k
        <5> HIDE DEF v
        <5> QED BY <4>1 DEF Stops
      <4>3. ASSUME Verdict(m, s, k) = "invalid" PROVE w[k].result = "invalid"
        <5>1. w[k] = Stops(m, u, k) /\ Verdict(m, u, k) = "invalid"
          BY <2>1, <2>3, <3>1, <3>2, <4>3, FromIs
        <5> HIDE DEF w
        <5> QED BY <5>1 DEF Stops
      <4> HIDE DEF v, w
      <4> QED BY <4>2, <4>3
    <3>5. CASE Verdict(m, s, k) = "valid"
      <4> DEFINE j == k + Step(s[k])
      <4>1. j \in 1..N /\ k < j /\ v[k] = v[j]
        BY <2>3, <3>1, <3>5, FromGoes
      <4>2. w[k] = w[j]
        <5>1. k \in 1..Len(u) /\ Verdict(m, u, k) = "valid"
          BY <3>1, <3>2, <3>5, <1>1
        <5> QED BY <2>3, <3>1, <5>1, FromGoes
      <4> HIDE DEF j
      <4>3. /\ v[j].result = "invalid" => w[j].result = "invalid"
            /\ v[j].result # "invalid" => w[j] = w[v[j].last_pos + 1]
        BY <4>1, <1>2
      <4> HIDE DEF v, w
      <4> QED BY <4>1, <4>2, <4>3
    <3> QED BY <3>4, <3>5
  <2> QED BY <2>2, <2>3, <1>1
<1>3. \A k \in 1..N : k \in S
  <2> HIDE DEF S, N
  <2> QED BY <1>1, <1>2, FromTheRight
<1> QED BY <1>3, Zenon DEF GoesOn

-------------------------------------------------------------------------------
(* The table of the standard, row by row.                                    *)
HasRow(m, a, b, n) == \E r \in Table(m) : a \in r.lead /\ b \in r.second /\ n = r.rest + 2

LEMMA RowsOfNormal ==
  ASSUME NEW a, NEW b, NEW n \in Int
  PROVE  HasRow("normal", a, b, n) <=>
           /\ b \in 128..191
           /\ \/ n = 2 /\ a \in 192..223
              \/ n = 3 /\ a \in 224..239
              \/ n = 4 /\ a \in 240..247
              \/ n = 5 /\ a \in 248..251
              \/ n = 6 /\ a \in 252..253
BY SMTT(30) DEF HasRow, Table, Row, TailBytes

LEMMA RowsOfOthers ==
  ASSUME NEW m \in {"strict", "pedantic", "extreme"}, NEW a \in Int, NEW b \in Int, NEW n \in Int
  PROVE  HasRow(m, a, b, n) <=>
           \/ n = 2 /\ a \in 194..223 /\ b \in 128..191
           \/ n = 3 /\ a = 224 /\ b \in 160..191
           \/ n = 3 /\ a \in 225..239 /\ a # 237 /\ b \in 128..191
           \/ n = 3 /\ a = 237 /\ b \in 128..191 /\ (m = "strict" \/ b < 160)
           \/ n = 4 /\ a = 240 /\ b \in 144..191
           \/ n = 4 /\ a \in 241..243 /\ b \in 128..191
           \/ n = 4 /\ m = "strict" /\ a \in 244..247 /\ b \in 128..191
           \/ n = 4 /\ m # "strict" /\ a = 244 /\ b \in 128..143
<1>1. CASE m = "strict"
  BY <1>1, SMTT(30) DEF HasRow, Table, Row, TailBytes
<1>2. CASE m = "pedantic"
  BY <1>2, SMTT(30) DEF HasRow, Table, Row, TailBytes
<1>3. CASE m = "extreme"
  BY <1>3, SMTT(30) DEF HasRow, Table, Row, TailBytes
<1> QED BY <1>1, <1>2, <1>3

(* What the code forbids of the numbers of two, three and four bytes.        *)
LEMMA LowPart ==
  ASSUME NEW q \in Int, 0 <= q, q < 65536, NEW k \in Int
  PROVE  (65536 * k + q) % 65536 = q /\ q % 65536 = q
OBVIOUS

(* The number that so many bytes stand for.                                  *)
Two(a, b) == 64 * (a - 192) + (b - 128)

LEMMA ForbiddenOfTwo ==
  ASSUME NEW m \in {"strict", "pedantic", "extreme"}, NEW a \in 192..223, NEW b \in 128..191
  PROVE  Forbidden(m, Two(a, b), 2) <=> a < 194
<1> DEFINE p == Two(a, b)
<1>1. p \in Int /\ 0 <= p /\ p < 2048 /\ (p < 128 <=> a < 194)
  BY SMT DEF Two
<1> HIDE DEF p
<1>2. p % 65536 = p
  BY ONLY <1>1, LowPart, SMT
<1>3. Forbidden(m, p, 2) <=> a < 194
  BY ONLY <1>1, <1>2, m \in {"strict", "pedantic", "extreme"}, SMTT(30) DEF Forbidden, Overlong, Disallowed
<1> QED BY <1>3, Zenon DEF p

Three(a, b, d) == 64 * (64 * (a - 224) + (b - 128)) + (d - 128)

(* Which of these numbers the code forbids, by their bytes.                  *)
WrongThree(m, a, b, d) ==
  \/ a = 224 /\ b < 160
  \/ m # "strict" /\ a = 237 /\ b >= 160
  \/ m # "strict" /\ a = 239 /\ b = 187 /\ d = 191
  \/ m # "strict" /\ a = 239 /\ b = 183 /\ 144 <= d /\ d <= 175
  \/ m = "extreme" /\ a = 239 /\ b = 191 /\ (d = 190 \/ d = 191)

LEMMA ForbiddenOfThree ==
  ASSUME NEW m \in {"strict", "pedantic", "extreme"},
         NEW a \in 224..239, NEW b \in 128..191, NEW d \in 128..191
  PROVE  Forbidden(m, Three(a, b, d), 3) <=> WrongThree(m, a, b, d)
<1>1. PICK p : p = Three(a, b, d)
  OBVIOUS
<1>2. /\ a \in Int /\ b \in Int /\ d \in Int
      /\ 224 <= a /\ a <= 239 /\ 128 <= b /\ b <= 191 /\ 128 <= d /\ d <= 191
  OBVIOUS
<1>3. p = 64 * (64 * (a - 224) + (b - 128)) + (d - 128)
  BY <1>1 DEF Three
<1>4. p = 4096 * a + 64 * b + d - 925824 /\ p \in Int
  BY ONLY <1>2, <1>3, SMT
<1>5. 0 <= p /\ p < 65536
  BY ONLY <1>2, <1>4, SMT
<1>6. p % 65536 = p
  BY ONLY <1>4, <1>5, LowPart, SMT
<1>7. p < 2048 <=> a = 224 /\ b < 160
  BY ONLY <1>2, <1>4, SMT
<1>8. 55296 <= p /\ p <= 57343 <=> a = 237 /\ b >= 160
  BY ONLY <1>2, <1>4, SMT
<1>9. p = 65279 <=> a = 239 /\ b = 187 /\ d = 191
  BY ONLY <1>2, <1>4, SMT
<1>10. 64976 <= p /\ p <= 65007 <=> a = 239 /\ b = 183 /\ 144 <= d /\ d <= 175
  BY ONLY <1>2, <1>4, SMT
<1>11. p = 65534 \/ p = 65535 <=> a = 239 /\ b = 191 /\ (d = 190 \/ d = 191)
  BY ONLY <1>2, <1>4, SMT
<1>12. Overlong(p, 3) <=> p < 2048
  BY ONLY <1>4, <1>5, SMT DEF Overlong
<1>13. Disallowed(m, p) <=>
         \/ m # "strict" /\ \/ 55296 <= p /\ p <= 57343
                            \/ p = 65279
                            \/ 64976 <= p /\ p <= 65007
         \/ m = "extreme" /\ (p = 65534 \/ p = 65535)
  BY ONLY <1>4, <1>5, <1>6, m \in {"strict", "pedantic", "extreme"}, SMTT(30) DEF Disallowed
<1>14. Forbidden(m, p, 3) <=> Overlong(p, 3) \/ Disallowed(m, p)
  BY SMT DEF Forbidden
<1>15. Forbidden(m, p, 3) <=> WrongThree(m, a, b, d)
  BY ONLY <1>7, <1>8, <1>9, <1>10, <1>11, <1>12, <1>13, <1>14, SMT DEF WrongThree
<1> QED BY ONLY <1>1, <1>15, SMT

Four(a, b, d, e) == 64 * (64 * (64 * (a - 240) + (b - 128)) + (d - 128)) + (e - 128)

WrongFour(m, a, b, d, e) ==
  \/ a = 240 /\ b < 144
  \/ m # "strict" /\ (a > 244 \/ (a = 244 /\ b >= 144))
  \/ m # "strict" /\ b % 16 = 15 /\ d = 187 /\ e = 191
  \/ m = "extreme" /\ b % 16 = 15 /\ d = 191 /\ (e = 190 \/ e = 191)

LEMMA ForbiddenOfFour ==
  ASSUME NEW m \in {"strict", "pedantic", "extreme"},
         NEW a \in 240..247, NEW b \in 128..191, NEW d \in 128..191, NEW e \in 128..191
  PROVE  Forbidden(m, Four(a, b, d, e), 4) <=> WrongFour(m, a, b, d, e)
<1>1. PICK p : p = Four(a, b, d, e)
  OBVIOUS
<1>2. /\ a \in Int /\ b \in Int /\ d \in Int /\ e \in Int
      /\ 240 <= a /\ a <= 247 /\ 128 <= b /\ b <= 191 /\ 128 <= d /\ d <= 191 /\ 128 <= e /\ e <= 191
  OBVIOUS
<1>3. p = 64 * (64 * (64 * (a - 240) + (b - 128)) + (d - 128)) + (e - 128)
  BY <1>1 DEF Four
<1>4. PICK h \in Int, l \in Int : b = 16 * h + l /\ 0 <= l /\ l < 16 /\ l = b % 16
  <2>1. b = 16 * (b \div 16) + (b % 16) /\ b \div 16 \in Int /\ b % 16 \in Int
        /\ 0 <= b % 16 /\ b % 16 < 16
    BY ONLY <1>2, SMT
  <2> QED BY <2>1
<1>5. PICK q \in Int : q = 4096 * l + 64 * (d - 128) + (e - 128)
  BY ONLY <1>2, l \in Int, SMT
<1>6. PICK k \in Int : k = 4 * (a - 240) + (h - 8)
  BY ONLY <1>2, h \in Int, SMT
<1>7. 0 <= q /\ q < 65536
  BY ONLY <1>2, <1>4, <1>5, l \in Int, q \in Int, SMT
<1>8. p = 65536 * k + q
  BY ONLY <1>2, <1>3, <1>4, <1>5, <1>6, h \in Int, l \in Int, SMT
<1>9. p % 65536 = q /\ p \in Int
  BY ONLY <1>7, <1>8, LowPart, q \in Int, k \in Int, SMT
<1>10. 8 <= h /\ h < 12 /\ (h = 8 <=> b < 144)
  BY ONLY <1>2, <1>4, h \in Int, l \in Int, SMT
<1>11. 0 <= k /\ (k = 0 <=> a = 240 /\ b < 144)
  BY ONLY <1>2, <1>6, <1>10, h \in Int, k \in Int, SMT
<1>12. p < 65536 <=> a = 240 /\ b < 144
  BY ONLY <1>7, <1>8, <1>11, q \in Int, k \in Int, SMT
<1>13. k > 16 <=> a > 244 \/ (a = 244 /\ b >= 144)
  BY ONLY <1>2, <1>6, <1>10, h \in Int, k \in Int, SMT
<1>14. p > 1114111 <=> a > 244 \/ (a = 244 /\ b >= 144)
  BY ONLY <1>7, <1>8, <1>13, q \in Int, k \in Int, SMT
<1>15. q = 65279 <=> l = 15 /\ d = 187 /\ e = 191
  BY ONLY <1>2, <1>4, <1>5, l \in Int, q \in Int, SMT
<1>16. q = 65534 \/ q = 65535 <=> l = 15 /\ d = 191 /\ (e = 190 \/ e = 191)
  BY ONLY <1>2, <1>4, <1>5, l \in Int, q \in Int, SMT
<1>17. Overlong(p, 4) <=> p < 65536
  BY ONLY <1>9, SMT DEF Overlong
<1>18. Disallowed(m, p) <=>
         \/ m # "strict" /\ \/ 55296 <= p /\ p <= 57343
                            \/ q = 65279
                            \/ 64976 <= p /\ p <= 65007
                            \/ p > 1114111
         \/ m = "extreme" /\ (q = 65534 \/ q = 65535)
  BY ONLY <1>9, q \in Int, m \in {"strict", "pedantic", "extreme"}, SMT DEF Disallowed
<1>19. Forbidden(m, p, 4) <=> Overlong(p, 4) \/ Disallowed(m, p)
  BY SMT DEF Forbidden
<1>20. p <= 65007 => p < 65536
  BY ONLY <1>9, SMT
<1>21. Forbidden(m, p, 4) <=> WrongFour(m, a, b, d, e)
  BY ONLY <1>4, <1>9, <1>12, <1>14, <1>15, <1>16, <1>17, <1>18, <1>19, <1>20, SMT DEF WrongFour
<1> QED BY ONLY <1>1, <1>21, SMT

-------------------------------------------------------------------------------
(* A sequence of n bytes that begins as one and goes on with tails is a      *)
(* character of the table where its number is not forbidden.                 *)
LEMMA TailMod == ASSUME NEW b \in Int, 128 <= b, b <= 191 PROVE b % 64 = b - 128
OBVIOUS

LEMMA SeqIsTuple ==
  ASSUME NEW S, NEW c \in Seq(S)
  PROVE  /\ Len(c) = 2 => c = <<c[1], c[2]>>
         /\ Len(c) = 3 => c = <<c[1], c[2], c[3]>>
         /\ Len(c) = 4 => c = <<c[1], c[2], c[3], c[4]>>
OBVIOUS

LEMMA CharOfTwo ==
  ASSUME NEW m \in {"strict", "pedantic", "extreme"}, NEW a \in Bytes, NEW b \in 128..191,
         Ones(a) = 2
  PROVE  HasRow(m, a, b, 2) /\ ~NoCharacter(m, <<a, b>>) <=> ~Forbidden(m, Point(<<a, b>>, 1, 2), 2)
<1>1. PICK c : c = <<a, b>> /\ Len(c) = 2 /\ c[1] = a /\ c[2] = b
  <2>1. PICK c : c = <<a, b>>
    OBVIOUS
  <2>2. Len(c) = 2 /\ c[1] = a /\ c[2] = b
    BY ONLY <2>1, SMT
  <2> QED BY ONLY <2>1, <2>2, Zenon
<1>2. a \in 192..223 /\ a \in Int /\ b \in Int /\ 128 <= b /\ b <= 191 /\ Lead(a) = a - 192
  BY LeadIs DEF Bytes
<1>3. b % 64 = b - 128
  BY <1>2, TailMod
<1>4. PICK p : p = Point(c, 1, 2)
  OBVIOUS
<1>5. p = Two(a, b)
  BY <1>1, <1>2, <1>3, <1>4 DEF Point, Two
<1>6. Forbidden(m, p, 2) <=> a < 194
  <2>1. a \in 192..223
    BY ONLY <1>2, Zenon
  <2>2. Forbidden(m, Two(a, b), 2) <=> a < 194
    BY ONLY <2>1, ForbiddenOfTwo, m \in {"strict", "pedantic", "extreme"}, b \in 128..191, Zenon
  <2> QED BY ONLY <1>5, <2>2, Zenon
<1>7. HasRow(m, a, b, 2) <=> 194 <= a
  BY ONLY <1>2, RowsOfOthers, m \in {"strict", "pedantic", "extreme"}, SMT
<1>8. ~NoCharacter(m, c)
  BY <1>1, SMT DEF NoCharacter
<1>9. HasRow(m, a, b, 2) /\ ~NoCharacter(m, c) <=> ~Forbidden(m, Point(c, 1, 2), 2)
  BY ONLY <1>2, <1>4, <1>6, <1>7, <1>8, SMT
<1> QED BY <1>1, <1>9, Zenon

LEMMA CharOfThree ==
  ASSUME NEW m \in {"strict", "pedantic", "extreme"}, NEW a \in Bytes, NEW b \in 128..191,
         NEW d \in 128..191, Ones(a) = 3
  PROVE  HasRow(m, a, b, 3) /\ ~NoCharacter(m, <<a, b, d>>) <=> ~Forbidden(m, Point(<<a, b, d>>, 1, 3), 3)
<1>1. PICK c : c = <<a, b, d>> /\ Len(c) = 3 /\ c[1] = a /\ c[2] = b /\ c[3] = d
  <2>1. PICK c : c = <<a, b, d>>
    OBVIOUS
  <2>2. Len(c) = 3 /\ c[1] = a /\ c[2] = b /\ c[3] = d
    BY ONLY <2>1, SMT
  <2> QED BY ONLY <2>1, <2>2, Zenon
<1>2. /\ a \in 224..239 /\ Lead(a) = a - 224
      /\ 128 <= b /\ b <= 191 /\ 128 <= d /\ d <= 191
      /\ a \in Int /\ b \in Int /\ d \in Int /\ 224 <= a /\ a <= 239
  BY LeadIs DEF Bytes
<1>3. b % 64 = b - 128 /\ d % 64 = d - 128
  BY <1>2, TailMod
<1>4. PICK p : p = Point(c, 1, 3)
  OBVIOUS
<1>5. p = Three(a, b, d)
  BY <1>1, <1>2, <1>3, <1>4 DEF Point, Three
<1>6. Forbidden(m, p, 3) <=> WrongThree(m, a, b, d)
  <2>1. a \in 224..239
    BY ONLY <1>2, Zenon
  <2>2. Forbidden(m, Three(a, b, d), 3) <=> WrongThree(m, a, b, d)
    BY ONLY <2>1, ForbiddenOfThree, m \in {"strict", "pedantic", "extreme"},
       b \in 128..191, d \in 128..191, ZenonT(40)
  <2> QED BY ONLY <1>5, <2>2, Zenon
<1>7. HasRow(m, a, b, 3) <=>
           \/ a = 224 /\ b >= 160
           \/ 225 <= a /\ a # 237
           \/ a = 237 /\ (m = "strict" \/ b < 160)
  BY ONLY <1>2, RowsOfOthers, m \in {"strict", "pedantic", "extreme"}, SMT
<1>8. NoCharacter(m, c) <=>
           \/ m # "strict" /\ a = 239 /\ b = 187 /\ d = 191
           \/ m # "strict" /\ a = 239 /\ b = 183 /\ 144 <= d /\ d <= 175
           \/ m = "extreme" /\ a = 239 /\ b = 191 /\ (d = 190 \/ d = 191)
  BY <1>1, <1>2, SMT DEF NoCharacter
<1>9. HasRow(m, a, b, 3) /\ ~NoCharacter(m, c) <=> ~Forbidden(m, Point(c, 1, 3), 3)
  BY ONLY <1>2, <1>4, <1>6, <1>7, <1>8, m \in {"strict", "pedantic", "extreme"}, SMT DEF WrongThree
<1> QED BY <1>1, <1>9, Zenon

LEMMA CharOfFour ==
  ASSUME NEW m \in {"strict", "pedantic", "extreme"}, NEW a \in Bytes, NEW b \in 128..191,
         NEW d \in 128..191, NEW e \in 128..191, Ones(a) = 4
  PROVE  HasRow(m, a, b, 4) /\ ~NoCharacter(m, <<a, b, d, e>>) <=>
           ~Forbidden(m, Point(<<a, b, d, e>>, 1, 4), 4)
<1>1. PICK c : c = <<a, b, d, e>> /\ Len(c) = 4 /\ c[1] = a /\ c[2] = b /\ c[3] = d /\ c[4] = e
  <2>1. PICK c : c = <<a, b, d, e>>
    OBVIOUS
  <2>2. Len(c) = 4 /\ c[1] = a /\ c[2] = b /\ c[3] = d /\ c[4] = e
    BY ONLY <2>1, SMT
  <2> QED BY ONLY <2>1, <2>2, Zenon
<1>2. /\ a \in 240..247 /\ 128 <= b /\ b <= 191 /\ 128 <= d /\ d <= 191 /\ 128 <= e /\ e <= 191
      /\ a \in Int /\ b \in Int /\ d \in Int /\ e \in Int /\ 240 <= a /\ a <= 247 /\ Lead(a) = a - 240
  BY LeadIs DEF Bytes
<1>3. b % 64 = b - 128 /\ d % 64 = d - 128 /\ e % 64 = e - 128
  BY <1>2, TailMod
<1>4. PICK p : p = Point(c, 1, 4)
  OBVIOUS
<1>5. p = Four(a, b, d, e)
  BY <1>1, <1>2, <1>3, <1>4 DEF Point, Four
<1>6. Forbidden(m, p, 4) <=> WrongFour(m, a, b, d, e)
  <2>1. a \in 240..247
    BY ONLY <1>2, Zenon
  <2>2. Forbidden(m, Four(a, b, d, e), 4) <=> WrongFour(m, a, b, d, e)
    BY ONLY <2>1, ForbiddenOfFour, m \in {"strict", "pedantic", "extreme"},
       b \in 128..191, d \in 128..191, e \in 128..191, ZenonT(40)
  <2> QED BY ONLY <1>5, <2>2, Zenon
<1>7. HasRow(m, a, b, 4) <=>
           \/ a = 240 /\ b >= 144
           \/ 241 <= a /\ a <= 243
           \/ m = "strict" /\ 244 <= a
           \/ m # "strict" /\ a = 244 /\ b < 144
  BY ONLY <1>2, RowsOfOthers, m \in {"strict", "pedantic", "extreme"}, SMT
<1>8. PICK z \in BOOLEAN : z <=> b % 16 = 15
  OBVIOUS
<1>9. NoCharacter(m, c) <=>
           \/ m # "strict" /\ z /\ d = 187 /\ e = 191
           \/ m = "extreme" /\ z /\ d = 191 /\ (e = 190 \/ e = 191)
  BY <1>1, <1>2, <1>8, SMT DEF NoCharacter
<1>10. HasRow(m, a, b, 4) /\ ~NoCharacter(m, c) <=> ~Forbidden(m, Point(c, 1, 4), 4)
  BY ONLY <1>2, <1>4, <1>6, <1>7, <1>8, <1>9, m \in {"strict", "pedantic", "extreme"}, SMT DEF WrongFour
<1> QED BY <1>1, <1>10, Zenon

LEMMA OnesBack ==
  ASSUME NEW c \in Bytes
  PROVE  /\ Ones(c) \in 0..8
         /\ Ones(c) = 0 <=> c < 128
         /\ Ones(c) = 2 <=> c \in 192..223
         /\ Ones(c) = 3 <=> c \in 224..239
         /\ Ones(c) = 4 <=> c \in 240..247
         /\ Ones(c) = 5 <=> c \in 248..251
         /\ Ones(c) = 6 <=> c \in 252..253
<1>1. Ones(c) \in 0..8
  BY OnesRange
<1>2. \/ c < 128 \/ c \in 128..191 \/ c \in 192..223 \/ c \in 224..239 \/ c \in 240..247
      \/ c \in 248..251 \/ c \in 252..253 \/ c = 254 \/ c = 255
  BY DEF Bytes
<1> QED BY <1>1, <1>2, OnesOf DEF Bytes

LEMMA RowShape ==
  ASSUME NEW m \in Modes \ {"none"}, NEW a \in Bytes, NEW b \in Bytes, NEW n \in Int,
         HasRow(m, a, b, n)
  PROVE  Ones(a) = n /\ n \in 2..6 /\ ~Refused(m, n) /\ b \in 128..191
<1>1. a \in Int /\ b \in Int
  BY DEF Bytes
<1>2. CASE m = "normal"
  <2>1. /\ b \in 128..191
        /\ \/ n = 2 /\ a \in 192..223
           \/ n = 3 /\ a \in 224..239
           \/ n = 4 /\ a \in 240..247
           \/ n = 5 /\ a \in 248..251
           \/ n = 6 /\ a \in 252..253
    BY <1>2, RowsOfNormal
  <2> QED BY <1>1, <1>2, <2>1, OnesBack DEF Refused
<1>3. CASE m \in {"strict", "pedantic", "extreme"}
  <2>1. /\ b \in 128..191
        /\ \/ n = 2 /\ a \in 192..223
           \/ n = 3 /\ a \in 224..239
           \/ n = 4 /\ a \in 240..247
    BY ONLY <1>1, <1>3, RowsOfOthers, n \in Int, HasRow(m, a, b, n), SMT
  <2> QED BY <1>1, <2>1, OnesBack DEF Refused
<1> QED BY <1>2, <1>3 DEF Modes

LEMMA TailsAre ==
  ASSUME NEW c \in Seq(Bytes), NEW n \in 1..Len(c)
  PROVE  Tails(c, 1, n) <=> \A i \in 2..n : c[i] \in 128..191
<1>1. ASSUME NEW i \in 2..n PROVE i - 1 \in 1..(n - 1) /\ 1 + (i - 1) = i /\ (IsTail(c[i]) <=> c[i] \in 128..191)
  <2>1. i \in 1..Len(c) /\ c[i] \in Bytes
    OBVIOUS
  <2> QED BY <2>1, OnesRange DEF IsTail
<1>2. ASSUME NEW t \in 1..(n - 1) PROVE 1 + t \in 2..n
  OBVIOUS
<1>3. ASSUME Tails(c, 1, n), NEW i \in 2..n PROVE c[i] \in 128..191
  <2>1. IsTail(c[1 + (i - 1)])
    BY <1>1, <1>3 DEF Tails
  <2> QED BY <2>1, <1>1
<1>4. ASSUME \A i \in 2..n : c[i] \in 128..191, NEW t \in 1..(n - 1) PROVE IsTail(c[1 + t])
  BY <1>4, <1>2, <1>1
<1> QED BY <1>3, <1>4 DEF Tails

LEMMA ShapeIsCharacter ==
  ASSUME NEW m \in Modes \ {"none"}, NEW c \in Seq(Bytes), NEW n, n = Len(c), n \in 2..6,
         Ones(c[1]) = n, ~Refused(m, n), \A i \in 2..n : c[i] \in 128..191
  PROVE  HasRow(m, c[1], c[2], n) /\ ~NoCharacter(m, c) <=> ~Forbidden(m, Point(c, 1, n), n)
<1>1. \A i \in 1..n : c[i] \in Bytes
  OBVIOUS
<1>2. PICK a \in Bytes, b \in 128..191 : a = c[1] /\ b = c[2]
  <2>1. 1 \in 1..n /\ 2 \in 2..n
    OBVIOUS
  <2> QED BY <1>1, <2>1
<1>3. Ones(a) = n /\ n \in Int /\ a \in Int /\ b \in Int
  BY <1>2 DEF Bytes
<1>4. CASE m = "normal"
  <2>1. HasRow(m, a, b, n)
    <3>1. \/ n = 2 /\ a \in 192..223
          \/ n = 3 /\ a \in 224..239
          \/ n = 4 /\ a \in 240..247
          \/ n = 5 /\ a \in 248..251
          \/ n = 6 /\ a \in 252..253
      BY ONLY <1>3, OnesBack, a \in Bytes, n \in 2..6, SMT
    <3>2. HasRow("normal", a, b, n)
      BY <1>3, <3>1, RowsOfNormal, Zenon
    <3> QED BY <1>4, <3>2
  <2>2. ~NoCharacter(m, c)
    BY <1>4 DEF NoCharacter
  <2>3. ~Forbidden(m, Point(c, 1, n), n)
    BY <1>4 DEF Forbidden
  <2> QED BY <1>2, <2>1, <2>2, <2>3
<1>5. CASE m \in {"strict", "pedantic", "extreme"}
  <2>1. n \in {2, 3, 4}
    BY ONLY <1>5, ~Refused(m, n), n \in 2..6, SMT DEF Refused
  <2>2. CASE n = 2
    <3>1. c = <<a, b>>
      BY <1>2, <2>2, SeqIsTuple, Zenon
    <3>2. HasRow(m, a, b, 2) /\ ~NoCharacter(m, <<a, b>>) <=> ~Forbidden(m, Point(<<a, b>>, 1, 2), 2)
      BY <1>3, <1>5, <2>2, CharOfTwo, Zenon
    <3> QED BY <1>2, <2>2, <3>1, <3>2, ZenonT(40)
  <2>3. CASE n = 3
    <3>1. PICK d \in 128..191 : d = c[3]
      <4>1. 3 \in 2..n
        BY <2>3
      <4> QED BY <4>1
    <3>2. c = <<a, b, d>>
      BY <1>2, <2>3, <3>1, SeqIsTuple, Zenon
    <3>3. HasRow(m, a, b, 3) /\ ~NoCharacter(m, <<a, b, d>>) <=>
            ~Forbidden(m, Point(<<a, b, d>>, 1, 3), 3)
      BY <1>3, <1>5, <2>3, CharOfThree, Zenon
    <3> QED BY <1>2, <2>3, <3>2, <3>3, ZenonT(40)
  <2>4. CASE n = 4
    <3>1. PICK d \in 128..191, e \in 128..191 : d = c[3] /\ e = c[4]
      <4>1. 3 \in 2..n /\ 4 \in 2..n
        BY <2>4
      <4> QED BY <4>1
    <3>2. c = <<a, b, d, e>>
      BY <1>2, <2>4, <3>1, SeqIsTuple, Zenon
    <3>3. HasRow(m, a, b, 4) /\ ~NoCharacter(m, <<a, b, d, e>>) <=>
            ~Forbidden(m, Point(<<a, b, d, e>>, 1, 4), 4)
      BY <1>3, <1>5, <2>4, CharOfFour, ZenonT(40)
    <3> QED BY <1>2, <2>4, <3>2, <3>3, ZenonT(40)
  <2> QED BY <2>1, <2>2, <2>3, <2>4
<1> QED BY <1>4, <1>5 DEF Modes

LEMMA CharIs ==
  ASSUME NEW m \in Modes \ {"none"}, NEW c \in Seq(Bytes), Len(c) >= 1
  PROVE  IsCharacter(m, c) <=> Len(c) = Step(c[1]) /\ Verdict(m, c, 1) = "valid"
<1> DEFINE n == Len(c)
<1>1. n \in Nat /\ n >= 1 /\ c[1] \in Bytes /\ Len(c) - 1 + 1 = n /\ 1 \in 1..Len(c)
  OBVIOUS
<1>2. Ones(c[1]) \in 0..8 /\ (Ones(c[1]) = 0 <=> c[1] < 128)
  BY <1>1, OnesBack
<1>3. Ones(c[1]) = 0 => Verdict(m, c, 1) = "valid"
  BY <1>1, VerdictIs
<1>4. Refused(m, Ones(c[1])) => Verdict(m, c, 1) = "invalid"
  BY <1>1, VerdictIs
<1>5. Ones(c[1]) = n /\ ~Refused(m, n) =>
        (Verdict(m, c, 1) = "valid" <=> Tails(c, 1, n) /\ ~Forbidden(m, Point(c, 1, n), n))
  <2> SUFFICES ASSUME Ones(c[1]) = n, ~Refused(m, n)
               PROVE  Verdict(m, c, 1) = "valid" <=> Tails(c, 1, n) /\ ~Forbidden(m, Point(c, 1, n), n)
    OBVIOUS
  <2>1. Verdict(m, c, 1) = IF Tails(c, 1, n) /\ ~Forbidden(m, Point(c, 1, n), n) THEN "valid" ELSE "invalid"
    BY <1>1, VerdictIs
  <2> QED BY <2>1
<1>6. CASE n = 1
  <2>1. IsCharacter(m, c) <=> c[1] < 128
    BY <1>6 DEF IsCharacter
  <2>2. Ones(c[1]) = 1 => Refused(m, Ones(c[1]))
    BY DEF Refused
  <2> QED BY <1>2, <1>3, <1>4, <1>6, <2>1, <2>2 DEF Step
<1>7. CASE n > 1
  <2>1. c[2] \in Bytes
    BY <1>7
  <2>2. IsCharacter(m, c) <=> /\ HasRow(m, c[1], c[2], n) /\ ~NoCharacter(m, c)
                              /\ \A i \in 3..n : c[i] \in 128..191
    <3>1. IsCharacter(m, c) <=>
             /\ ~NoCharacter(m, c)
             /\ \E r \in Table(m) : /\ c[1] \in r.lead /\ c[2] \in r.second /\ n = r.rest + 2
                                    /\ \A i \in 3..n : c[i] \in 128..191
      <4>1. n # 1 /\ n > 1
        BY <1>7, <1>1
      <4> HIDE DEF n
      <4> QED BY <4>1, Zenon DEF IsCharacter, TailBytes, n
    <3> HIDE DEF n
    <3> QED BY <3>1, Zenon DEF HasRow
  <2>3. Tails(c, 1, n) <=> \A i \in 2..n : c[i] \in 128..191
    <3>1. n \in 1..Len(c)
      BY <1>1
    <3> HIDE DEF n
    <3> QED BY <3>1, TailsAre
  <2>4. ASSUME IsCharacter(m, c) PROVE n = Step(c[1]) /\ Verdict(m, c, 1) = "valid"
    <3>1. Ones(c[1]) = n /\ n \in 2..6 /\ ~Refused(m, n) /\ c[2] \in 128..191
      <4>1. n \in Int /\ HasRow(m, c[1], c[2], n)
        BY <1>1, <2>2, <2>4
      <4> HIDE DEF n
      <4> QED BY ONLY <1>1, <2>1, <4>1, RowShape, m \in Modes \ {"none"}, ZenonT(40)
    <3>2. \A i \in 2..n : c[i] \in 128..191
      <4>1. \A i \in 2..n : i = 2 \/ i \in 3..n
        BY <1>1
      <4> QED BY <2>2, <2>4, <3>1, <4>1
    <3>3. ~Forbidden(m, Point(c, 1, n), n)
      BY <2>2, <2>4, <3>1, <3>2, ShapeIsCharacter
    <3> QED BY <1>5, <2>3, <3>1, <3>2, <3>3 DEF Step
  <2>5. ASSUME n = Step(c[1]), Verdict(m, c, 1) = "valid" PROVE IsCharacter(m, c)
    <3>1. Ones(c[1]) = n /\ ~Refused(m, n)
      BY <1>2, <1>4, <1>7, <2>5 DEF Step
    <3>2. n \in 2..6
      BY <1>2, <1>7, <3>1 DEF Refused
    <3>3. (\A i \in 2..n : c[i] \in 128..191) /\ ~Forbidden(m, Point(c, 1, n), n)
      BY <1>5, <2>3, <2>5, <3>1
    <3>4. HasRow(m, c[1], c[2], n) /\ ~NoCharacter(m, c)
      BY <3>1, <3>2, <3>3, ShapeIsCharacter
    <3> QED BY <2>2, <3>3, <3>4
  <2> QED BY <2>4, <2>5
<1> QED BY <1>1, <1>6, <1>7

-------------------------------------------------------------------------------
(* A text is a sequence of characters where its validation says so.          *)
LEMMA WholeIsDecided ==
  ASSUME NEW m, NEW s \in Seq(Bytes), NEW i \in 1..Len(s), Step(s[i]) <= Len(s) - i + 1
  PROVE  Verdict(m, s, i) \in {"valid", "invalid"}
<1> DEFINE n == Ones(s[i])
           r == Len(s) - i + 1
<1>1. n \in 0..8 /\ r \in Nat /\ (n = 0 \/ n <= r)
  <2>1. n \in 0..8
    BY VerdictIs
  <2> QED BY <2>1 DEF Step
<1>2. n = 0 => Verdict(m, s, i) = "valid"
  BY VerdictIs
<1>3. Refused(m, n) => Verdict(m, s, i) = "invalid"
  BY VerdictIs
<1>4. n # 0 /\ ~Refused(m, n) /\ n <= r => Verdict(m, s, i) \in {"valid", "invalid"}
  BY VerdictIs
<1> HIDE DEF n, r
<1> QED BY <1>1, <1>2, <1>3, <1>4

LEMMA CharAt ==
  ASSUME NEW m \in Modes \ {"none"}, NEW s \in Seq(Bytes), NEW i \in 1..Len(s), NEW j \in i..Len(s)
  PROVE  IsCharacter(m, SubSeq(s, i, j)) <=> Verdict(m, s, i) = "valid" /\ j + 1 = i + Step(s[i])
<1> DEFINE c == SubSeq(s, i, j)
           t == SubSeq(s, i, Len(s))
<1>1. /\ c \in Seq(Bytes) /\ Len(c) = j - i + 1 /\ Len(c) >= 1 /\ 1 \in 1..Len(c)
      /\ t \in Seq(Bytes) /\ Len(t) = Len(s) - (i - 1) /\ 1 \in 1..Len(t) /\ Len(c) <= Len(t)
      /\ i - 1 \in 0..Len(s) /\ (i - 1) + 1 = i
  OBVIOUS
<1>2. EndOf(t, s, i - 1)
  BY DEF EndOf
<1>3. Begins(c, t)
  BY DEF Begins
<1>4. c[1] = s[i]
  OBVIOUS
<1> HIDE DEF c, t
<1>5. Verdict(m, t, 1) = Verdict(m, s, i)
  <2>1. Verdict(m, t, 1) = Verdict(m, s, (i - 1) + 1)
    BY <1>1, <1>2, VerdictOfRest, ZenonT(40)
  <2> QED BY <2>1, <1>1
<1>6. Verdict(m, c, 1) \in {"valid", "invalid"} => Verdict(m, t, 1) = Verdict(m, c, 1)
  BY <1>1, <1>3, VerdictExtends, Zenon
<1>7. IsCharacter(m, c) <=> Len(c) = Step(c[1]) /\ Verdict(m, c, 1) = "valid"
  BY <1>1, CharIs
<1>8. Step(s[i]) \in Nat
  <2>1. s[i] \in Bytes
    OBVIOUS
  <2>2. Ones(s[i]) \in 0..8
    BY <2>1, OnesRange
  <2>3. Ones(s[i]) \in Nat
    BY <2>2
  <2> QED BY <2>3, Zenon DEF Step
<1>9. Len(c) = Step(c[1]) <=> j + 1 = i + Step(s[i])
  BY <1>1, <1>4, <1>8, SMTT(30)
<1>10. Len(c) = Step(c[1]) => Verdict(m, c, 1) \in {"valid", "invalid"}
  <2> SUFFICES ASSUME Len(c) = Step(c[1]) PROVE Verdict(m, c, 1) \in {"valid", "invalid"}
    OBVIOUS
  <2>1. Step(c[1]) <= Len(c) - 1 + 1
    BY <1>1
  <2> QED BY <1>1, <2>1, WholeIsDecided
<1> QED BY <1>5, <1>6, <1>7, <1>9, <1>10 DEF c

(* One place of WellFormed, and where the validation passes.                 *)
Goes(m, s, f, i) ==
  \/ m = "none" \/ i > Len(s)
  \/ \E j \in i..Len(s) : IsCharacter(m, SubSeq(s, i, j)) /\ f[j + 1]

Passes(m, s) == [i \in 1..(Len(s) + 1) |-> From(m, s)[i].result = "valid"]

LEMMA GoesWherePasses ==
  ASSUME NEW m \in Modes, NEW s \in Seq(Bytes), NEW f, NEW i \in 1..(Len(s) + 1),
         \A j \in 1..(Len(s) + 1) : i < j => (f[j] <=> From(m, s)[j].result = "valid")
  PROVE  Goes(m, s, f, i) <=> From(m, s)[i].result = "valid"
<1> DEFINE v == From(m, s)
<1>1. CASE m = "none" \/ i > Len(s)
  <2>1. v[i] = AllValid(s)
    BY <1>1, FromIs
  <2>2. v[i].result = "valid"
    <3> HIDE DEF v
    <3> QED BY <2>1 DEF AllValid
  <2> QED BY <1>1, <2>2 DEF Goes
<1>2. CASE m # "none" /\ i <= Len(s)
  <2>1. m \in Modes \ {"none"} /\ i \in 1..Len(s) /\ Len(s) \in Nat
    BY <1>2
  <2>2. \A j \in i..Len(s) : IsCharacter(m, SubSeq(s, i, j)) <=>
                               Verdict(m, s, i) = "valid" /\ j + 1 = i + Step(s[i])
    BY <2>1, CharAt
  <2>3. Goes(m, s, f, i) <=> \E j \in i..Len(s) : IsCharacter(m, SubSeq(s, i, j)) /\ f[j + 1]
    BY <1>2, <2>1 DEF Goes
  <2>4. CASE Verdict(m, s, i) # "valid"
    <3>1. v[i] = Stops(m, s, i)
      BY <1>2, <2>4, FromIs
    <3>2. v[i].result = Verdict(m, s, i)
      <4> HIDE DEF v
      <4> QED BY <3>1 DEF Stops
    <3> QED BY <2>2, <2>3, <2>4, <3>2
  <2>5. CASE Verdict(m, s, i) = "valid"
    <3> DEFINE k == i + Step(s[i])
    <3>1. k \in 1..(Len(s) + 1) /\ i < k /\ v[i] = v[k]
      BY <1>2, <2>5, FromIs
    <3>2. f[k] <=> v[k].result = "valid"
      BY <3>1
    <3>3. k - 1 \in i..Len(s) /\ (k - 1) + 1 = k
      <4> HIDE DEF k
      <4> QED BY <2>1, <3>1
    <3>4. \A j \in i..Len(s) : IsCharacter(m, SubSeq(s, i, j)) <=> j + 1 = k
      BY <2>2, <2>5
    <3> HIDE DEF k, v
    <3>5. ASSUME Goes(m, s, f, i) PROVE f[k]
      <4>1. PICK j \in i..Len(s) : IsCharacter(m, SubSeq(s, i, j)) /\ f[j + 1]
        BY <2>3, <3>5
      <4> QED BY <4>1, <3>4
    <3>6. ASSUME f[k] PROVE Goes(m, s, f, i)
      <4>1. IsCharacter(m, SubSeq(s, i, k - 1)) /\ f[(k - 1) + 1]
        BY <3>3, <3>4, <3>6
      <4> QED BY <2>3, <3>3, <4>1
    <3>7. v[i].result = "valid" <=> f[k]
      BY <3>1, <3>2
    <3> QED BY <3>5, <3>6, <3>7 DEF v
  <2> QED BY <2>4, <2>5
<1>3. m = "none" \/ i > Len(s) \/ (m # "none" /\ i <= Len(s))
  OBVIOUS
<1> QED BY <1>1, <1>2, <1>3

LEMMA WellFormedIs ==
  ASSUME NEW m \in Modes, NEW s \in Seq(Bytes)
  PROVE  WellFormed(m, s) <=> Validate(m, s).result = "valid"
<1> DEFINE N == Len(s) + 1
           body(f) == [i \in 1..N |-> Goes(m, s, f, i)]
           w == CHOOSE f : f = body(f)
           g == Passes(m, s)
<1>1. WellFormed(m, s) <=> w[1]
  BY Zenon DEF WellFormed, Goes
<1>2. N \in Nat /\ 1 \in 1..N
  OBVIOUS
<1>3. g = body(g)
  <2>1. ASSUME NEW i \in 1..N PROVE g[i] <=> Goes(m, s, g, i)
    <3>1. \A j \in 1..N : g[j] <=> From(m, s)[j].result = "valid"
      BY Zenon DEF Passes
    <3> HIDE DEF g
    <3>2. Goes(m, s, g, i) <=> From(m, s)[i].result = "valid"
      BY <3>1, GoesWherePasses
    <3> QED BY <3>1, <3>2
  <2>2. g = [i \in 1..N |-> g[i]] /\ \A i \in 1..N : g[i] \in BOOLEAN
    BY Zenon DEF Passes
  <2>3. \A i \in 1..N : g[i] = Goes(m, s, g, i)
    <3> HIDE DEF g
    <3>1. \A i \in 1..N : Goes(m, s, g, i) \in BOOLEAN
      BY Zenon DEF Goes
    <3> QED BY <2>1, <2>2, <3>1, Zenon
  <2> HIDE DEF g, N
  <2> QED BY <2>2, <2>3, Zenon
<1>4. w = body(w)
  <2> HIDE DEF g, N
  <2> QED BY <1>3, Zenon
<1> HIDE DEF w, g
<1>5. ASSUME NEW i \in 1..N PROVE w[i] <=> Goes(m, s, w, i)
  <2> HIDE DEF N
  <2> QED BY <1>4, Zenon
<1>6. \A i \in 1..N : w[i] <=> From(m, s)[i].result = "valid"
  <2> DEFINE S == {k \in 1..N : w[k] <=> From(m, s)[k].result = "valid"}
  <2>1. ASSUME NEW i \in 1..N, \A j \in 1..N : i < j => j \in S PROVE i \in S
    <3>1. \A j \in 1..N : i < j => (w[j] <=> From(m, s)[j].result = "valid")
      BY <2>1
    <3>2. Goes(m, s, w, i) <=> From(m, s)[i].result = "valid"
      BY <3>1, GoesWherePasses
    <3> QED BY <1>5, <3>2
  <2>2. \A i \in 1..N : i \in S
    <3> HIDE DEF S, N
    <3> QED BY <1>2, <2>1, FromTheRight
  <2> QED BY <2>2
<1> QED BY <1>1, <1>2, <1>6, ValidateIs

-------------------------------------------------------------------------------
(* What the fragments of a message were judged by is what all of it would    *)
(* have been judged by.                                                      *)
Verdicted(m, text, whole, outcome) ==
  /\ outcome = "delivered" => Validate(m, text).result = "valid"
  /\ outcome = "failed" /\ whole => Validate(m, text).result # "valid"
  /\ outcome = "failed" /\ ~whole => Validate(m, text).result = "invalid"

TextTypes ==
  /\ utf8_mode \in Modes /\ fragment_payload \in Seq(Bytes)
  /\ judged.text \in Seq(Bytes) /\ judged.whole \in BOOLEAN
  /\ judged.outcome \in {"none", "delivered", "failed"}

TextInv ==
  /\ TextTypes
  /\ judged.outcome = "delivered" => ~in_fragments
  /\ in_fragments /\ judged = Unjudged =>
       /\ Validate(utf8_mode, fragment_payload).result # "invalid"
       /\ fragment_validate_offset = Validate(utf8_mode, fragment_payload).last_pos
  /\ Verdicted(utf8_mode, judged.text, judged.whole, judged.outcome)

LEMMA ValidateTypes ==
  ASSUME NEW m, NEW s \in Seq(Bytes)
  PROVE  Validate(m, s).result \in Verdicts /\ Validate(m, s).last_pos \in 0..Len(s)
<1>1. 1 \in 1..(Len(s) + 1) /\ 1 - 1 = 0
  OBVIOUS
<1> QED BY <1>1, FromTypes, ValidateIs

LEMMA TailOf ==
  ASSUME NEW u \in Seq(Bytes), NEW q \in 0..Len(u)
  PROVE  SubSeq(u, q + 1, Len(u)) \in Seq(Bytes) /\ EndOf(SubSeq(u, q + 1, Len(u)), u, q)
BY SMTT(30) DEF EndOf

(* What is validated when p follows s, of which q bytes are known to be good.*)
Rest(s, p, q) == SubSeq(s \o p, q + 1, Len(s \o p))

SameInPieces(m, s, p, q) ==
  /\ Validate(m, Rest(s, p, q)).result = Validate(m, s \o p).result
  /\ q + Validate(m, Rest(s, p, q)).last_pos = Validate(m, s \o p).last_pos

LEMMA PieceByPiece ==
  ASSUME NEW m, NEW s \in Seq(Bytes), NEW p \in Seq(Bytes), Validate(m, s).result # "invalid",
         NEW q, q = Validate(m, s).last_pos
  PROVE  SameInPieces(m, s, p, q)
<1> DEFINE u == s \o p
           t == Rest(s, p, q)
<1>1. q \in 0..Len(s)
  BY ValidateTypes
<1>2. u \in Seq(Bytes) /\ Len(s) <= Len(u) /\ Begins(s, u)
  BY DEF Begins
<1>3. t = SubSeq(u, q + 1, Len(u))
  BY DEF Rest
<1> HIDE DEF u, t
<1>4. q \in 0..Len(u) /\ t \in Seq(Bytes) /\ EndOf(t, u, q)
  <2>1. q \in 0..Len(u)
    BY <1>1, <1>2
  <2>2. /\ SubSeq(u, q + 1, Len(u)) \in Seq(Bytes)
        /\ EndOf(SubSeq(u, q + 1, Len(u)), u, q)
    BY ONLY <1>2, <2>1, TailOf, Zenon
  <2> QED BY ONLY <1>3, <2>1, <2>2, Zenon
<1>5. 1 \in 1..(Len(s) + 1) /\ 1 \in 1..(Len(t) + 1)
  BY ONLY <1>4, s \in Seq(Bytes), SMT
<1>6. From(m, u)[1] = From(m, u)[q + 1]
  <2>1. From(m, s)[1].result # "invalid" /\ From(m, s)[1].last_pos = q
    BY ValidateIs
  <2>2. From(m, u)[1] = From(m, u)[From(m, s)[1].last_pos + 1]
    <3>1. GoesOn(m, s, u, 1)
      BY ONLY <1>2, <1>5, FromExtends, s \in Seq(Bytes), Zenon
    <3> QED BY ONLY <2>1, <3>1, Zenon DEF GoesOn
  <2> QED BY <2>1, <2>2, Zenon
<1>7. SameRest(m, t, u, q, 1)
  BY ONLY <1>2, <1>4, <1>5, FromRest, Zenon
<1>8. /\ Validate(m, t).result = Validate(m, u).result
      /\ q + Validate(m, t).last_pos = Validate(m, u).last_pos
  BY <1>6, <1>7, ValidateIs, Zenon DEF SameRest
<1> QED BY <1>8, Zenon DEF u, t, SameInPieces

LEMMA InvalidStays ==
  ASSUME NEW m \in Modes, NEW s \in Seq(Bytes), Validate(m, s).result = "invalid"
  PROVE  ~Completable(m, s)
<1> SUFFICES ASSUME NEW k \in 0..5, NEW t \in [1..k -> {128, 160}], WellFormed(m, s \o t)
             PROVE  FALSE
  BY Zenon DEF Completable
<1>1. t \in Seq(Bytes)
  BY DEF Bytes
<1> DEFINE u == s \o t
<1>2. u \in Seq(Bytes) /\ Begins(s, u)
  BY <1>1 DEF Begins
<1>3. 1 \in 1..(Len(s) + 1)
  OBVIOUS
<1>4. WellFormed(m, u)
  OBVIOUS
<1> HIDE DEF u
<1>5. From(m, s)[1].result = "invalid"
  BY ValidateIs
<1>6. From(m, u)[1].result = "invalid"
  <2>1. GoesOn(m, s, u, 1)
    BY <1>2, <1>3, FromExtends, Zenon
  <2> QED BY <1>5, <2>1, Zenon DEF GoesOn
<1>7. From(m, u)[1].result = "valid"
  BY <1>2, <1>4, WellFormedIs, ValidateIs
<1> QED BY <1>6, <1>7

LEMMA PieceIsText == ASSUME NEW n \in Int, NEW p \in Pieces(n) PROVE p \in Seq(Bytes)
<1>1. PICK k \in 0..(IF n < MaxPiece THEN n ELSE MaxPiece) : p \in [1..k -> TextBytes]
  BY Zenon DEF Pieces
<1>2. k \in Nat
  BY TextAssumption
<1>3. p \in [1..k -> Bytes]
  BY <1>1, TextAssumption DEF Bytes
<1> QED BY <1>2, <1>3

LEMMA EmptyText == ASSUME NEW m PROVE Validate(m, <<>>).result = "valid" /\ Validate(m, <<>>).last_pos = 0
<1>1. <<>> \in Seq(Bytes) /\ Len(<<>>) = 0 /\ 1 \in 1..(Len(<<>>) + 1) /\ 1 > Len(<<>>)
  OBVIOUS
<1>2. From(m, <<>>)[1] = AllValid(<<>>)
  <2>1. PICK e \in Seq(Bytes) : e = <<>> /\ 1 \in 1..(Len(e) + 1) /\ 1 > Len(e)
    BY <1>1
  <2>2. From(m, e)[1] = AllValid(e)
    BY <2>1, FromEnds
  <2> QED BY <2>1, <2>2, Zenon
<1> QED BY <1>1, <1>2, ValidateIs DEF AllValid

LEMMA TextInitially == TextInit => TextInv
<1> SUFFICES ASSUME TextInit PROVE TextInv
  OBVIOUS
<1>1. TextTypes
  BY DEF TextInit, TextTypes, Unjudged, Modes
<1>2. judged.outcome = "none" /\ ~in_fragments
  BY DEF TextInit, Unjudged
<1> QED BY <1>1, <1>2 DEF TextInv, Verdicted

LEMMA JudgedIs ==
  ASSUME NEW text, NEW whole, NEW ok, Judge(text, whole, ok)
  PROVE  /\ judged'.text = text /\ judged'.whole = whole
         /\ judged'.outcome = IF ok THEN "delivered" ELSE "failed"
BY DEF Judge

(* A fragment that is not the last: `piece` follows what is there.           *)
LEMMA FailFastKeeps ==
  ASSUME NEW s \in Seq(Bytes), NEW p \in Seq(Bytes), TextTypes, judged = Unjudged,
         Validate(utf8_mode, s).result # "invalid", NEW q, q = Validate(utf8_mode, s).last_pos,
         FailFast(s \o p, q), UNCHANGED utf8_mode, in_fragments'
  PROVE  TextInv'
<1> DEFINE u == s \o p
           t == Rest(s, p, q)
           v == Validate(utf8_mode, t)
<1>1. v.result = Validate(utf8_mode, u).result /\ q + v.last_pos = Validate(utf8_mode, u).last_pos
  <2>1. SameInPieces(utf8_mode, s, p, q)
    BY PieceByPiece, Zenon
  <2> QED BY <2>1, Zenon DEF SameInPieces
<1>2. u \in Seq(Bytes)
  OBVIOUS
<1>3. fragment_payload' = u
  BY DEF FailFast
<1>4. CASE v.result = "invalid"
  <2>1. Judge(u, FALSE, FALSE)
    BY <1>4 DEF FailFast, Rest
  <2>2. judged'.text = u /\ judged'.whole = FALSE /\ judged'.outcome = "failed"
    BY <2>1, JudgedIs
  <2>3. judged' # Unjudged
    BY <2>2 DEF Unjudged
  <2> HIDE DEF u, t
  <2>4. TextTypes'
    BY <1>2, <1>3, <2>2 DEF TextTypes
  <2>5. Verdicted(utf8_mode, judged.text, judged.whole, judged.outcome)'
    BY <1>1, <1>4, <2>2 DEF Verdicted
  <2> QED BY <2>2, <2>3, <2>4, <2>5 DEF TextInv
<1>5. CASE v.result # "invalid"
  <2>1. fragment_validate_offset' = q + v.last_pos /\ judged' = judged
    BY <1>5 DEF FailFast, GoodUpTo, Rest
  <2>2. judged'.outcome = "none"
    BY <2>1 DEF Unjudged
  <2> HIDE DEF u, t
  <2>3. TextTypes'
    BY <1>2, <1>3, <2>1 DEF TextTypes
  <2>4. /\ Validate(utf8_mode, fragment_payload)'.result # "invalid"
        /\ fragment_validate_offset' = Validate(utf8_mode, fragment_payload)'.last_pos
    BY <1>1, <1>3, <1>5, <2>1
  <2>5. Verdicted(utf8_mode, judged.text, judged.whole, judged.outcome)'
    BY <2>2 DEF Verdicted
  <2> QED BY <2>2, <2>3, <2>4, <2>5 DEF TextInv
<1> QED BY <1>4, <1>5

LEMMA LastFragmentKeeps ==
  ASSUME TextInv, NEW p \in Seq(Bytes), LastFragment(p)
  PROVE  TextInv'
<1> DEFINE s == fragment_payload
           q == fragment_validate_offset
           u == s \o p
           t == Rest(s, p, q)
           ok == Validate(utf8_mode, t).result = "valid"
<1>1. /\ s \in Seq(Bytes) /\ in_fragments /\ judged = Unjudged /\ utf8_mode' = utf8_mode
      /\ ~in_fragments' /\ fragment_payload' = <<>> /\ u \in Seq(Bytes) /\ <<>> \in Seq(Bytes)
  BY DEF TextInv, TextTypes, LastFragment
<1>2. Validate(utf8_mode, s).result # "invalid" /\ q = Validate(utf8_mode, s).last_pos
  BY <1>1 DEF TextInv
<1>3. Judge(u, TRUE, ok)
  BY Zenon DEF LastFragment, Rest
<1> HIDE DEF s, q
<1>4. Validate(utf8_mode, t).result = Validate(utf8_mode, u).result
  <2>1. SameInPieces(utf8_mode, s, p, q)
    BY ONLY <1>1, <1>2, PieceByPiece, p \in Seq(Bytes), Zenon
  <2> QED BY <2>1, Zenon DEF SameInPieces
<1> HIDE DEF u, t
<1>5. /\ judged'.text = u /\ judged'.whole = TRUE
      /\ judged'.outcome = IF ok THEN "delivered" ELSE "failed"
  BY <1>3, JudgedIs
<1>6. TextTypes'
  BY <1>1, <1>5 DEF TextTypes, TextInv
<1>7. Verdicted(utf8_mode, judged.text, judged.whole, judged.outcome)'
  BY <1>1, <1>4, <1>5 DEF Verdicted
<1> QED BY <1>1, <1>6, <1>7 DEF TextInv

LEMMA WholeTextKeeps ==
  ASSUME TextInv, NEW p \in Seq(Bytes), WholeText(p)
  PROVE  TextInv'
<1> DEFINE ok == Validate(utf8_mode, p).result = "valid"
<1>1. /\ ~in_fragments /\ in_fragments' = in_fragments /\ utf8_mode' = utf8_mode
      /\ fragment_payload' = fragment_payload /\ Judge(p, TRUE, ok)
  BY DEF WholeText
<1>2. /\ judged'.text = p /\ judged'.whole = TRUE
      /\ judged'.outcome = IF ok THEN "delivered" ELSE "failed"
  BY <1>1, JudgedIs
<1>3. TextTypes'
  BY <1>1, <1>2 DEF TextTypes, TextInv
<1>4. Verdicted(utf8_mode, judged.text, judged.whole, judged.outcome)'
  BY <1>1, <1>2 DEF Verdicted
<1> QED BY <1>1, <1>3, <1>4 DEF TextInv

LEMMA TextStep ==
  ASSUME TextInv, [TextNext]_textVars
  PROVE  TextInv'
<1>1. TextTypes /\ fragment_payload \in Seq(Bytes) /\ MaxText \in Int /\ MaxText - Len(fragment_payload) \in Int
  BY TextAssumption DEF TextInv, TextTypes
<1>2. ASSUME NEW m \in Modes, SetMode(m) PROVE TextInv'
  <2>1. ~in_fragments' /\ judged' = judged /\ judged = Unjudged
    BY <1>2 DEF SetMode
  <2>2. judged'.outcome = "none"
    BY <2>1 DEF Unjudged
  <2>3. TextTypes'
    BY <1>1, <1>2 DEF SetMode, TextTypes
  <2> QED BY <2>1, <2>2, <2>3 DEF TextInv, Verdicted
<1>3. ASSUME NEW p \in Pieces(MaxText), WholeText(p) PROVE TextInv'
  BY <1>1, <1>3, PieceIsText, WholeTextKeeps
<1>4. ASSUME NEW p \in Pieces(MaxText), FirstFragment(p) PROVE TextInv'
  <2>1. p \in Seq(Bytes) /\ <<>> \in Seq(Bytes) /\ <<>> \o p = p
    BY <1>1, PieceIsText
  <2>2. /\ judged = Unjudged /\ in_fragments' /\ utf8_mode' = utf8_mode
        /\ FailFast(<<>> \o p, 0)
    BY <1>4, <2>1 DEF FirstFragment
  <2> QED BY <1>1, <2>1, <2>2, EmptyText, FailFastKeeps
<1>5. ASSUME NEW p \in Pieces(MaxText - Len(fragment_payload)), MiddleFragment(p) PROVE TextInv'
  <2>1. p \in Seq(Bytes)
    BY <1>1, PieceIsText
  <2>2. /\ judged = Unjudged /\ in_fragments /\ in_fragments' /\ utf8_mode' = utf8_mode
        /\ FailFast(fragment_payload \o p, fragment_validate_offset)
    BY <1>5 DEF MiddleFragment
  <2>3. /\ Validate(utf8_mode, fragment_payload).result # "invalid"
        /\ fragment_validate_offset = Validate(utf8_mode, fragment_payload).last_pos
    BY <2>2 DEF TextInv
  <2> QED BY <1>1, <2>1, <2>2, <2>3, FailFastKeeps
<1>6. ASSUME NEW p \in Pieces(MaxText - Len(fragment_payload)), LastFragment(p) PROVE TextInv'
  BY <1>1, <1>6, PieceIsText, LastFragmentKeeps
<1>7. ASSUME Forget PROVE TextInv'
  <2>1. /\ judged' = Unjudged /\ ~in_fragments /\ in_fragments' = in_fragments
        /\ utf8_mode' = utf8_mode /\ fragment_payload' = fragment_payload
    BY <1>7 DEF Forget, TextInv
  <2>2. TextTypes' /\ judged'.outcome = "none"
    BY <1>1, <2>1 DEF TextTypes, Unjudged
  <2> QED BY <2>1, <2>2 DEF TextInv, Verdicted
<1>8. ASSUME UNCHANGED textVars PROVE TextInv'
  BY <1>8 DEF textVars, TextInv, TextTypes, Verdicted
<1> QED BY <1>2, <1>3, <1>4, <1>5, <1>6, <1>7, <1>8 DEF TextNext

(* A text message is handed out only if all of it is well formed by the      *)
(* table of its mode, refused at its end only if it is not, and before its   *)
(* end only if nothing could have completed it, for every text of bytes and  *)
(* wherever its fragments cut it (websocket.cpp:527-581, util.h).            *)
THEOREM TextsAreJudgedAsWhole == TextSpec => []FragmentsJudgedAsWhole
<1>1. TextInv => FragmentsJudgedAsWhole
  <2> SUFFICES ASSUME TextInv PROVE FragmentsJudgedAsWhole
    OBVIOUS
  <2>1. /\ utf8_mode \in Modes /\ judged.text \in Seq(Bytes) /\ judged.whole \in BOOLEAN
        /\ judged.outcome \in {"none", "delivered", "failed"}
        /\ Verdicted(utf8_mode, judged.text, judged.whole, judged.outcome)
    BY DEF TextInv, TextTypes
  <2>2. WellFormed(utf8_mode, judged.text) <=> Validate(utf8_mode, judged.text).result = "valid"
    BY <2>1, WellFormedIs
  <2>3. Validate(utf8_mode, judged.text).result = "invalid" => ~Completable(utf8_mode, judged.text)
    BY <2>1, InvalidStays
  <2> QED BY <2>1, <2>2, <2>3 DEF FragmentsJudgedAsWhole, Verdicted
<1> QED BY <1>1, TextInitially, TextStep, PTL DEF TextSpec

-------------------------------------------------------------------------------
(* The message that sha1 pads and splits into blocks, of any length.          *)
(* FlattenSeq by the texts it goes through.                                  *)
Flat(q, f) == f[1] = q[1] /\ \A i \in 2..Len(q) : f[i] = f[i - 1] \o q[i]

LEMMA FlattenIs ==
  ASSUME NEW S, NEW q \in Seq(Seq(S)), q # <<>>
  PROVE  \E f \in [1..Len(q) -> Seq(S)] : Flat(q, f) /\ FlattenSeq(q) = f[Len(q)]
<1> DEFINE N == Len(q)
           body(f) == [i \in 1..N |-> IF i = 1 THEN q[i] ELSE f[i - 1] \o q[i]]
           step == [i \in 1..N |-> [x \in Seq(S) |-> x \o q[i]]]
<1>1. N \in Nat \ {0} /\ 1 \in 1..N /\ N # 0
  BY EmptySeq
<1>2. FlattenSeq(q) = (CHOOSE f : f = body(f))[N]
  BY <1>1 DEF FlattenSeq
<1> HIDE DEF N
<1>3. \A i \in 1..N : q[i] \in Seq(S)
  BY ElementOfSeq DEF N
<1>4. \E f : f = body(f)
  <2>1. step \in [1..N -> [Seq(S) -> Seq(S)]]
    <3>1. \A i \in 1..N : \A x \in Seq(S) : x \o q[i] \in Seq(S)
      BY <1>3, ConcatProperties
    <3> QED BY <3>1
  <2>2. <<>> \in Seq(S)
    OBVIOUS
  <2>3. \A i \in 1..N : \A x \in Seq(S) : step[i][x] = x \o q[i]
    OBVIOUS
  <2> HIDE DEF step
  <2>4. PICK f \in [0..N -> Seq(S)] : f[0] = <<>> /\ \A i \in 1..N : f[i] = step[i][f[i - 1]]
    <3> DEFINE D == Seq(S)
               e == <<>>
    <3>1. e \in D /\ step \in [1..N -> [D -> D]] /\ N \in Nat
      BY <2>1, <2>2, <1>1
    <3> HIDE DEF D, e
    <3>2. \E f \in [0..N -> D] : Iterates(N, e, step, f)
      BY <3>1, StepRecursion
    <3> QED BY <3>2 DEF D, e, Iterates
  <2> DEFINE g == [i \in 1..N |-> f[i]]
  <2>5. ASSUME NEW i \in 1..N PROVE g[i] = IF i = 1 THEN q[i] ELSE g[i - 1] \o q[i]
    <3>1. i - 1 \in 0..N /\ f[i - 1] \in Seq(S)
      BY <1>1
    <3>2. f[i] = f[i - 1] \o q[i]
      BY <3>1, <2>3, <2>4
    <3>3. CASE i = 1
      <4>1. f[i - 1] = <<>>
        BY <3>3, <2>4
      <4>2. <<>> \o q[i] = q[i]
        BY <1>3, ConcatEmptySeq
      <4> QED BY <3>2, <3>3, <4>1, <4>2
    <3>4. CASE i # 1
      <4>1. i - 1 \in 1..N
        BY <3>4, <1>1
      <4> QED BY <4>1, <3>2, <3>4
    <3> QED BY <3>3, <3>4
  <2>6. g = body(g)
    BY <2>5
  <2> QED BY <2>6
<1> DEFINE f == CHOOSE f : f = body(f)
<1>5. f = body(f)
  <2> HIDE DEF body
  <2> QED BY <1>4
<1> HIDE DEF f
<1>6. \A i \in 1..N : f[i] = IF i = 1 THEN q[i] ELSE f[i - 1] \o q[i]
  BY <1>5
<1>7. f = [i \in 1..N |-> f[i]]
  BY <1>5
<1>8. \A i \in 1..N : f[i] \in Seq(S)
  <2> DEFINE M == N - 1
             T == {k \in 0..M : f[k + 1] \in Seq(S)}
  <2>1. M \in Nat /\ f[1] = q[1] /\ f[0 + 1] = f[1]
    BY <1>1, <1>6
  <2>2. 0 \in T
    BY <2>1, <1>1, <1>3
  <2>3. ASSUME NEW k \in 1..M, k - 1 \in T PROVE k \in T
    <3>1. k + 1 \in 1..N /\ k + 1 # 1 /\ (k - 1) + 1 = k /\ (k + 1) - 1 = k
      BY <1>1
    <3>2. f[k] \in Seq(S) /\ f[k + 1] = f[k] \o q[k + 1]
      BY <3>1, <2>3, <1>6
    <3>3. f[k + 1] \in Seq(S)
      BY <3>1, <3>2, <1>3, ConcatProperties
    <3> QED BY <3>1, <3>3
  <2> HIDE DEF M, T
  <2>4. \A k \in 0..M : k \in T
    BY <2>1, <2>2, <2>3, FromTheLeft
  <2>5. ASSUME NEW i \in 1..N PROVE f[i] \in Seq(S)
    <3>1. i - 1 \in 0..M /\ (i - 1) + 1 = i
      BY <1>1 DEF M
    <3>2. i - 1 \in T
      BY <3>1, <2>4
    <3> QED BY <3>1, <3>2 DEF T
  <2> QED BY <2>5
<1>9. Flat(q, f)
  <2>1. \A i \in 2..N : i \in 1..N /\ i # 1
    BY <1>1
  <2> QED BY <2>1, <1>1, <1>6 DEF Flat, N
<1>10. f \in [1..N -> Seq(S)]
  BY <1>7, <1>8
<1>11. FlattenSeq(q) = f[N]
  BY <1>2 DEF f
<1> QED BY <1>9, <1>10, <1>11 DEF N

(* A number by its quotient and its remainder.                               *)
LEMMA QuotientOf ==
  ASSUME NEW x \in Int, NEW b \in Nat \ {0}, NEW q \in Int, NEW r \in 0..(b - 1), x = q * b + r
  PROVE  x \div b = q /\ x % b = r
<1> DEFINE d == x \div b
           e == x % b
<1>1. x \in Int /\ d \in Int /\ e \in 0..(b - 1) /\ x = b * d + e
  OBVIOUS
<1>2. x = b * q + r
  OBVIOUS
<1> HIDE DEF d, e
<1>3. b * (d - q) = r - e
  BY <1>1, <1>2
<1>4. ~(d - q >= 1)
  <2> SUFFICES ASSUME d - q >= 1 PROVE FALSE
    OBVIOUS
  <2>1. b * (d - q) >= b
    BY <1>1
  <2> QED BY <2>1, <1>1, <1>3
<1>5. ~(d - q <= -1)
  <2> SUFFICES ASSUME d - q <= -1 PROVE FALSE
    OBVIOUS
  <2>1. b * (d - q) <= -b
    BY <1>1
  <2> QED BY <2>1, <1>1, <1>3
<1>6. d = q
  BY <1>1, <1>4, <1>5
<1>7. e = r
  BY <1>1, <1>2, <1>6
<1> QED BY <1>6, <1>7 DEF d, e

LEMMA QuotientIs ==
  ASSUME NEW x \in Int, NEW b \in Nat \ {0}
  PROVE  /\ x \div b \in Int /\ x % b \in 0..(b - 1)
         /\ x = (x \div b) * b + (x % b)
<1> DEFINE d == x \div b
           e == x % b
<1>1. d \in Int /\ e \in 0..(b - 1) /\ x = b * d + e
  OBVIOUS
<1> HIDE DEF d, e
<1>2. b * d = d * b
  BY <1>1
<1>3. x = d * b + e
  BY <1>1, <1>2
<1> QED BY <1>1, <1>3, Zenon DEF d, e

LEMMA TimesGrows ==
  ASSUME NEW b \in Nat, NEW x \in Int, NEW y \in Int, x <= y
  PROVE  b * x <= b * y
<1>1. b * (y - x) >= 0
  OBVIOUS
<1> QED BY <1>1

LEMMA ModOfSum ==
  ASSUME NEW b \in Nat \ {0}, NEW x \in Int, NEW y \in Int
  PROVE  ((x % b) + y) % b = (x + y) % b
<1> DEFINE q == x \div b
           p == ((x % b) + y) \div b
           r == ((x % b) + y) % b
<1>1. q \in Int /\ x % b \in 0..(b - 1) /\ x = q * b + (x % b)
  BY QuotientIs
<1>2. p \in Int /\ r \in 0..(b - 1) /\ (x % b) + y = p * b + r
  BY <1>1, QuotientIs
<1> DEFINE z == x % b
<1>3. z \in Int
  BY <1>1
<1> HIDE DEF q, p, r, z
<1>4. x = q * b + z /\ z + y = p * b + r /\ q \in Int /\ p \in Int /\ r \in 0..(b - 1)
  BY <1>1, <1>2, Zenon DEF z
<1>5. (q + p) * b = q * b + p * b
  BY <1>4
<1>6. x + y = (q + p) * b + r /\ x + y \in Int /\ q + p \in Int
  BY <1>3, <1>4, <1>5
<1>7. (x + y) % b = r
  BY <1>4, <1>6, QuotientOf
<1> QED BY <1>7 DEF r, z

-------------------------------------------------------------------------------
(* What a state that took in the bytes of m holds.                           *)
Bits(n) == <<(8 * n) % Word, ((8 * n) \div Word) % Word>>

Holds(s, m) ==
  /\ s = [count |-> s.count, buffer |-> s.buffer, blocks |-> s.blocks]
  /\ s.count = Bits(Len(m))
  /\ s.buffer \in [1..Block -> Int] /\ s.blocks \in Seq(Seq(Int))
  /\ Len(s.blocks) = Len(m) \div Block
  /\ \A b \in 1..Len(s.blocks) : s.blocks[b] = SubSeq(m, Block * (b - 1) + 1, Block * b)
  /\ \A k \in 1..(Len(m) % Block) : s.buffer[k] = m[Block * Len(s.blocks) + k]

LEMMA BitsOf ==
  ASSUME NEW n \in Nat, NEW q \in Nat, NEW r \in 0..(WordBytes - 1), n = q * WordBytes + r
  PROVE  Bits(n) = <<8 * r, q % Word>>
<1> USE Sha1Assumption
<1>1. Word \in Nat \ {0} /\ WordBytes \in Nat \ {0} /\ Word = 8 * WordBytes
  BY DEF Word
<1> DEFINE x == 8 * n
           t == 8 * r
<1>2. x = q * Word + t /\ t \in 0..(Word - 1) /\ x \in Int
  BY <1>1
<1> HIDE DEF x, t
<1>3. x \div Word = q /\ x % Word = t
  BY <1>1, <1>2, QuotientOf
<1> QED BY <1>3 DEF Bits, x, t

(* The counter counts the bytes, and what is in the buffer.                  *)
LEMMA CountedIs ==
  ASSUME NEW n \in Nat, NEW k \in Nat
  PROVE  Counted(Bits(n), k) = Bits(n + k)
<1> USE Sha1Assumption
<1> DEFINE q == n \div WordBytes
           r == n % WordBytes
           p == k \div WordBytes
           t == k % WordBytes
<1>1. Word \in Nat \ {0} /\ WordBytes \in Nat \ {0} /\ Word = 8 * WordBytes
  BY DEF Word
<1>2. q \in Nat /\ r \in 0..(WordBytes - 1) /\ n = q * WordBytes + r
      /\ p \in Nat /\ t \in 0..(WordBytes - 1) /\ k = p * WordBytes + t
  BY <1>1
<1> HIDE DEF q, r, t, p
<1>3. Bits(n) = <<8 * r, q % Word>>
  BY <1>2, BitsOf
<1>4. ASSUME NEW c \in Nat PROVE ((q % Word) + (c + p)) % Word = (q + c + p) % Word
  <2>1. q \in Int /\ c + p \in Int /\ q + (c + p) = q + c + p
    BY <1>2
  <2> DEFINE y == c + p
  <2> HIDE DEF y
  <2>2. ((q % Word) + y) % Word = (q + y) % Word
    BY <1>1, <2>1, ModOfSum DEF y
  <2> QED BY <2>1, <2>2 DEF y
<1>5. ASSUME NEW c \in {0, 1}, NEW u \in 0..(WordBytes - 1), r + t = c * WordBytes + u
      PROVE  /\ (8 * r + 8 * k) % Word = 8 * u
             /\ Bits(n + k) = <<8 * u, (q + c + p) % Word>>
  <2> DEFINE x == 8 * r + 8 * k
             v == 8 * u
             m == n + k
  <2>1. x = (c + p) * Word + v /\ x \in Int /\ v \in 0..(Word - 1) /\ c + p \in Int
    BY <1>1, <1>2, <1>5
  <2>2. m = (q + c + p) * WordBytes + u /\ m \in Nat /\ q + c + p \in Nat
    BY <1>1, <1>2, <1>5
  <2> HIDE DEF x, v, m
  <2>3. x % Word = v
    BY <2>1, <1>1, QuotientOf
  <2>4. Bits(m) = <<8 * u, (q + c + p) % Word>>
    BY <2>2, BitsOf
  <2> QED BY <2>3, <2>4 DEF x, v, m
<1> DEFINE low == (8 * r + 8 * k) % Word
<1>6. Counted(Bits(n), k) = <<low, ((q % Word) + ((IF low < 8 * r THEN 1 ELSE 0) + p)) % Word>>
  <2>1. Counted(<<8 * r, q % Word>>, k)
          = <<low, ((q % Word) + (IF low < 8 * r THEN 1 ELSE 0) + p) % Word>>
    BY DEF Counted, p
  <2>2. q % Word \in Int /\ p \in Int
    BY <1>1, <1>2
  <2>3. (q % Word) + (IF low < 8 * r THEN 1 ELSE 0) + p = (q % Word) + ((IF low < 8 * r THEN 1 ELSE 0) + p)
    BY <2>2
  <2> QED BY <2>1, <2>3, <1>3
<1> HIDE DEF low
<1>7. CASE r + t < WordBytes
  <2>1. r + t \in 0..(WordBytes - 1) /\ r + t = 0 * WordBytes + (r + t)
    BY <1>1, <1>2, <1>7
  <2>2. low = 8 * (r + t) /\ Bits(n + k) = <<8 * (r + t), (q + 0 + p) % Word>>
    BY <2>1, <1>5 DEF low
  <2>3. ~(low < 8 * r)
    BY <2>2, <1>2
  <2>4. Counted(Bits(n), k) = <<low, ((q % Word) + (0 + p)) % Word>>
    BY <2>3, <1>6
  <2> QED BY <2>2, <2>4, <1>4
<1>8. CASE r + t >= WordBytes
  <2> DEFINE u == r + t - WordBytes
  <2>1. u \in 0..(WordBytes - 1) /\ r + t = 1 * WordBytes + u /\ 8 * u < 8 * r
    BY <1>1, <1>2, <1>8
  <2> HIDE DEF u
  <2>2. low = 8 * u /\ Bits(n + k) = <<8 * u, (q + 1 + p) % Word>>
    BY <2>1, <1>5 DEF low
  <2>4. Counted(Bits(n), k) = <<low, ((q % Word) + (1 + p)) % Word>>
    BY <2>1, <2>2, <1>6
  <2> QED BY <2>2, <2>4, <1>4
<1> QED BY <1>2, <1>7, <1>8

LEMMA UsedIs ==
  ASSUME NEW s, NEW n \in Nat, s.count = Bits(n)
  PROVE  Used(s) = n % Block
<1> USE Sha1Assumption
<1> DEFINE q == n \div WordBytes
           r == n % WordBytes
           c == WordBytes \div Block
           d == r \div Block
           e == r % Block
<1>1. Block \in Nat \ {0} /\ WordBytes \in Nat \ {0}
  OBVIOUS
<1>2. q \in Nat /\ r \in 0..(WordBytes - 1) /\ n = q * WordBytes + r
  BY <1>1
<1>3. c \in Int /\ WordBytes = c * Block
  BY <1>1
<1> HIDE DEF q, r, c
<1>4. d \in Int /\ e \in 0..(Block - 1) /\ r = d * Block + e
  BY <1>1, <1>2
<1> HIDE DEF d, e
<1>5. n = (q * c + d) * Block + e
  <2>1. q * WordBytes = (q * c) * Block
    BY <1>1, <1>2, <1>3
  <2> QED BY <2>1, <1>1, <1>2, <1>3, <1>4
<1>6. n % Block = e
  <2>1. q * c + d \in Int
    BY <1>2, <1>3, <1>4
  <2> QED BY <2>1, <1>1, <1>4, <1>5, QuotientOf
<1>7. s.count[1] = 8 * r
  BY <1>2, BitsOf, SMTT(30)
<1>8. (8 * r) \div 8 = r
  BY <1>2
<1> QED BY <1>6, <1>7, <1>8 DEF Used, e
-------------------------------------------------------------------------------
LEMMA CopiedIs ==
  ASSUME NEW buffer \in [1..Block -> Int], NEW j \in Nat, NEW t \in Seq(Int)
  PROVE  /\ Copied(buffer, j, t) \in [1..Block -> Int]
         /\ \A k \in 1..Block : Copied(buffer, j, t)[k] =
                                IF j < k /\ k <= j + Len(t) THEN t[k - j] ELSE buffer[k]
<1> USE Sha1Assumption
<1>1. ASSUME NEW k \in 1..Block
      PROVE  /\ k - j \in 1..Len(t) <=> j < k /\ k <= j + Len(t)
             /\ k - j \in 1..Len(t) => t[k - j] \in Int
             /\ buffer[k] \in Int
  <2>1. Len(t) \in Nat
    OBVIOUS
  <2> QED BY <2>1, ElementOfSeq
<1>2. \A k \in 1..Block : Copied(buffer, j, t)[k] = IF k - j \in 1..Len(t) THEN t[k - j] ELSE buffer[k]
  BY DEF Copied
<1>3. Copied(buffer, j, t) \in [1..Block -> Int]
  BY <1>1 DEF Copied
<1> QED BY <1>1, <1>2, <1>3

(* The part of a message behind what came before.                            *)
LEMMA PartBehind ==
  ASSUME NEW m \in Seq(Int), NEW t \in Seq(Int), NEW i \in Nat, NEW n \in Nat, i + n <= Len(t)
  PROVE  SubSeq(t, i + 1, i + n) = SubSeq(m \o t, Len(m) + i + 1, Len(m) + i + n)
<1> DEFINE u == SubSeq(t, i + 1, i + n)
           a == Len(m) + i + 1
           b == Len(m) + i + n
           x == m \o t
           v == SubSeq(x, a, b)
<1>1. Len(m) \in Nat /\ Len(t) \in Nat
  OBVIOUS
<1>2. /\ m \o t \in Seq(Int) /\ Len(m \o t) = Len(m) + Len(t)
      /\ \A k \in 1..(Len(m) + Len(t)) : (m \o t)[k] = IF k <= Len(m) THEN m[k] ELSE t[k - Len(m)]
  BY ConcatProperties
<1>3. u \in Seq(Int) /\ Len(u) = n /\ \A k \in 1..n : u[k] = t[i + k]
  <2>1. \A k \in (i + 1)..(i + n) : t[k] \in Int
    BY <1>1, ElementOfSeq
  <2>2. /\ u \in Seq(Int) /\ Len(u) = (IF i + 1 <= i + n THEN (i + n) - (i + 1) + 1 ELSE 0)
        /\ \A k \in 1..((i + n) - (i + 1) + 1) : u[k] = t[(i + 1) + k - 1]
    BY <2>1, SubSeqProperties
  <2> HIDE DEF u
  <2> QED BY <2>2
<1>4. v \in Seq(Int) /\ Len(v) = n /\ \A k \in 1..n : v[k] = t[i + k]
  <2>1. \A k \in a..b : x[k] \in Int
    BY <1>1, <1>2, ElementOfSeq
  <2>2. a \in Int /\ b \in Int
    BY <1>1
  <2>3. /\ v \in Seq(Int) /\ Len(v) = (IF a <= b THEN b - a + 1 ELSE 0)
        /\ \A k \in 1..(b - a + 1) : v[k] = x[a + k - 1]
    <3> HIDE DEF a, b, x
    <3> QED BY <2>1, <2>2, SubSeqProperties DEF v
  <2>4. \A k \in 1..n : x[a + k - 1] = t[i + k]
    <3> SUFFICES ASSUME NEW k \in 1..n PROVE x[a + k - 1] = t[i + k]
      OBVIOUS
    <3>1. a + k - 1 \in 1..(Len(m) + Len(t)) /\ ~(a + k - 1 <= Len(m)) /\ (a + k - 1) - Len(m) = i + k
      BY <1>1
    <3> QED BY <3>1, <1>2
  <2>5. b - a + 1 = n /\ (a <= b <=> n # 0)
    BY <1>1
  <2> HIDE DEF v, a, b, x
  <2> QED BY <2>3, <2>4, <2>5
<1> HIDE DEF u, v
<1>5. u = v
  BY <1>3, <1>4, SeqEqual
<1> QED BY <1>5 DEF u, v, x, a, b

(* What came before is the same part of all of it.                           *)
LEMMA PartBefore ==
  ASSUME NEW m \in Seq(Int), NEW t \in Seq(Int), NEW i \in Nat \ {0}, NEW n \in Nat, n <= Len(m)
  PROVE  SubSeq(m, i, n) = SubSeq(m \o t, i, n)
<1>1. Len(m) \in Nat
  OBVIOUS
<1>2. CASE i <= n
  <2>1. i \in 1..Len(m) /\ n \in 1..Len(m)
    BY <1>1, <1>2
  <2> QED BY <2>1, SubSeqOfConcat1
<1>3. CASE ~(i <= n)
  <2>1. n < i /\ i \in Int /\ n \in Int
    BY <1>3
  <2> QED BY <2>1, SubSeqEmpty
<1> QED BY <1>2, <1>3

(* update() takes in what it is called with.                                 *)
LEMMA UpdateHolds ==
  ASSUME NEW s, NEW m \in Seq(Int), Holds(s, m), NEW t \in Seq(Int)
  PROVE  Holds(Update(s, t), m \o t)
<1> USE Sha1Assumption
<1> DEFINE L == Len(m)
           n == Len(t)
           x == m \o t
           nb == Len(s.blocks)
           j == Used(s)
           fills == j + n > Block - 1
           whole == IF fills THEN (n - (Block - j)) \div Block ELSE 0
           i == IF fills THEN Block - j + Block * whole ELSE 0
           filled == IF fills THEN Copied(s.buffer, j, SubSeq(t, 1, Block - j)) ELSE s.buffer
           first == IF fills THEN <<filled>> ELSE <<>>
           others == [b \in 1..whole |-> SubSeq(t, Block * b - j + 1, Block * b - j + Block)]
           buffer == Copied(filled, IF fills THEN 0 ELSE j, SubSeq(t, i + 1, n))
           blocks == s.blocks \o first \o others
<1>1. Update(s, t) = [count |-> Counted(s.count, n), buffer |-> buffer, blocks |-> blocks]
  BY DEF Update
<1>2. /\ s.count = Bits(L) /\ s.buffer \in [1..Block -> Int] /\ s.blocks \in Seq(Seq(Int))
      /\ nb = L \div Block
      /\ \A b \in 1..nb : s.blocks[b] = SubSeq(m, Block * (b - 1) + 1, Block * b)
      /\ \A k \in 1..(L % Block) : s.buffer[k] = m[Block * nb + k]
  BY DEF Holds
<1>3. L \in Nat /\ n \in Nat /\ nb \in Nat /\ Block \in Nat \ {0} /\ L \in Int
  OBVIOUS
<1>4. j = L % Block
  <2> HIDE DEF L
  <2> QED BY <1>2, <1>3, UsedIs
<1>5. j \in 0..(Block - 1) /\ L = Block * nb + j
  <2> HIDE DEF L, nb, j
  <2>1. L = (L \div Block) * Block + (L % Block) /\ L % Block \in 0..(Block - 1)
    BY <1>3, QuotientIs
  <2> QED BY <2>1, <1>2, <1>3, <1>4
<1>6. /\ x \in Seq(Int) /\ Len(x) = L + n
      /\ \A k \in 1..(L + n) : x[k] = IF k <= L THEN m[k] ELSE t[k - L]
  BY ConcatProperties
<1> HIDE DEF L, n, nb, j, x
<1> DEFINE Good(c, u, bs) ==
      /\ u \in [1..Block -> Int] /\ bs \in Seq(Seq(Int)) /\ Len(bs) = c
      /\ c = (L + n) \div Block
      /\ \A b \in 1..c : bs[b] = SubSeq(x, Block * (b - 1) + 1, Block * b)
      /\ \A k \in 1..((L + n) % Block) : u[k] = x[Block * c + k]
<1>7. ASSUME NEW c, Good(c, buffer, blocks) PROVE Holds(Update(s, t), x)
  <2>1. Counted(s.count, n) = Bits(L + n)
    BY <1>2, <1>3, CountedIs
  <2> HIDE DEF buffer, blocks
  <2> QED BY <1>1, <1>6, <1>7, <2>1, SMTT(30) DEF Holds
<1>8. ASSUME NEW b \in 1..nb PROVE s.blocks[b] = SubSeq(x, Block * (b - 1) + 1, Block * b)
  <2>1. /\ Block * b <= Block * nb /\ Block * nb \in Nat
        /\ Block * (b - 1) \in Nat /\ Block * b \in Nat
    <3>1. b \in Nat /\ b \in Int /\ b <= nb /\ b - 1 \in Nat /\ nb \in Int /\ Block \in Nat
      BY <1>3
    <3>2. Block * b <= Block * nb
      BY <3>1, TimesGrows
    <3>3. \A c \in Nat : Block * c \in Nat
      BY <1>3
    <3> QED BY <3>1, <3>2, <3>3, <1>3
  <2>2. Block * (b - 1) + 1 \in Nat \ {0} /\ Block * b <= L
    <3> DEFINE v == Block * (b - 1)
               y == Block * b
               z == Block * nb
    <3> HIDE DEF v, y, z
    <3>1. v \in Nat /\ y \in Nat /\ z \in Nat /\ y <= z /\ L = z + j
      BY <2>1, <1>5 DEF v, y, z
    <3>2. v + 1 \in Nat \ {0} /\ y <= L
      BY <3>1, <1>3, <1>5
    <3> QED BY <3>2 DEF v, y
  <2>3. SubSeq(m, Block * (b - 1) + 1, Block * b) = SubSeq(m \o t, Block * (b - 1) + 1, Block * b)
    BY <2>1, <2>2, PartBefore DEF L
  <2> QED BY <2>3, <1>2 DEF x
<1>9. CASE ~fills
  <2>1. j + n \in 0..(Block - 1) /\ L + n = nb * Block + (j + n)
    <3>1. Block * nb = nb * Block
      BY <1>3
    <3> QED BY <3>1, <1>3, <1>5, <1>9
  <2>2. (L + n) \div Block = nb /\ (L + n) % Block = j + n
    <3> DEFINE z == L + n
               y == j + n
    <3>1. z \in Int /\ y \in 0..(Block - 1) /\ z = nb * Block + y /\ nb \in Int
      BY <1>3, <2>1
    <3> HIDE DEF z, y
    <3>2. z \div Block = nb /\ z % Block = y
      BY <3>1, <1>3, QuotientOf, Zenon
    <3> QED BY <3>2 DEF z, y
  <2>3. blocks = s.blocks
    <3>1. first = <<>> /\ whole = 0
      BY <1>9
    <3>2. others = <<>>
      BY <3>1
    <3>3. s.blocks \o <<>> = s.blocks
      BY <1>2, ConcatEmptySeq
    <3> HIDE DEF first, others
    <3> QED BY <3>1, <3>2, <3>3
  <2>4. buffer = Copied(s.buffer, j, t)
    <3>1. SubSeq(t, 1, n) = t
      BY SubSeqFull DEF n
    <3>2. filled = s.buffer /\ i + 1 = 1 /\ (IF fills THEN 0 ELSE j) = j
      BY <1>9
    <3> HIDE DEF filled, i, fills
    <3> QED BY <3>1, <3>2
  <2>5. /\ buffer \in [1..Block -> Int]
        /\ \A k \in 1..Block : buffer[k] = IF j < k /\ k <= j + n THEN t[k - j] ELSE s.buffer[k]
    <3> HIDE DEF buffer
    <3>1. j \in Nat
      BY <1>5
    <3> QED BY <2>4, <3>1, <1>2, CopiedIs, ZenonT(40) DEF n
  <2>6. ASSUME NEW k \in 1..(j + n) PROVE buffer[k] = x[Block * nb + k]
    <3> HIDE DEF buffer
    <3>1. k \in 1..Block /\ Block * nb + k = L - j + k /\ Block * nb + k \in 1..(L + n)
      BY <1>3, <1>5, <2>1, SMTT(30)
    <3>2. CASE k <= j
      <4>1. buffer[k] = s.buffer[k]
        BY <2>5, <3>1, <3>2, <1>3, <1>5
      <4>2. s.buffer[k] = m[Block * nb + k]
        <5>1. k \in 1..(L % Block)
          BY <1>4, <1>5, <3>1, <3>2
        <5> QED BY <5>1, <1>2, Zenon
      <4>3. Block * nb + k <= L
        BY <3>1, <3>2, <1>3, <1>5
      <4> QED BY <4>1, <4>2, <4>3, <3>1, <1>6
    <3>3. CASE k > j
      <4>1. buffer[k] = t[k - j]
        BY <2>5, <3>1, <3>3, <1>3, <1>5
      <4>2. ~(Block * nb + k <= L) /\ (Block * nb + k) - L = k - j
        BY <3>1, <3>3, <1>3, <1>5
      <4> QED BY <4>1, <4>2, <3>1, <1>6
    <3> QED BY <3>2, <3>3, <1>5, <2>1
  <2>7. Good(nb, buffer, blocks)
    <3> HIDE DEF buffer, blocks
    <3>1. Len(s.blocks) = nb
      BY DEF nb
    <3>2. blocks \in Seq(Seq(Int)) /\ Len(blocks) = nb
      BY <2>3, <3>1, <1>2
    <3>3. \A b \in 1..nb : blocks[b] = SubSeq(x, Block * (b - 1) + 1, Block * b)
      BY <2>3, <1>8, Zenon
    <3>4. \A k \in 1..((L + n) % Block) : buffer[k] = x[Block * nb + k]
      BY <2>2, <2>6, Zenon
    <3> QED BY <2>2, <2>5, <3>2, <3>3, <3>4
  <2> HIDE DEF Good, buffer, blocks
  <2> QED BY <2>7, <1>7, Zenon DEF x
<1>10. CASE fills
  <2> DEFINE r == (n - (Block - j)) % Block
             c == nb + 1 + whole
             tail == SubSeq(t, i + 1, n)
             head == SubSeq(t, 1, Block - j)
  <2>1. /\ whole \in Nat /\ r \in 0..(Block - 1) /\ i = Block - j + Block * whole
        /\ n - (Block - j) = Block * whole + r
    <3> DEFINE y == n - (Block - j)
               w == y \div Block
    <3>1. y \in Nat
      BY <1>3, <1>5, <1>10
    <3> HIDE DEF y
    <3>2. y = w * Block + (y % Block) /\ y % Block \in 0..(Block - 1) /\ w \in Int
      BY <3>1, <1>3, QuotientIs
    <3>3. w >= 0
      <4> HIDE DEF w
      <4> SUFFICES ASSUME w <= -1 PROVE FALSE
        BY <3>2
      <4>1. Block * w <= Block * (-1)
        BY <1>3, <3>2, TimesGrows
      <4>2. w * Block = Block * w
        BY <3>2, <1>3
      <4>3. Block * (-1) = -Block
        BY <1>3
      <4> DEFINE z == w * Block
                 e == y % Block
      <4>4. y = z + e /\ e \in 0..(Block - 1) /\ z <= -Block /\ z \in Int
        BY <4>1, <4>2, <4>3, <3>2, <1>3
      <4> HIDE DEF z, e
      <4> QED BY <4>4, <3>1, <1>3
    <3>4. w * Block = Block * w
      BY <3>2, <1>3
    <3>5. whole = w /\ i = Block - j + Block * w /\ r = y % Block
      BY <1>10 DEF y
    <3> HIDE DEF w, whole, i, r
    <3> QED BY <3>2, <3>3, <3>4, <3>5 DEF y
  <2>2. whole = (n - (Block - j)) \div Block /\ i = Block - j + Block * whole /\ first = <<filled>>
        /\ filled = Copied(s.buffer, j, head) /\ buffer = Copied(filled, 0, tail)
    BY <1>10
  <2> HIDE DEF r
  <2> DEFINE v == Block * whole
             d == Block * nb
  <2>3. v \in Nat /\ d \in Nat
    <3> HIDE DEF whole
    <3> QED BY <2>1, <1>3
  <2> HIDE DEF whole, i, first, filled, v, d, fills
  <2>4. i = Block - j + v /\ n = Block - j + v + r /\ L = d + j
    BY <2>1, <1>3, <1>5 DEF v, d
  <2>5. c \in Nat /\ c \in Int /\ L + n = c * Block + r /\ Block * c = d + Block + v /\ L + i = Block * c
    <3>1. c \in Nat
      BY <2>1, <1>3
    <3>2. c * Block = d + Block + v /\ Block * c = d + Block + v
      BY <2>1, <1>3 DEF v, d
    <3> HIDE DEF c
    <3> QED BY <3>1, <3>2, <2>1, <2>3, <2>4, <1>3, <1>5
  <2>6. (L + n) \div Block = c /\ (L + n) % Block = r
    <3> DEFINE z == L + n
    <3>1. z \in Int /\ z = c * Block + r
      BY <1>3, <2>5
    <3> HIDE DEF z, c
    <3>2. z \div Block = c /\ z % Block = r
      BY <3>1, <2>1, <2>5, <1>3, QuotientOf, Zenon
    <3> QED BY <3>2 DEF z
  <2>7. head \in Seq(Int) /\ Len(head) = Block - j /\ \A k \in 1..(Block - j) : head[k] = t[k]
    <3>1. \A k \in 1..(Block - j) : t[k] \in Int
      BY <1>3, <1>5, <2>1, <2>3, <2>4, ElementOfSeq DEF n
    <3>2. Block - j \in Int /\ 1 <= Block - j
      BY <1>3, <1>5
    <3>3. /\ head \in Seq(Int) /\ Len(head) = (IF 1 <= Block - j THEN (Block - j) - 1 + 1 ELSE 0)
          /\ \A k \in 1..((Block - j) - 1 + 1) : head[k] = t[1 + k - 1]
      BY <3>1, <3>2, SubSeqProperties
    <3> HIDE DEF head
    <3> QED BY <3>2, <3>3
  <2>8. tail \in Seq(Int) /\ Len(tail) = r /\ \A k \in 1..r : tail[k] = t[i + k]
    <3>1. i \in Nat /\ n = i + r
      BY <2>1, <2>3, <2>4, <1>3, <1>5
    <3>2. \A k \in (i + 1)..n : t[k] \in Int
      BY <3>1, <1>3, ElementOfSeq DEF n
    <3>3. i + 1 \in Int /\ n \in Int
      BY <3>1, <1>3
    <3>4. /\ tail \in Seq(Int) /\ Len(tail) = (IF i + 1 <= n THEN n - (i + 1) + 1 ELSE 0)
          /\ \A k \in 1..(n - (i + 1) + 1) : tail[k] = t[(i + 1) + k - 1]
      BY <3>2, <3>3, SubSeqProperties
    <3>5. n - (i + 1) + 1 = r /\ (i + 1 <= n <=> r # 0)
      BY <3>1, <2>1, <1>3, SMTT(30)
    <3>6. \A k \in 1..r : (i + 1) + k - 1 = i + k
      BY <3>1, <2>1
    <3> HIDE DEF tail
    <3> QED BY <3>4, <3>5, <3>6, <2>1, ZenonT(60)
  <2> HIDE DEF head, tail
  <2>9. filled \in [1..Block -> Int] /\ \A k \in 1..Block : filled[k] = x[d + k]
    <3>1. /\ filled \in [1..Block -> Int]
          /\ \A k \in 1..Block : filled[k] = IF j < k /\ k <= j + Len(head) THEN head[k - j] ELSE s.buffer[k]
      <4>1. j \in Nat
        BY <1>5
      <4> QED BY <4>1, <2>2, <2>7, <1>2, CopiedIs, ZenonT(60)
    <3>2. ASSUME NEW k \in 1..Block PROVE filled[k] = x[d + k]
      <4>1. d + k \in 1..(L + n)
        BY <2>1, <2>3, <2>4, <1>3, <1>5
      <4>2. CASE k <= j
        <5>1. k \in 1..(L % Block) /\ d + k <= L
          BY <1>4, <1>5, <2>3, <2>4, <4>2, SMTT(30)
        <5>2. s.buffer[k] = m[d + k]
          BY <5>1, <1>2, Zenon DEF d
        <5>3. filled[k] = s.buffer[k]
          BY <3>1, <4>2, <1>5
        <5> QED BY <5>1, <5>2, <5>3, <4>1, <1>6
      <4>3. CASE k > j
        <5>1. ~(d + k <= L) /\ (d + k) - L = k - j /\ k - j \in 1..(Block - j) /\ k <= j + (Block - j)
          BY <1>3, <1>5, <2>3, <2>4, <4>3
        <5>2. filled[k] = head[k - j]
          BY <3>1, <4>3, <5>1, <2>7
        <5>3. head[k - j] = t[k - j]
          BY <5>1, <2>7
        <5> QED BY <5>1, <5>2, <5>3, <4>1, <1>6
      <4> QED BY <4>2, <4>3, <1>5
    <3> QED BY <3>1, <3>2
  <2>10. buffer \in [1..Block -> Int] /\ \A k \in 1..r : buffer[k] = x[Block * c + k]
    <3>1. /\ buffer \in [1..Block -> Int]
          /\ \A k \in 1..Block : buffer[k] = IF 0 < k /\ k <= 0 + Len(tail) THEN tail[k - 0] ELSE filled[k]
      <4> DEFINE o == 0
      <4>1. o \in Nat /\ buffer = Copied(filled, o, tail)
        BY <2>2
      <4> HIDE DEF buffer, o
      <4>2. /\ buffer \in [1..Block -> Int]
            /\ \A k \in 1..Block : buffer[k] = IF o < k /\ k <= o + Len(tail) THEN tail[k - o] ELSE filled[k]
        BY <4>1, <2>8, <2>9, CopiedIs, ZenonT(40)
      <4> QED BY <4>2 DEF o
    <3> HIDE DEF buffer, c
    <3>2. ASSUME NEW k \in 1..r PROVE buffer[k] = x[Block * c + k]
      <4>1. k \in 1..Block /\ 0 < k /\ k <= 0 + r /\ k - 0 = k
        BY <2>1, <1>3
      <4>2. buffer[k] = t[i + k]
        BY <4>1, <3>1, <2>8
      <4>3. /\ Block * c + k = L + (i + k) /\ Block * c + k \in 1..(L + n)
            /\ ~(Block * c + k <= L) /\ (Block * c + k) - L = i + k
        <5> DEFINE z == Block * c
        <5> HIDE DEF z
        <5>1. z = d + Block + v
          BY <2>5 DEF z
        <5>2. z + k = L + (i + k) /\ z + k \in 1..(L + n) /\ ~(z + k <= L) /\ (z + k) - L = i + k
          BY <5>1, <2>1, <2>3, <2>4, <1>3, <1>5
        <5> QED BY <5>2 DEF z
      <4> QED BY <4>2, <4>3, <1>6
    <3> QED BY <3>1, <3>2
  <2>11. /\ blocks \in Seq(Seq(Int)) /\ Len(blocks) = c
         /\ \A b \in 1..c : blocks[b] = SubSeq(x, Block * (b - 1) + 1, Block * b)
    <3>1. first \in Seq(Seq(Int)) /\ Len(first) = 1 /\ first[1] = filled
      <4>1. filled \in Seq(Int)
        BY <2>9, <1>3
      <4> QED BY <4>1, <2>2
    <3>2. ASSUME NEW b \in 1..whole
          PROVE  /\ SubSeq(t, Block * b - j + 1, Block * b - j + Block) \in Seq(Int)
                 /\ SubSeq(t, Block * b - j + 1, Block * b - j + Block)
                      = SubSeq(x, Block * (nb + 1 + b - 1) + 1, Block * (nb + 1 + b))
      <4> DEFINE p == Block * b - j
      <4>1. p \in Nat /\ p + Block <= n
        <5> DEFINE y == Block * b
        <5>1. Block * 1 <= y /\ y <= v
          BY <2>1, <1>3, TimesGrows DEF v
        <5>2. y \in Int /\ p = y - j
          BY <1>3
        <5> HIDE DEF y, p
        <5> QED BY <5>1, <5>2, <2>1, <2>3, <2>4, <1>3, <1>5
      <4>2. /\ Block * (nb + 1 + b - 1) + 1 = L + p + 1 /\ Block * (nb + 1 + b) = L + p + Block
        <5>1. Block * (nb + 1 + b - 1) = Block * nb + Block * b
              /\ Block * (nb + 1 + b) = Block * nb + Block * b + Block
          BY <1>3
        <5> QED BY <5>1, <1>3, <1>5
      <4> HIDE DEF p
      <4>3. SubSeq(t, p + 1, p + Block) = SubSeq(m \o t, Len(m) + p + 1, Len(m) + p + Block)
        BY <4>1, <1>3, PartBehind, SMTT(30) DEF n
      <4>4. SubSeq(t, p + 1, p + Block) \in Seq(Int)
        <5>1. \A k \in (p + 1)..(p + Block) : t[k] \in Int
          BY <4>1, <1>3, ElementOfSeq DEF n
        <5>2. p + 1 \in Int /\ p + Block \in Int
          BY <4>1, <1>3
        <5> QED BY <5>1, <5>2, SubSeqProperties
      <4>5. SubSeq(t, p + 1, p + Block)
              = SubSeq(x, Block * (nb + 1 + b - 1) + 1, Block * (nb + 1 + b))
        BY <4>2, <4>3, Zenon DEF x, L
      <4> QED BY <4>4, <4>5 DEF p
    <3>3. /\ others \in Seq(Seq(Int)) /\ Len(others) = whole
          /\ \A b \in 1..whole : others[b] = SubSeq(x, Block * (nb + 1 + b - 1) + 1, Block * (nb + 1 + b))
      <4> DEFINE g(b) == SubSeq(t, Block * b - j + 1, Block * b - j + Block)
                 h(b) == SubSeq(x, Block * (nb + 1 + b - 1) + 1, Block * (nb + 1 + b))
      <4>1. others = [b \in 1..whole |-> g(b)]
        OBVIOUS
      <4>2. \A b \in 1..whole : g(b) \in Seq(Int) /\ g(b) = h(b)
        BY <3>2
      <4> HIDE DEF others, g, h
      <4>3. others \in Seq(Seq(Int)) /\ Len(others) = whole /\ \A b \in 1..whole : others[b] = h(b)
        BY <4>1, <4>2, <2>1
      <4> QED BY <4>3 DEF h
    <3> HIDE DEF others
    <3> DEFINE two == s.blocks \o first
    <3>4. /\ two \in Seq(Seq(Int)) /\ Len(two) = nb + 1
          /\ \A b \in 1..(nb + 1) : two[b] = IF b <= nb THEN s.blocks[b] ELSE first[b - nb]
      <4>1. s.blocks \in Seq(Seq(Int)) /\ Len(s.blocks) = nb
        BY <1>2 DEF nb
      <4>2. /\ two \in Seq(Seq(Int)) /\ Len(two) = Len(s.blocks) + Len(first)
            /\ \A b \in 1..(Len(s.blocks) + Len(first)) :
                 two[b] = IF b <= Len(s.blocks) THEN s.blocks[b] ELSE first[b - Len(s.blocks)]
        BY <4>1, <3>1, ConcatProperties, Zenon
      <4> HIDE DEF two
      <4> QED BY <4>1, <4>2, <3>1
    <3>5. blocks = two \o others
      OBVIOUS
    <3> HIDE DEF two, blocks
    <3>6. /\ blocks \in Seq(Seq(Int)) /\ Len(blocks) = nb + 1 + whole
          /\ \A b \in 1..(nb + 1 + whole) : blocks[b] = IF b <= nb + 1 THEN two[b] ELSE others[b - (nb + 1)]
      <4>1. /\ blocks \in Seq(Seq(Int)) /\ Len(blocks) = Len(two) + Len(others)
            /\ \A b \in 1..(Len(two) + Len(others)) :
                 blocks[b] = IF b <= Len(two) THEN two[b] ELSE others[b - Len(two)]
        BY <3>3, <3>4, <3>5, ConcatProperties, ZenonT(40)
      <4> QED BY <4>1, <3>3, <3>4
    <3>7. filled = SubSeq(x, Block * (nb + 1 - 1) + 1, Block * (nb + 1))
      <4>1. Block * (nb + 1 - 1) + 1 = d + 1 /\ Block * (nb + 1) = d + Block
        BY <1>3 DEF d
      <4> DEFINE u == SubSeq(x, d + 1, d + Block)
      <4>2. \A k \in (d + 1)..(d + Block) : x[k] \in Int
        BY <1>3, <1>5, <1>6, <2>1, <2>3, <2>4, ElementOfSeq
      <4>3. d + 1 \in Int /\ d + Block \in Int
        BY <1>3, <2>3
      <4>4. /\ u \in Seq(Int) /\ Len(u) = (IF d + 1 <= d + Block THEN (d + Block) - (d + 1) + 1 ELSE 0)
            /\ \A k \in 1..((d + Block) - (d + 1) + 1) : u[k] = x[(d + 1) + k - 1]
        BY <4>2, <4>3, SubSeqProperties, SMTT(30)
      <4> HIDE DEF u
      <4>5. Len(u) = Block /\ \A k \in 1..Block : u[k] = x[d + k]
        <5>1. (d + Block) - (d + 1) + 1 = Block /\ d + 1 <= d + Block
          BY <1>3, <2>3
        <5>2. \A k \in 1..Block : (d + 1) + k - 1 = d + k
          BY <1>3, <2>3
        <5> QED BY <4>4, <5>1, <5>2
      <4>6. filled \in Seq(Int) /\ Len(filled) = Block
        BY <2>9, <1>3
      <4>7. filled = u
        <5>1. \A k \in 1..Block : filled[k] = u[k]
          BY <2>9, <4>5
        <5> QED BY <4>4, <4>5, <4>6, <5>1, SeqEqual
      <4> QED BY <4>1, <4>7, Zenon DEF u
    <3>8. ASSUME NEW b \in 1..c PROVE blocks[b] = SubSeq(x, Block * (b - 1) + 1, Block * b)
      <4>1. CASE b <= nb
        <5>1. b \in 1..nb /\ b \in 1..(nb + 1) /\ b <= nb + 1
          BY <4>1, <1>3
        <5> QED BY <5>1, <4>1, <3>4, <3>6, <1>8
      <4>2. CASE b = nb + 1
        <5>1. ~(b <= nb) /\ b - nb = 1 /\ b \in 1..(nb + 1) /\ b <= nb + 1
          BY <4>2, <1>3
        <5>2. blocks[b] = filled
          BY <5>1, <3>1, <3>4, <3>6
        <5>3. Block * (b - 1) + 1 = Block * (nb + 1 - 1) + 1 /\ Block * b = Block * (nb + 1)
          BY <4>2, <1>3
        <5> QED BY <5>2, <5>3, <3>7, Zenon
      <4>3. CASE b > nb + 1
        <5> DEFINE e == b - (nb + 1)
        <5>1. ~(b <= nb + 1) /\ e \in 1..whole /\ nb + 1 + e = b /\ nb + 1 + e - 1 = b - 1
          BY <4>3, <1>3, <2>1
        <5>2. blocks[b] = others[e]
          BY <5>1, <3>6
        <5> HIDE DEF e
        <5>3. others[e] = SubSeq(x, Block * (nb + 1 + e - 1) + 1, Block * (nb + 1 + e))
          BY <5>1, <3>3
        <5> QED BY <5>1, <5>2, <5>3
      <4> QED BY <4>1, <4>2, <4>3, <1>3, <2>1
    <3> QED BY <3>6, <3>8
  <2>12. Good(c, buffer, blocks)
    <3> HIDE DEF buffer, blocks, c
    <3>1. \A k \in 1..((L + n) % Block) : buffer[k] = x[Block * c + k]
      BY <2>6, <2>10, Zenon
    <3> QED BY <2>6, <2>10, <2>11, <3>1
  <2> HIDE DEF Good, buffer, blocks, c
  <2> QED BY <2>12, <1>7, Zenon DEF x
<1> QED BY <1>9, <1>10

(* Two parts of a text that touch are one part.                              *)
LEMMA PartsJoin ==
  ASSUME NEW m \in Seq(Int), NEW i \in 0..Len(m), NEW j \in i..Len(m)
  PROVE  SubSeq(m, 1, i) \o SubSeq(m, i + 1, j) = SubSeq(m, 1, j)
<1>1. Len(m) \in Nat /\ 1 \in 1..(Len(m) + 1) /\ i \in (1 - 1)..Len(m)
  OBVIOUS
<1> QED BY <1>1, ConcatAdjacentSubSeq

(* The blocks and the buffer of a state hold the bytes it took in.           *)
LEMMA HoldsAll ==
  ASSUME NEW s, NEW m \in Seq(Int), Holds(s, m)
  PROVE  FlattenSeq(s.blocks) \o SubSeq(s.buffer, 1, Used(s)) = m
<1> USE Sha1Assumption
<1> DEFINE L == Len(m)
           q == s.blocks
           n == Len(q)
           r == L % Block
           tail == SubSeq(s.buffer, 1, Used(s))
<1>1. /\ s.count = Bits(L) /\ s.buffer \in [1..Block -> Int] /\ q \in Seq(Seq(Int))
      /\ n = L \div Block
      /\ \A b \in 1..n : q[b] = SubSeq(m, Block * (b - 1) + 1, Block * b)
      /\ \A k \in 1..r : s.buffer[k] = m[Block * n + k]
  BY DEF Holds
<1>2. L \in Nat /\ n \in Nat /\ Block \in Nat \ {0}
  OBVIOUS
<1>3. Used(s) = r
  <2> HIDE DEF L
  <2> QED BY <1>1, <1>2, UsedIs
<1>4. r \in 0..(Block - 1) /\ L = Block * n + r
  <2> HIDE DEF L, n, r
  <2>1. L = (L \div Block) * Block + (L % Block) /\ L % Block \in 0..(Block - 1)
    BY <1>2, QuotientIs
  <2> QED BY <2>1, <1>1, <1>2 DEF r
<1> DEFINE all == Block * n
<1> HIDE DEF L, n, r, q
<1>5. all \in Nat /\ all <= L /\ L = all + r
  <2>1. all \in Nat
    BY <1>2
  <2> HIDE DEF all
  <2> QED BY <2>1, <1>4, <1>2 DEF all
<1>6. tail = SubSeq(m, all + 1, L)
  <2> DEFINE u == SubSeq(m, all + 1, L)
  <2>1. \A k \in 1..r : k \in 1..Block /\ s.buffer[k] \in Int
    <3>1. r \in 0..(Block - 1) /\ Block \in Nat
      BY <1>2, <1>4
    <3>2. \A k \in 1..r : k \in 1..Block
      BY <3>1
    <3>3. \A k \in 1..Block : s.buffer[k] \in Int
      BY <1>1
    <3> QED BY <3>2, <3>3
  <2>2. /\ tail \in Seq(Int) /\ Len(tail) = (IF 1 <= r THEN r - 1 + 1 ELSE 0)
        /\ \A k \in 1..(r - 1 + 1) : tail[k] = s.buffer[1 + k - 1]
    <3>1. 1 \in Int /\ r \in Int
      BY <1>4
    <3> QED BY <2>1, <3>1, <1>3, SubSeqProperties
  <2> HIDE DEF all
  <2>3. /\ u \in Seq(Int) /\ Len(u) = (IF all + 1 <= L THEN L - (all + 1) + 1 ELSE 0)
        /\ \A k \in 1..(L - (all + 1) + 1) : u[k] = m[(all + 1) + k - 1]
    <3>1. all + 1 \in Int /\ L \in Int
      BY <1>2, <1>5
    <3>2. \A k \in (all + 1)..L : m[k] \in Int
      BY <1>2, <1>5, ElementOfSeq DEF L
    <3> QED BY <3>1, <3>2, SubSeqProperties
  <2> HIDE DEF tail, u
  <2>4. Len(tail) = r /\ Len(u) = r
    BY <2>2, <2>3, <1>4, <1>5
  <2>5. ASSUME NEW k \in 1..r PROVE tail[k] = u[k]
    <3>1. 1 + k - 1 = k /\ r - 1 + 1 = r /\ L - (all + 1) + 1 = r /\ (all + 1) + k - 1 = all + k
      BY <1>4, <1>5
    <3>2. tail[k] = s.buffer[k] /\ u[k] = m[all + k]
      <4>1. k \in 1..(r - 1 + 1) /\ k \in 1..(L - (all + 1) + 1)
        BY <3>1
      <4>2. tail[k] = s.buffer[1 + k - 1] /\ u[k] = m[(all + 1) + k - 1]
        BY ONLY <4>1, <2>2, <2>3
      <4> QED BY <3>1, <4>2
    <3>3. s.buffer[k] = m[all + k]
      BY <1>1 DEF all
    <3> QED BY <3>2, <3>3
  <2>6. tail = u
    BY <2>2, <2>3, <2>4, <2>5, SeqEqual
  <2> QED BY <2>6 DEF u
<1> HIDE DEF tail
<1>7. FlattenSeq(q) = SubSeq(m, 1, all)
  <2>1. CASE n = 0
    <3>1. q = <<>>
      BY <2>1, <1>1, EmptySeq DEF n
    <3>2. FlattenSeq(<<>>) = <<>>
      BY DEF FlattenSeq
    <3>3. all = 0
      BY <2>1, <1>2
    <3>4. SubSeq(m, 1, 0) = <<>>
      BY SubSeqEmpty
    <3> QED BY <3>1, <3>2, <3>3, <3>4
  <2>2. CASE n # 0
    <3>1. q # <<>>
      BY <2>2 DEF n
    <3>2. PICK f \in [1..Len(q) -> Seq(Int)] : Flat(q, f) /\ FlattenSeq(q) = f[Len(q)]
      BY <3>1, <1>1, FlattenIs
    <3>3. f[1] = q[1] /\ \A i \in 2..n : f[i] = f[i - 1] \o q[i]
      BY <3>2 DEF Flat, n
    <3> DEFINE M == n - 1
               T == {k \in 0..M : f[k + 1] = SubSeq(m, 1, Block * (k + 1))}
    <3>4. M \in Nat /\ 1 \in 1..n
      BY <2>2, <1>2
    <3>5. 0 \in T
      <4>1. Block * (1 - 1) + 1 = 1 /\ Block * 1 = Block * (0 + 1) /\ 0 + 1 = 1
        BY <1>2
      <4>2. q[1] = SubSeq(m, 1, Block * (0 + 1))
        BY <4>1, <3>4, <1>1
      <4> QED BY <3>3, <3>4, <4>1, <4>2
    <3>6. ASSUME NEW k \in 1..M, k - 1 \in T PROVE k \in T
      <4> DEFINE a == Block * k
                 b == Block * (k + 1)
      <4>1. k + 1 \in 2..n /\ (k - 1) + 1 = k /\ (k + 1) - 1 = k /\ k + 1 \in 1..n
        BY <1>2
      <4>2. f[k] = SubSeq(m, 1, a)
        BY <3>6, <4>1
      <4>3. q[k + 1] = SubSeq(m, a + 1, b)
        BY <1>1, <4>1
      <4>4. a \in Nat /\ b \in Nat /\ a <= b /\ b <= all
        <5>1. k \in Int /\ k + 1 \in Int /\ n \in Int /\ k <= k + 1 /\ k + 1 <= n
          BY <4>1, <1>2
        <5>2. a <= b /\ b <= all
          BY <5>1, <1>2, TimesGrows
        <5>3. a \in Nat /\ b \in Nat
          BY <1>2
        <5> QED BY <5>2, <5>3
      <4> HIDE DEF a, b, all
      <4>5. a \in 0..L /\ b \in a..L
        BY <4>4, <1>2, <1>5
      <4>6. SubSeq(m, 1, a) \o SubSeq(m, a + 1, b) = SubSeq(m, 1, b)
        BY <4>5, PartsJoin DEF L
      <4>7. f[k + 1] = SubSeq(m, 1, b)
        BY <4>1, <4>2, <4>3, <4>6, <3>3
      <4> QED BY <4>1, <4>7 DEF b
    <3>7. n - 1 \in T
      <4> HIDE DEF T
      <4>1. \A k \in 0..M : k \in T
        BY <3>4, <3>5, <3>6, FromTheLeft
      <4>2. M \in 0..M
        BY <3>4
      <4> QED BY <4>1, <4>2
    <3>8. (n - 1) + 1 = n
      BY <1>2
    <3> QED BY <3>2, <3>7, <3>8 DEF n
  <2> QED BY <2>1, <2>2
<1>8. SubSeq(m, 1, all) \o SubSeq(m, all + 1, L) = SubSeq(m, 1, L)
  <2> HIDE DEF all
  <2>1. all \in 0..L /\ L \in all..L
    BY <1>2, <1>5
  <2> QED BY <2>1, PartsJoin DEF L
<1>9. SubSeq(m, 1, L) = m
  BY SubSeqFull DEF L
<1> QED BY <1>6, <1>7, <1>8, <1>9 DEF tail, q

LEMMA FunctionIsText ==
  ASSUME NEW S, NEW n \in Nat, NEW f \in [1..n -> S]
  PROVE  f \in Seq(S) /\ Len(f) = n
  OBVIOUS

Zeros(n) == [z \in 1..n |-> 0]
ZeroCount(m) == (Block - 9 - Len(m)) % Block

(* The message, 0x80 and n zeros.                                            *)
Ended(m, n) == m \o <<128>> \o Zeros(n)

LEMMA EndedIs ==
  ASSUME NEW m \in Seq(Int), NEW n \in Nat
  PROVE  /\ Ended(m, n) \in Seq(Int) /\ Len(Ended(m, n)) = Len(m) + 1 + n
         /\ Ended(m, n) \o <<0>> = Ended(m, n + 1)
         /\ Ended(m, 0) = m \o <<128>>
<1> DEFINE a == m \o <<128>>
           z == Zeros(n)
           y == Zeros(n + 1)
<1>0. <<128>> \in Seq(Int) /\ Len(<<128>>) = 1 /\ <<0>> \in Seq(Int) /\ Len(<<0>>) = 1 /\ Len(m) \in Nat
  OBVIOUS
<1>1. a \in Seq(Int) /\ Len(a) = Len(m) + 1
  BY <1>0, ConcatProperties
<1>2. z \in Seq(Int) /\ Len(z) = n /\ \A k \in 1..n : z[k] = 0
  BY DEF Zeros
<1>3. y \in Seq(Int) /\ Len(y) = n + 1 /\ \A k \in 1..(n + 1) : y[k] = 0
  BY DEF Zeros
<1>4. Zeros(0) = <<>>
  BY DEF Zeros
<1> HIDE DEF a, z, y
<1>5. z \o <<0>> = y
  <2> DEFINE u == z \o <<0>>
             o == <<0>>
  <2>1. o \in Seq(Int) /\ Len(o) = 1 /\ o[1] = 0
    OBVIOUS
  <2> HIDE DEF o
  <2>2. /\ z \o o \in Seq(Int) /\ Len(z \o o) = n + 1
        /\ \A k \in 1..(n + 1) : (z \o o)[k] = IF k <= n THEN z[k] ELSE o[k - n]
    <3>1. /\ z \o o \in Seq(Int) /\ Len(z \o o) = Len(z) + Len(o)
          /\ \A k \in 1..(Len(z) + Len(o)) : (z \o o)[k] = IF k <= Len(z) THEN z[k] ELSE o[k - Len(z)]
      BY <1>2, <2>1, ConcatProperties, Zenon
    <3> QED BY <3>1, <1>2, <2>1
  <2>3. \A k \in 1..(n + 1) : (z \o o)[k] = 0
    <3> SUFFICES ASSUME NEW k \in 1..(n + 1) PROVE (z \o o)[k] = 0
      OBVIOUS
    <3>1. CASE k <= n
      BY <3>1, <2>2, <1>2
    <3>2. CASE k = n + 1
      <4>1. ~(k <= n) /\ k - n = 1
        BY <3>2
      <4>2. (z \o o)[k] = o[k - n]
        BY <4>1, <2>2
      <4> QED BY <4>1, <4>2, <2>1
    <3>3. k <= n \/ k = n + 1
      OBVIOUS
    <3> QED BY <3>1, <3>2, <3>3, Zenon
  <2>4. z \o o = y
    BY <1>3, <2>2, <2>3, SeqEqual
  <2> QED BY <2>4 DEF o
<1>6. a \o z \in Seq(Int) /\ Len(a \o z) = Len(m) + 1 + n
  BY <1>1, <1>2, ConcatProperties, ZenonT(40)
<1>7. (a \o z) \o <<0>> = a \o y
  <2>1. (a \o z) \o <<0>> = a \o (z \o <<0>>)
    BY <1>0, <1>1, <1>2, ConcatAssociative, SMTT(30)
  <2> QED BY <2>1, <1>5
<1>8. a \o <<>> = a
  BY <1>1, ConcatEmptySeq
<1>9. Ended(m, n) = a \o z /\ Ended(m, n + 1) = a \o y /\ Ended(m, 0) = a \o <<>>
  BY <1>4 DEF Ended, a, z, y
<1> QED BY <1>6, <1>7, <1>8, <1>9 DEF a

(* finish() stops at the first place where eight bytes are left.             *)
LEMMA ZerosEnd ==
  ASSUME NEW m \in Seq(Int), NEW y \in 0..ZeroCount(m)
  PROVE  (Len(m) + 1 + y) % Block = Block - 8 <=> y = ZeroCount(m)
<1> USE Sha1Assumption
<1> DEFINE L == Len(m)
           x == Block - 9 - L
           c == x \div Block
           t == x % Block
           w == L + 1 + y
           a == w \div Block
           e == w % Block
<1>1. L \in Nat /\ Block \in Nat \ {0} /\ x \in Int
  OBVIOUS
<1> HIDE DEF L
<1>2. c \in Int /\ t \in 0..(Block - 1) /\ x = c * Block + t
  <2> HIDE DEF x
  <2> QED BY <1>1, QuotientIs
<1>3. ZeroCount(m) = t
  BY DEF ZeroCount, L
<1> HIDE DEF c, t
<1>4. y \in 0..t /\ w \in Int
  BY <1>1, <1>2, <1>3
<1>5. a \in Int /\ e \in 0..(Block - 1) /\ w = a * Block + e
  <2> HIDE DEF w
  <2> QED BY <1>1, <1>4, QuotientIs
<1> HIDE DEF a, e
<1> DEFINE d == a + c
           p == d * Block
<1>6. w + x = d * Block + e + t /\ d \in Int
  <2>1. d * Block = a * Block + c * Block
    BY <1>1, <1>2, <1>5
  <2> DEFINE u == a * Block
             v == c * Block
  <2>2. u \in Int /\ v \in Int
    BY <1>1, <1>2, <1>5
  <2>3. w = u + e /\ x = v + t /\ d * Block = u + v
    BY <1>2, <1>5, <2>1
  <2> HIDE DEF u, v, d, w, x
  <2>4. w + x = d * Block + e + t
    BY <2>2, <2>3, <1>2, <1>5
  <2> QED BY <2>4, <1>2, <1>5 DEF d
<1>7. w + x = Block - 8 + y
  BY <1>1, <1>4
<1>8. Block - 8 + y = p + e + t /\ p \in Int
  <2>1. p \in Int
    BY <1>1, <1>6
  <2> HIDE DEF w, x
  <2> QED BY <1>6, <1>7, <2>1
<1>9. /\ d <= -1 => p <= -Block
      /\ d >= 1 => p >= Block
      /\ d = 0 => p = 0
  <2>1. p = Block * d /\ Block \in Nat
    BY <1>1, <1>6
  <2>2. d <= -1 => Block * d <= Block * (-1)
    BY <1>1, <1>6, TimesGrows
  <2>3. d >= 1 => Block * 1 <= Block * d
    BY <1>1, <1>6, TimesGrows, SMTT(30)
  <2>4. Block * (-1) = -Block /\ Block * 1 = Block /\ Block * 0 = 0
    BY <1>1
  <2> HIDE DEF p, d
  <2> QED BY <2>1, <2>2, <2>3, <2>4, <1>8
<1> HIDE DEF p, d
<1>10. e = Block - 8 <=> y = t
  <2>1. ASSUME e = Block - 8 PROVE y = t
    <3>1. p = y - t
      BY <2>1, <1>1, <1>2, <1>4, <1>8
    <3>2. ~(d <= -1) /\ ~(d >= 1)
      BY <3>1, <1>1, <1>2, <1>4, <1>9
    <3> QED BY <3>1, <3>2, <1>2, <1>4, <1>6, <1>9
  <2>2. ASSUME y = t PROVE e = Block - 8
    <3>1. p = Block - 8 - e
      BY <2>2, <1>1, <1>2, <1>4, <1>5, <1>8
    <3>2. ~(d <= -1) /\ ~(d >= 1)
      BY <3>1, <1>1, <1>5, <1>9
    <3> QED BY <3>1, <3>2, <1>1, <1>5, <1>6, <1>9
  <2> QED BY <2>1, <2>2
<1> QED BY <1>3, <1>10 DEF e, w, L

(* A word as four bytes.                                                     *)
LEMMA WordBytesAre ==
  ASSUME NEW w \in Int
  PROVE  /\ [i \in 1..4 |-> ByteOf(w, i)] \in Seq(Int) /\ Len([i \in 1..4 |-> ByteOf(w, i)]) = 4
         /\ \A i \in 1..4 : ByteOf(w, i) \in Int /\ [k \in 1..4 |-> ByteOf(w, k)][i] = ByteOf(w, i)
<1>1. \A k \in 1..4 : ByteOf(w, k) \in Int
  BY DEF ByteOf
<1> DEFINE f == [i \in 1..4 |-> ByteOf(w, i)]
           N == 4
<1>2. N \in Nat /\ f \in [1..N -> Int]
  BY <1>1
<1> HIDE DEF f, N
<1>3. f \in Seq(Int) /\ Len(f) = N
  BY <1>2, FunctionIsText
<1> QED BY <1>1, <1>3 DEF f, N

(* The words of the length are numbers.                                      *)
LEMMA LengthWords ==
  ASSUME NEW m \in Seq(Int)
  PROVE  (8 * Len(m)) % Word \in Int /\ ((8 * Len(m)) \div Word) % Word \in Int
<1> DEFINE x == 8 * Len(m)
<1>1. x \in Int /\ Word \in Nat \ {0}
  BY Sha1Assumption DEF Word
<1> HIDE DEF x
<1>2. x % Word \in Int /\ (x \div Word) % Word \in Int
  BY <1>1
<1> QED BY <1>2 DEF x

LEMMA FinalCountIs ==
  ASSUME NEW s, NEW m \in Seq(Int), Holds(s, m)
  PROVE  /\ FinalCount(s.count) \in Seq(Int)
         /\ FinalCount(s.count) =
              [i \in 1..4 |-> ByteOf(((8 * Len(m)) \div Word) % Word, i)]
                \o [i \in 1..4 |-> ByteOf((8 * Len(m)) % Word, i)]
<1> USE Sha1Assumption
<1> DEFINE L == Len(m)
           low == (8 * L) % Word
           high == ((8 * L) \div Word) % Word
           a == [i \in 1..4 |-> ByteOf(high, i)]
           b == [i \in 1..4 |-> ByteOf(low, i)]
           t == FinalCount(s.count)
<1>1. L \in Nat /\ Word \in Nat \ {0}
  BY DEF Word
<1>2. s.count[1] = low /\ s.count[2] = high
  BY DEF Holds, Bits
<1>3. low \in Int /\ high \in Int
  BY LengthWords
<1> HIDE DEF L, low, high
<1>4. \A w \in Int : \A k \in 1..4 : ByteOf(w, k) \in Int
  BY WordBytesAre
<1>5. a \in Seq(Int) /\ Len(a) = 4 /\ \A i \in 1..4 : a[i] = ByteOf(high, i)
  BY <1>3, WordBytesAre
<1>6. b \in Seq(Int) /\ Len(b) = 4 /\ \A i \in 1..4 : b[i] = ByteOf(low, i)
  BY <1>3, WordBytesAre
<1> HIDE DEF a, b
<1>7. /\ a \o b \in Seq(Int) /\ Len(a \o b) = 8
      /\ \A i \in 1..8 : (a \o b)[i] = IF i <= 4 THEN a[i] ELSE b[i - 4]
  <2>1. /\ a \o b \in Seq(Int) /\ Len(a \o b) = Len(a) + Len(b)
        /\ \A i \in 1..(Len(a) + Len(b)) : (a \o b)[i] = IF i <= Len(a) THEN a[i] ELSE b[i - Len(a)]
    BY <1>5, <1>6, ConcatProperties, Zenon
  <2> QED BY <2>1, <1>5, <1>6, SMTT(30)
<1> DEFINE g(i) == IF i > 4 THEN ByteOf(low, i - 4) ELSE ByteOf(high, i)
<1>8. t = [i \in 1..8 |-> g(i)]
  BY <1>2 DEF FinalCount
<1>9. \A i \in 1..8 : g(i) \in Int /\ g(i) = (a \o b)[i]
  <2> SUFFICES ASSUME NEW i \in 1..8 PROVE g(i) \in Int /\ g(i) = (a \o b)[i]
    OBVIOUS
  <2>1. CASE i <= 4
    <3>1. i \in 1..4 /\ ~(i > 4)
      BY <2>1
    <3>2. g(i) = ByteOf(high, i)
      BY <3>1
    <3> HIDE DEF g
    <3>3. (a \o b)[i] = ByteOf(high, i)
      BY <3>1, <2>1, <1>5, <1>7
    <3>4. ByteOf(high, i) \in Int
      BY <3>1, <1>3, <1>4
    <3> QED BY <3>2, <3>3, <3>4
  <2>2. CASE i > 4
    <3>1. i - 4 \in 1..4 /\ ~(i <= 4)
      BY <2>2
    <3>2. g(i) = ByteOf(low, i - 4)
      BY <2>2
    <3> HIDE DEF g
    <3>3. (a \o b)[i] = ByteOf(low, i - 4)
      <4>1. (a \o b)[i] = b[i - 4]
        BY <3>1, <1>7
      <4> QED BY <4>1, <3>1, <1>6
    <3>4. ByteOf(low, i - 4) \in Int
      BY <3>1, <1>3, <1>4
    <3> QED BY <3>2, <3>3, <3>4
  <2>3. i <= 4 \/ i > 4
    OBVIOUS
  <2> QED BY <2>1, <2>2, <2>3, Zenon
<1> HIDE DEF g, t
<1>10. t \in Seq(Int) /\ Len(t) = 8 /\ \A i \in 1..8 : t[i] = g(i)
  <2>1. t \in [1..8 -> Int] /\ \A i \in 1..8 : t[i] = g(i)
    BY <1>8, <1>9
  <2> DEFINE N == 8
  <2>2. N \in Nat /\ t \in [1..N -> Int]
    BY <2>1
  <2> HIDE DEF N
  <2>3. t \in Seq(Int) /\ Len(t) = N
    BY <2>2, FunctionIsText
  <2> QED BY <2>1, <2>3 DEF N
<1>11. t = a \o b
  <2>1. Len(t) = Len(a \o b) /\ \A i \in 1..Len(t) : t[i] = (a \o b)[i]
    BY <1>7, <1>9, <1>10
  <2> QED BY <2>1, <1>7, <1>10, SeqEqual, Zenon
<1> QED BY <1>10, <1>11 DEF t, a, b, low, high, L

(* A state that took in something.                                           *)
Fed == {t \in [count : {<<a, b>> : a \in Int, b \in Int},
               buffer : [1..Block -> Int], blocks : Seq(Seq(Int))] :
          \E m \in Seq(Int) : Holds(t, m)}

LEMMA IsFed ==
  ASSUME NEW s, NEW m \in Seq(Int), Holds(s, m)
  PROVE  s \in Fed
<1> DEFINE low == (8 * Len(m)) % Word
           high == ((8 * Len(m)) \div Word) % Word
<1>2. low \in Int /\ high \in Int
  BY LengthWords
<1> HIDE DEF low, high
<1>3. s.count = <<low, high>>
  BY DEF Holds, Bits, low, high
<1>4. s.count \in {<<a, b>> : a \in Int, b \in Int}
  BY <1>2, <1>3
<1>5. s = [count |-> s.count, buffer |-> s.buffer, blocks |-> s.blocks]
      /\ s.buffer \in [1..Block -> Int] /\ s.blocks \in Seq(Seq(Int))
  BY DEF Holds
<1> DEFINE A == {<<a, b>> : a \in Int, b \in Int}
<1> HIDE DEF A
<1>6. s \in [count : A, buffer : [1..Block -> Int], blocks : Seq(Seq(Int))]
  BY <1>4, <1>5 DEF A
<1> QED BY <1>6 DEF Fed, A

LEMMA PaddedIs ==
  ASSUME NEW m \in Seq(Int)
  PROVE  /\ ZeroCount(m) \in 0..(Block - 1) /\ Padded(m) \in Seq(Int)
         /\ Ended(m, ZeroCount(m)) \in Seq(Int)
         /\ \A s : Holds(s, m) => Padded(m) = Ended(m, ZeroCount(m)) \o FinalCount(s.count)
<1> DEFINE zt == ZeroCount(m)
           e == Ended(m, zt)
           high == [i \in 1..4 |-> ByteOf(((8 * Len(m)) \div Word) % Word, i)]
           low == [i \in 1..4 |-> ByteOf((8 * Len(m)) % Word, i)]
<1>1. Block \in Nat /\ Block \in 9..WordBytes /\ Len(m) \in Nat
  BY Sha1Assumption
<1>2. zt \in 0..(Block - 1)
  <2> DEFINE x == Block - 9 - Len(m)
  <2>1. x \in Int
    BY <1>1
  <2> HIDE DEF x
  <2>2. x % Block \in 0..(Block - 1)
    BY <2>1, <1>1
  <2> QED BY <2>2 DEF x, ZeroCount
<1> HIDE DEF zt
<1>3. e \in Seq(Int)
  <2>1. zt \in Nat
    BY <1>1, <1>2
  <2> QED BY <2>1, EndedIs
<1>4. high \in Seq(Int) /\ low \in Seq(Int)
  BY LengthWords, WordBytesAre
<1>5. Padded(m) = (e \o high) \o low
  BY DEF Padded, Ended, Zeros, ZeroCount, zt
<1>6. ASSUME NEW s, Holds(s, m) PROVE FinalCount(s.count) = high \o low
  BY <1>6, FinalCountIs
<1> HIDE DEF e, high, low
<1>7. (e \o high) \o low = e \o (high \o low)
  <2>1. \A x, y, z \in Seq(Int) : (x \o y) \o z = x \o (y \o z)
    BY ConcatAssociative, SMTT(30)
  <2> QED BY <2>1, <1>3, <1>4
<1>8. (e \o high) \o low \in Seq(Int)
  BY <1>3, <1>4, ConcatProperties
<1> QED BY <1>2, <1>3, <1>5, <1>6, <1>7, <1>8 DEF e, zt

(* finish() pads what was fed.                                               *)
LEMMA FinishedHolds ==
  ASSUME NEW s, NEW m \in Seq(Int), Holds(s, m)
  PROVE  Holds(Finished(s), Padded(m))
<1> DEFINE Zero(t) == IF Used(t) = Block - 8 THEN t ELSE Update(t, <<0>>)
           base == Update(s, <<128>>)
           body(f) == [z \in 0..Block |-> IF z = 0 THEN base ELSE Zero(f[z - 1])]
           f == CHOOSE f : f = body(f)
           zt == ZeroCount(m)
<1>0. <<128>> \in Seq(Int) /\ <<0>> \in Seq(Int)
  OBVIOUS
<1>1. Finished(s) = Update(f[Block], FinalCount(s.count))
  BY Zenon DEF Finished
<1>2. Block \in Nat /\ Block \in 9..WordBytes /\ Len(m) \in Nat
  BY Sha1Assumption
<1>3. zt \in 0..(Block - 1)
  BY PaddedIs
<1>4. Holds(base, Ended(m, 0))
  <2>1. Holds(base, m \o <<128>>)
    BY <1>0, UpdateHolds
  <2>2. Ended(m, 0) = m \o <<128>>
    <3>1. 0 \in Nat
      OBVIOUS
    <3> QED BY <3>1, EndedIs
  <2> QED BY <2>1, <2>2, Zenon
<1> HIDE DEF zt, base
<1>5. ASSUME NEW t, NEW x \in Seq(Int), Holds(t, x) PROVE Holds(Update(t, <<0>>), x \o <<0>>)
  BY <1>0, <1>5, UpdateHolds
<1>6. \E g : g = body(g)
  <2> DEFINE step == [z \in 1..Block |-> [t \in Fed |-> Zero(t)]]
  <2>1. base \in Fed
    <3>1. Ended(m, 0) \in Seq(Int)
      <4>1. 0 \in Nat
        OBVIOUS
      <4> QED BY <4>1, EndedIs
    <3> QED BY <3>1, <1>4, IsFed
  <2>2. ASSUME NEW t \in Fed PROVE Zero(t) \in Fed
    <3>1. CASE Used(t) = Block - 8
      BY <3>1
    <3>2. CASE Used(t) # Block - 8
      <4>1. PICK x \in Seq(Int) : Holds(t, x)
        BY DEF Fed
      <4>2. Holds(Update(t, <<0>>), x \o <<0>>) /\ x \o <<0>> \in Seq(Int)
        BY <4>1, <1>5, <1>0, ConcatProperties
      <4>3. Update(t, <<0>>) \in Fed
        BY <4>2, IsFed
      <4> QED BY <4>3, <3>2
    <3> QED BY <3>1, <3>2
  <2> HIDE DEF Zero
  <2>3. step \in [1..Block -> [Fed -> Fed]] /\ \A z \in 1..Block : \A t \in Fed : step[z][t] = Zero(t)
    BY <2>2
  <2> HIDE DEF step
  <2>4. PICK g \in [0..Block -> Fed] : Iterates(Block, base, step, g)
    BY <2>1, <2>3, <1>2, StepRecursion
  <2>5. ASSUME NEW z \in 0..Block PROVE g[z] = IF z = 0 THEN base ELSE Zero(g[z - 1])
    <3>1. CASE z = 0
      BY <3>1, <2>4 DEF Iterates
    <3>2. CASE z # 0
      <4>1. z \in 1..Block /\ z - 1 \in 0..Block
        BY <3>2, <1>2
      <4>2. g[z - 1] \in Fed
        BY <4>1
      <4>3. g[z] = step[z][g[z - 1]]
        BY <4>1, <2>4 DEF Iterates
      <4> QED BY <3>2, <4>1, <4>2, <4>3, <2>3
    <3> QED BY <3>1, <3>2
  <2>6. g = body(g)
    BY <2>5
  <2> QED BY <2>6
<1>7. f = body(f)
  <2> HIDE DEF body
  <2> QED BY <1>6
<1> HIDE DEF f
<1>8. f[0] = base /\ \A z \in 1..Block : f[z] = Zero(f[z - 1])
  <2>1. \A z \in 0..Block : f[z] = IF z = 0 THEN base ELSE Zero(f[z - 1])
    <3> HIDE DEF Zero
    <3> QED BY <1>7
  <2>2. \A z \in 1..Block : z \in 0..Block /\ z # 0
    BY <1>2
  <2>3. 0 \in 0..Block
    BY <1>2
  <2> HIDE DEF Zero
  <2> QED BY <2>1, <2>2, <2>3
<1> DEFINE y(z) == IF z <= zt THEN z ELSE zt
           T == {z \in 0..Block : Holds(f[z], Ended(m, y(z)))}
<1>9. 0 \in T
  <2>1. 0 \in 0..Block /\ y(0) = 0
    BY <1>2, <1>3
  <2> QED BY <2>1, <1>4, <1>8
<1>10. ASSUME NEW z \in 1..Block, z - 1 \in T PROVE z \in T
  <2> DEFINE t == f[z - 1]
             n == y(z - 1)
             x == Ended(m, n)
  <2>1. n \in 0..zt /\ n \in Nat
    BY <1>2, <1>3
  <2>2. Holds(t, x)
    BY <1>10
  <2>3. x \in Seq(Int) /\ Len(x) = Len(m) + 1 + n /\ x \o <<0>> = Ended(m, n + 1)
    <3> HIDE DEF n
    <3> QED BY <2>1, EndedIs
  <2>4. Used(t) = (Len(m) + 1 + n) % Block
    <3> HIDE DEF t, x, n
    <3>1. Len(m) + 1 + n \in Nat /\ t.count = Bits(Len(m) + 1 + n)
      BY <1>2, <2>1, <2>2, <2>3 DEF Holds
    <3> QED BY <3>1, UsedIs
  <2>5. Used(t) = Block - 8 <=> n = zt
    <3> HIDE DEF t, n
    <3> QED BY <2>1, <2>4, ZerosEnd DEF zt
  <2>6. f[z] = Zero(t)
    BY <1>8
  <2>7. CASE n = zt
    <3>1. f[z] = t
      BY <2>5, <2>6, <2>7
    <3>2. y(z) = n
      BY <2>7, <1>2, <1>3
    <3> QED BY <3>1, <3>2, <2>2
  <2>8. CASE n # zt
    <3>1. f[z] = Update(t, <<0>>)
      BY <2>5, <2>6, <2>8
    <3>2. y(z) = n + 1
      BY <2>8, <1>2, <1>3
    <3>3. Holds(Update(t, <<0>>), x \o <<0>>)
      <4> HIDE DEF t, x
      <4> QED BY <2>2, <2>3, <1>5
    <3>4. Holds(f[z], Ended(m, y(z)))
      <4> HIDE DEF y, t, n, x
      <4> QED BY <3>1, <3>2, <3>3, <2>3, Zenon
    <3>5. z \in 0..Block
      BY <1>2
    <3> QED BY <3>4, <3>5
  <2> QED BY <2>7, <2>8
<1>11. Holds(f[Block], Ended(m, zt))
  <2>1. Block \in 0..Block /\ y(Block) = zt
    BY <1>2, <1>3
  <2> HIDE DEF T
  <2>2. \A z \in 0..Block : z \in T
    BY <1>2, <1>9, <1>10, FromTheLeft
  <2>3. Block \in T
    BY <2>1, <2>2
  <2> QED BY <2>1, <2>3 DEF T
<1> DEFINE e == Ended(m, zt)
           c == FinalCount(s.count)
<1>12. c \in Seq(Int)
  BY FinalCountIs
<1>13. e \in Seq(Int) /\ Padded(m) = e \o c
  BY PaddedIs DEF zt
<1> HIDE DEF e, c
<1>14. Holds(Update(f[Block], c), e \o c)
  BY <1>11, <1>12, <1>13, UpdateHolds DEF e
<1> QED BY <1>1, <1>13, <1>14 DEF c

-------------------------------------------------------------------------------
Sha1Inv ==
  /\ message \in Seq(Int) /\ finished \in BOOLEAN
  /\ Holds(sha, IF finished THEN Padded(message) ELSE message)

LEMMA Sha1InvInit == Sha1Init => Sha1Inv
<1> SUFFICES ASSUME Sha1Init PROVE Sha1Inv
  OBVIOUS
<1> USE Sha1Assumption DEF Sha1Init
<1>1. sha.count = <<0, 0>> /\ sha.blocks = <<>> /\ sha.buffer = [k \in 1..Block |-> 0]
      /\ message = <<>> /\ finished = FALSE
  OBVIOUS
<1>2. sha.count = Bits(0)
  <2>1. Word \in Nat \ {0}
    BY DEF Word
  <2>2. (8 * 0) % Word = 0 /\ (8 * 0) \div Word = 0 /\ 0 % Word = 0
    BY <2>1
  <2> QED BY <1>1, <2>2 DEF Bits
<1>3. 0 \div Block = 0 /\ 0 % Block = 0
  OBVIOUS
<1>4. Holds(sha, <<>>)
  <2>1. Len(<<>>) = 0 /\ Len(sha.blocks) = 0
    BY <1>1
  <2>2. sha.buffer \in [1..Block -> Int] /\ sha.blocks \in Seq(Seq(Int))
    BY <1>1
  <2>3. sha = [count |-> sha.count, buffer |-> sha.buffer, blocks |-> sha.blocks]
    OBVIOUS
  <2> DEFINE m == <<>>
  <2>4. Len(m) = 0 /\ m = <<>>
    OBVIOUS
  <2> HIDE DEF m
  <2>5. sha.count = Bits(Len(m)) /\ Len(sha.blocks) = Len(m) \div Block /\ Len(m) % Block = 0
    BY <1>2, <1>3, <2>1, <2>4
  <2>6. /\ \A b \in 1..Len(sha.blocks) : sha.blocks[b] = SubSeq(m, Block * (b - 1) + 1, Block * b)
        /\ \A k \in 1..(Len(m) % Block) : sha.buffer[k] = m[Block * Len(sha.blocks) + k]
    BY <2>1, <2>5
  <2>7. Holds(sha, m)
    BY <2>2, <2>3, <2>5, <2>6, Zenon DEF Holds
  <2> QED BY <2>7 DEF m
<1> DEFINE m == <<>>
<1>5. message = m /\ Holds(sha, m) /\ m \in Seq(Int)
  BY <1>1, <1>4
<1> HIDE DEF m
<1> QED BY <1>1, <1>5 DEF Sha1Inv

LEMMA Sha1InvNext == Sha1Inv /\ [Sha1Next]_sha1Vars => Sha1Inv'
<1> SUFFICES ASSUME Sha1Inv, [Sha1Next]_sha1Vars PROVE Sha1Inv'
  OBVIOUS
<1> USE DEF Sha1Inv
<1>1. CASE Finish
  <2>1. Holds(sha, message) /\ sha' = Finished(sha) /\ finished' = TRUE /\ message' = message
    BY <1>1 DEF Finish
  <2>2. Holds(Finished(sha), Padded(message))
    BY <2>1, FinishedHolds
  <2> QED BY <2>1, <2>2
<1>2. ASSUME NEW n \in PieceSizes, Piece(n) PROVE Sha1Inv'
  <2> DEFINE bytes == [i \in 1..n |-> 1000 + Len(message) + i]
  <2>1. Holds(sha, message) /\ sha' = Update(sha, bytes) /\ message' = message \o bytes
        /\ finished = FALSE /\ finished' = FALSE
    BY <1>2 DEF Piece
  <2>2. n \in Nat /\ Len(message) \in Nat
    BY Sha1Assumption
  <2>3. bytes \in [1..n -> Int]
    BY <2>2
  <2> HIDE DEF bytes
  <2>4. bytes \in Seq(Int)
    BY <2>2, <2>3, FunctionIsText
  <2>5. Holds(sha', message') /\ message' \in Seq(Int)
    BY <2>1, <2>4, UpdateHolds, ConcatProperties
  <2> QED BY <2>1, <2>5
<1>3. CASE UNCHANGED sha1Vars
  BY <1>3 DEF sha1Vars
<1> QED BY <1>1, <1>2, <1>3 DEF Sha1Next

(* However a message is cut up, and wherever the counter of its bits wraps,  *)
(* the blocks that were compressed and the rest in the buffer are what was   *)
(* fed, and after finish() they are that, padded (sha1.cpp:148-179).         *)
THEOREM MessageIsPadded == Sha1Spec => []BlocksArePaddedMessage
<1>1. Sha1Inv => BlocksArePaddedMessage
  <2> SUFFICES ASSUME Sha1Inv PROVE BlocksArePaddedMessage
    OBVIOUS
  <2> DEFINE m == IF finished THEN Padded(message) ELSE message
  <2>1. message \in Seq(Int) /\ Holds(sha, m)
    BY DEF Sha1Inv
  <2>2. m \in Seq(Int)
    BY <2>1, PaddedIs
  <2> HIDE DEF m
  <2>3. FlattenSeq(sha.blocks) \o SubSeq(sha.buffer, 1, Used(sha)) = m
    BY <2>1, <2>2, HoldsAll
  <2> QED BY <2>3 DEF m, BlocksArePaddedMessage
<1> QED BY <1>1, Sha1InvInit, Sha1InvNext, PTL DEF Sha1Spec
===============================================================================
