-------------------------------- MODULE Sha1 --------------------------------
(***************************************************************************)
(* sha1 (sha1.cpp): cutting a message into blocks, whatever the pieces it   *)
(* comes in, and padding it.  The compression of a block is left out: a     *)
(* transform() is told by the block it is given.  Block is 64 in the code   *)
(* and WordBytes 2^29; smaller ones bring the carry within reach.           *)
(***************************************************************************)
EXTENDS Integers, SequencesExt

CONSTANTS
  Block,         (* bytes of a block                                        *)
  WordBytes,     (* bytes whose bits a word of m_count can count            *)
  PieceSizes,    (* sizes that update() is called with                      *)
  MaxPieces      (* bound: calls of update()                                *)

(* update() goes through a piece with a word: longer ones would never end   *)
(* (sha1.cpp:159).                                                          *)
ASSUME Sha1Assumption ==
  /\ MaxPieces \in Nat /\ WordBytes \in Nat /\ Block \in 9..WordBytes
  /\ WordBytes % Block = 0
  /\ \A n \in PieceSizes : n \in Nat /\ n + Block < 8 * WordBytes

VARIABLES
  sha,           (* m_count, m_buffer and the blocks transformed so far     *)
  message,       (* history: what update() was called with                  *)
  pieces,        (* calls of update()                                       *)
  finished

sha1Vars == <<sha, message, pieces, finished>>

Word == 8 * WordBytes

(* Where the next byte goes in m_buffer.                                    *)
Used(s) == (s.count[1] \div 8) % Block

(* memcpy(&m_buffer[j], bytes, size).                                       *)
Copied(buffer, j, bytes) ==
  [k \in 1..Block |-> IF k - j \in 1..Len(bytes) THEN bytes[k - j] ELSE buffer[k]]

(* Mutant of Counted: the carry into the high word is forgotten.            *)
CountedNoCarry(count, n) == <<(count[1] + 8 * n) % Word, count[2]>>

Counted(count, n) ==
  LET low == (count[1] + 8 * n) % Word IN
  <<low, (count[2] + (IF low < count[1] THEN 1 ELSE 0) + n \div WordBytes) % Word>>

(* update(): fill m_buffer, transform it and the whole blocks that follow,  *)
(* keep the rest.                                                           *)
Update(s, bytes) ==
  LET j == Used(s)
      n == Len(bytes)
      fills == j + n > Block - 1
      whole == IF fills THEN (n - (Block - j)) \div Block ELSE 0
      i == IF fills THEN Block - j + Block * whole ELSE 0
      filled == IF fills THEN Copied(s.buffer, j, SubSeq(bytes, 1, Block - j)) ELSE s.buffer
  IN  [count |-> Counted(s.count, n),
       buffer |-> Copied(filled, IF fills THEN 0 ELSE j, SubSeq(bytes, i + 1, n)),
       blocks |-> s.blocks
                    \o (IF fills THEN <<filled>> ELSE <<>>)
                    \o [b \in 1..whole |-> SubSeq(bytes, Block * b - j + 1, Block * b - j + Block)]]

(* Byte k of a word, the highest first.                                     *)
ByteOf(word, k) == (word \div <<16777216, 65536, 256, 1>>[k]) % 256

(* The length in bits, high word first, as eight bytes.                     *)
FinalCount(count) ==
  [i \in 1..8 |-> IF i > 4 THEN ByteOf(count[1], i - 4) ELSE ByteOf(count[2], i)]

(* finish(): 0x80, zeros until 8 bytes of the block are left, the length.   *)
Finished(s) ==
  LET Zero(t) == IF Used(t) = Block - 8 THEN t ELSE Update(t, <<0>>)
      f[z \in 0..Block] == IF z = 0 THEN Update(s, <<128>>) ELSE Zero(f[z - 1])
  IN  Update(f[Block], FinalCount(s.count))

-------------------------------------------------------------------------------
Sha1Init ==
  /\ sha = [count |-> <<0, 0>>, buffer |-> [k \in 1..Block |-> 0], blocks |-> <<>>]
  /\ message = <<>> /\ pieces = 0 /\ finished = FALSE

(* The bytes of a message are told apart by their place in it.              *)
Piece(n) ==
  LET bytes == [i \in 1..n |-> 1000 + Len(message) + i] IN
  /\ ~finished /\ pieces < MaxPieces
  /\ sha' = Update(sha, bytes)
  /\ message' = message \o bytes /\ pieces' = pieces + 1
  /\ UNCHANGED finished

Finish ==
  /\ ~finished
  /\ sha' = Finished(sha) /\ finished' = TRUE
  /\ UNCHANGED <<message, pieces>>

Sha1Next == Finish \/ \E n \in PieceSizes : Piece(n)

Sha1Spec == Sha1Init /\ [][Sha1Next]_sha1Vars

(* What FIPS 180 asks for: the message, 0x80, the fewest zeros that leave   *)
(* room for its length in bits, and that length.                            *)
Padded(m) ==
  LET zeros == (Block - 9 - Len(m)) % Block IN
  m \o <<128>> \o [z \in 1..zeros |-> 0]
    \o [i \in 1..4 |-> ByteOf(((8 * Len(m)) \div Word) % Word, i)]
    \o [i \in 1..4 |-> ByteOf((8 * Len(m)) % Word, i)]

(* The blocks that were compressed are those of the padded message, and     *)
(* before finish() they and the buffer hold what was fed, however it was cut*)
(* up (sha1.cpp:148-179).                                                   *)
BlocksArePaddedMessage ==
  FlattenSeq(sha.blocks) \o SubSeq(sha.buffer, 1, Used(sha)) =
    IF finished THEN Padded(message) ELSE message

===============================================================================
