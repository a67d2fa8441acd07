-------------------------------- MODULE Utf8 --------------------------------
(***************************************************************************)
(* utf8_validator::validate (util.h), mode by mode.                         *)
(***************************************************************************)
EXTENDS Integers, FiniteSets, Sequences

Modes == {"none", "normal", "strict", "pedantic", "extreme"}

(* countl_one.                                                              *)
Ones(c) == Cardinality({n \in 1..8 : c >= 256 - 2^(8 - n)})

IsTail(c) == Ones(c) = 1

(* The code point that the first k bytes of a sequence stand for so far.    *)
CodePoint(s, i, k) ==
  LET f[t \in 0..(k - 1)] == IF t = 0 THEN s[i] % 2^(7 - Ones(s[i]))
                             ELSE 64 * f[t - 1] + (s[i + t] % 64)
  IN  f[k - 1]

(* More bytes than the code point needs; only checked below mode normal.    *)
Overlong(p, n) == \/ n # 0 /\ p < 128
                  \/ n > 2 /\ p < 2048
                  \/ n > 3 /\ p < 65536

Disallowed(m, p) ==
  \/ m \in {"pedantic", "extreme"} /\ \/ p \in 55296..57343
                                      \/ p % 65536 = 65279
                                      \/ p \in 64976..65007
                                      \/ p > 1114111
  \/ m = "extreme" /\ p % 65536 \in {65534, 65535}

(* The verdict on the sequence that starts at s[i].                         *)
Verdict(m, s, i) ==
  LET n == Ones(s[i])
      k == IF n < Len(s) - i + 1 THEN n ELSE Len(s) - i + 1 IN
  IF n = 0 THEN "valid"
  ELSE IF n \in {1, 7, 8} \/ (n \in {5, 6} /\ m # "normal") THEN "invalid"
  ELSE IF \E t \in 1..(k - 1) : ~IsTail(s[i + t]) THEN "invalid"
  ELSE IF k < n
    THEN IF m \in {"pedantic", "extreme"} /\ CodePoint(s, i, k) * 64^(n - k) > 1114111
           THEN "invalid" ELSE "valid_incomplete"
  ELSE IF m # "normal" /\ (Overlong(CodePoint(s, i, n), n) \/ Disallowed(m, CodePoint(s, i, n)))
    THEN "invalid" ELSE "valid"

(* The result for s, and how many bytes there are before the first sequence *)
(* that is not valid.                                                       *)
Validate(m, s) ==
  LET f[i \in 1..(Len(s) + 1)] ==
        IF i > Len(s) \/ m = "none" THEN [result |-> "valid", last_pos |-> Len(s)]
        ELSE IF Verdict(m, s, i) # "valid" THEN [result |-> Verdict(m, s, i), last_pos |-> i - 1]
        ELSE f[i + (IF Ones(s[i]) = 0 THEN 1 ELSE Ones(s[i]))]
  IN  f[1]

===============================================================================
