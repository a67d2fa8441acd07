------------------------------- MODULE Cookie -------------------------------
(***************************************************************************)
(* cookie (cookie.h): writing a cookie as the line libcurl takes and reading*)
(* it again.  Characters are numbers: a tab, a space, letters, a dot, one   *)
(* number each for TRUE, FALSE and "#HttpOnly_", and one for every number of*)
(* seconds that is written in digits.  Times are in half seconds, so that   *)
(* some are no whole second.                                                *)
(***************************************************************************)
EXTENDS Integers, SequencesExt

TabChar == 0
SpaceChar == 1
DotChar == 6
HttpOnlyWord == 7
TRUEWord == 8
FALSEWord == 9
Numeral == 100

Blanks == {TabChar, SpaceChar}

trim(s) ==
  LET first == SelectInSeq(s, LAMBDA c : c \notin Blanks)
      last == SelectLastInSeq(s, LAMBDA c : c \notin Blanks)
  IN  IF first = 0 THEN <<>> ELSE SubSeq(s, first, last)

(* from_time_t and to_time_t.                                               *)
ToTime(ticks) == ticks \div 2
FromTime(seconds) == 2 * seconds

(* Digits, with a minus sign before 1970, which stoull reads as well.       *)
Written(seconds) == IF seconds < 0 THEN seconds ELSE Numeral + seconds
stoull(numeral) == IF numeral < 0 THEN numeral ELSE numeral - Numeral

CookieLine(c) ==
  c.domain \o <<TabChar, IF c.include_subdomains THEN TRUEWord ELSE FALSEWord, TabChar>>
    \o c.path \o <<TabChar, IF c.secure THEN TRUEWord ELSE FALSEWord, TabChar>>
    \o <<Written(ToTime(c.expires)), TabChar>> \o c.name \o <<TabChar>> \o c.value

(* The part before the first tab, and what is behind it.                    *)
pull_part(str) ==
  LET tab == SelectInSeq(str, LAMBDA c : c = TabChar) IN
  [part |-> trim(SubSeq(str, 1, tab - 1)), rest |-> SubSeq(str, tab + 1, Len(str))]

CookieOf(line) ==
  LET domain == pull_part(line)
      subdomains == pull_part(domain.rest)
      path == pull_part(subdomains.rest)
      secure == pull_part(path.rest)
      expires == pull_part(secure.rest)
      name == pull_part(expires.rest)
  IN  [domain |-> domain.part, include_subdomains |-> subdomains.part = <<TRUEWord>>,
       path |-> path.part, secure |-> secure.part = <<TRUEWord>>,
       expires |-> FromTime(stoull(expires.part[1])), name |-> name.part, value |-> trim(name.rest)]

(* What the constructors and setters can make.                              *)
CookieValues ==
  [domain : Seq(Nat), include_subdomains : BOOLEAN, path : Seq(Nat), secure : BOOLEAN,
   expires : Int, name : Seq(Nat), value : Seq(Nat)]

(* Cookies that a line can stand for.                                       *)
Writable(c) ==
  /\ c.expires % 2 = 0
  /\ \A s \in {c.domain, c.path, c.name, c.value} : trim(s) = s
  /\ \A s \in {c.domain, c.path, c.name} : \A i \in 1..Len(s) : s[i] # TabChar

===============================================================================
