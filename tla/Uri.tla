--------------------------------- MODULE Uri ---------------------------------
(***************************************************************************)
(* uri (uri.cpp, uri.h): a text and what parse, to_string and the functions *)
(* on paths and form data make of it.  A text is a sequence of characters;  *)
(* the digits are nines, so that ports are soon out of range.               *)
(***************************************************************************)
EXTENDS Integers, SequencesExt

CONSTANTS
  UriStarts,    (* what a text begins with                                  *)
  UriPieces,    (* the characters, or runs of them, that are added to it    *)
  UriMaxLen     (* bound: a text this long gets no further piece            *)

Digit == "9"

(* The characters that parse looks for, and one that it does not.           *)
UriChars == {":", "/", "?", "#", "@", "[", "]", "&", "=", Digit}

ASSUME UriAssumption ==
  UriMaxLen \in Nat /\ UriStarts \cup UriPieces \subseteq Seq(UriChars)

VARIABLE uri_text

(* find_first_of and rfind: the place in s, or 0.                           *)
FirstOf(s, chars) == SelectInSeq(s, LAMBDA c : c \in chars)
LastOf(s, chars) == SelectLastInSeq(s, LAMBDA c : c \in chars)

Before(s, i) == IF i = 0 THEN s ELSE SubSeq(s, 1, i - 1)
Behind(s, i) == SubSeq(s, i + 1, Len(s))

(* What so many nines are worth as a port: port() clamps.                   *)
Nines == <<9, 99, 999, 9999, 65535>>

(* std::stoi reads the digits s starts with, and throws if there are none or*)
(* too many for an int.                                                     *)
DigitCount(s) == CHOOSE n \in 0..Len(s) : /\ \A i \in 1..n : s[i] = Digit
                                          /\ n < Len(s) => s[n + 1] # Digit
PortThrows(s) == DigitCount(s) \notin 1..9
Port(s) == LET n == DigitCount(s) IN Nines[IF n > 5 THEN 5 ELSE n]

(* 65535 is written with five digits, which read as 65535 again.            *)
DigitsOf(port) == [i \in 1..(CHOOSE n \in 1..5 : Nines[n] = port) |-> Digit]

(* Mutant of AuthorityEnd: only a path ends the authority.                  *)
FirstSlash(s) == FirstOf(s, {"/"})

(* Where the text behind "//" stops being user info, host and port.         *)
AuthorityEnd(s) == FirstOf(s, {"/", "?", "#"})

(* Where the colon before the port is in a host: behind the bracket of an   *)
(* IPv6 address, or the last one.                                           *)
PortColon(h) ==
  LET closing == FirstOf(h, {"]"}) IN
  IF h = <<>> \/ h[1] # "[" THEN LastOf(h, {":"})
  ELSE IF closing < Len(h) /\ h[closing + 1] = ":" THEN closing + 1 ELSE 0

(* The part of the text between "//" and the path: user info, host and port.*)
(* `fails` is "" or how parsing ends.                                       *)
Authority(a) ==
  LET at == FirstOf(a, {"@"})
      h == Behind(a, at)
      bracket == h # <<>> /\ h[1] = "["
      closing == FirstOf(h, {"]"})
      colon == PortColon(h)
      port == Behind(h, colon)
  IN  [auth |-> IF at = 0 THEN <<>> ELSE Before(a, at),
       host |-> IF bracket THEN SubSeq(h, 1, closing) ELSE Before(h, colon),
       port |-> IF colon = 0 \/ PortThrows(port) THEN -1 ELSE Port(port),
       fails |-> IF bracket /\ closing = 0 THEN "invalid"
                 ELSE IF colon # 0 /\ PortThrows(port) THEN "throws" ELSE ""]

NoAuthority == [auth |-> <<>>, host |-> <<>>, port |-> -1, fails |-> ""]

(* Where the ":/" is that ends the scheme, or 0.                            *)
SchemeEnd(s) ==
  LET found == {i \in 1..(Len(s) - 1) : s[i] = ":" /\ s[i + 1] = "/"} IN
  IF found = {} THEN 0 ELSE Min(found)

(* parse_into.                                                              *)
Parse(s) ==
  LET c == SchemeEnd(s)
      r == Behind(s, c + 1)
      slashes == r # <<>> /\ r[1] = "/"
      a == IF slashes THEN Before(Behind(r, 1), AuthorityEnd(Behind(r, 1))) ELSE <<>>
      by == IF slashes THEN Authority(a) ELSE NoAuthority
      rest == IF slashes THEN Behind(r, 1 + Len(a)) ELSE r
      hash == FirstOf(rest, {"#"})
      asked == FirstOf(Before(rest, hash), {"?"})
  IN  IF c = 0 \/ r = <<>> THEN [fails |-> "invalid"]
      ELSE [fails |-> by.fails, scheme |-> Before(s, c),
            auth |-> by.auth, host |-> by.host, port |-> by.port,
            path |-> Before(Before(rest, hash), asked),
            query |-> IF asked = 0 THEN <<>> ELSE Behind(Before(rest, hash), asked),
            fragment |-> IF hash = 0 THEN <<>> ELSE Behind(rest, hash)]

(* What a part adds to the text, if it is there at all.                     *)
Part(prefix, s, suffix) == IF s = <<>> THEN <<>> ELSE prefix \o s \o suffix

to_string(u) ==
  Part(<<>>, u.scheme, <<":", "/", "/">>) \o Part(<<>>, u.auth, <<"@">>) \o u.host
    \o (IF u.port = -1 THEN <<>> ELSE <<":">> \o DigitsOf(u.port))
    \o u.path \o Part(<<"?">>, u.query, <<>>) \o Part(<<"#">>, u.fragment, <<>>)

-------------------------------------------------------------------------------
(* The pieces of s between the ds, without the empty ones: the loops of     *)
(* split_path and of parse_formdata, which keep where the next piece begins.*)
Grown(pieces, piece) == IF piece = <<>> THEN pieces ELSE Append(pieces, piece)

Split(s, d) ==
  LET f[i \in 0..Len(s)] ==
        IF i = 0 THEN [pieces |-> <<>>, offset |-> 0]
        ELSE IF s[i] # d THEN f[i - 1]
        ELSE [pieces |-> Grown(f[i - 1].pieces, SubSeq(s, f[i - 1].offset + 1, i - 1)), offset |-> i]
  IN  Grown(f[Len(s)].pieces, SubSeq(s, f[Len(s)].offset + 1, Len(s)))

split_path(s) == Split(s, "/")

merge_path(parts) ==
  LET text[i \in 0..Len(parts)] ==
        IF i = 0 THEN <<"/">> ELSE text[i - 1] \o parts[i] \o <<"/">>
  IN  text[Len(parts)]

(* libcurl's escaping: a character with a meaning becomes another one.      *)
Escapes == {<<":", "%3A">>, <<"/", "%2F">>, <<"?", "%3F">>, <<"#", "%23">>, <<"@", "%40">>,
            <<"[", "%5B">>, <<"]", "%5D">>, <<"&", "%26">>, <<"=", "%3D">>}

(* What c is turned into, from column i of Escapes to column j.             *)
Turned(c, i, j) ==
  IF \E e \in Escapes : e[i] = c THEN (CHOOSE e \in Escapes : e[i] = c)[j] ELSE c

encode(s) == [k \in 1..Len(s) |-> Turned(s[k], 1, 2)]

Unescaped(s) == [k \in 1..Len(s) |-> Turned(s[k], 2, 1)]

(* libcurl takes the length 0 for "up to the NUL": an empty text is decoded  *)
(* to all that is behind it in the data that it is a part of.               *)
decode(s, behind) == Unescaped(IF s = <<>> THEN behind ELSE s)

(* The data behind the i-th piece.                                          *)
Rest(s, d, i) ==
  Behind(s, Min({k \in 0..Len(s) :
                   k < Len(s) => s[k + 1] = d /\ Len(Split(SubSeq(s, 1, k), d)) >= i}))

(* Key and value of a part of form data with `rest` behind it; without a "=" *)
(* there is no value to decode.                                             *)
Pair(part, rest) ==
  LET e == FirstOf(part, {"="}) IN
  <<decode(Before(part, e), part \o rest), IF e = 0 THEN <<>> ELSE decode(Behind(part, e), rest)>>

(* The pairs in the order of the text, which the multimap does not keep.    *)
parse_formdata(s) ==
  LET parts == Split(s, "&") IN [i \in 1..Len(parts) |-> Pair(parts[i], Rest(s, "&", i))]

(* The orders in which the pairs of a multimap may be visited.              *)
Orders(pairs) ==
  {[i \in DOMAIN pairs |-> pairs[p[i]]] : p \in Bijection(DOMAIN pairs, DOMAIN pairs)}

build_formdata(pairs) ==
  LET form[i \in 0..Len(pairs)] ==
        IF i = 0 THEN <<>>
        ELSE Part(<<>>, form[i - 1], <<"&">>)
               \o encode(pairs[i][1]) \o <<"=">> \o encode(pairs[i][2])
  IN  form[Len(pairs)]

-------------------------------------------------------------------------------
UriInit == uri_text \in UriStarts

UriNext ==
  /\ Len(uri_text) < UriMaxLen
  /\ \E p \in UriPieces : uri_text' = uri_text \o p

UriSpec == UriInit /\ [][UriNext]_uri_text

Without(s, chars) == FirstOf(s, chars) = 0

(* Texts that to_string is no inverse for: an empty scheme takes the slashes*)
(* with it, without an authority the path is taken for a host, and so is an *)
(* "@" behind empty user info.                                              *)
Reversible(s) ==
  LET u == Parse(s) IN
  /\ u.fails = "" /\ u.scheme # <<>>
  /\ s[SchemeEnd(s) + 2] = "/"
  /\ ~(u.auth = <<>> /\ ~Without(u.host, {"@"}))

(* No part of a parsed uri holds what would have ended it, parsing what     *)
(* to_string wrote gives the same uri again, the path of a text survives    *)
(* being taken apart and put together, and so does its form data, unless it *)
(* holds an empty value, in whatever order the pairs are written            *)
(* (uri.cpp:7-117, uri.h:60-94).                                            *)
UriRoundTrip ==
  LET u == Parse(uri_text) IN
  /\ u.fails = "" => /\ Without(u.auth \o u.host, {"/", "?", "#"})
                     /\ Without(u.path, {"?", "#"}) /\ Without(u.query, {"#"})
  /\ Reversible(uri_text) => Parse(to_string(u)) = u
  /\ split_path(merge_path(split_path(uri_text))) = split_path(uri_text)
  /\ \A form \in Orders(parse_formdata(uri_text)) :
       (\A i \in DOMAIN form : form[i][2] # <<>>) => parse_formdata(build_formdata(form)) = form

===============================================================================
