------------------------------ MODULE UriProofs ------------------------------
(* Texts of any length: what parse takes apart, to_string puts together so    *)
(* that parse takes it apart in the same way, and so do the functions on     *)
(* paths and on form data.                                                   *)
EXTENDS Uri, QueueLemmas

(* Texts and their parts.                                                    *)
LEMMA PartIs ==
  ASSUME NEW S, NEW s \in Seq(S), NEW i \in Nat, NEW j \in Nat, i <= j, j <= Len(s)
  PROVE  /\ SubSeq(s, i + 1, j) \in Seq(S) /\ Len(SubSeq(s, i + 1, j)) = j - i
         /\ \A k \in 1..(j - i) : SubSeq(s, i + 1, j)[k] = s[i + k]
<1> DEFINE a == i + 1
           u == SubSeq(s, a, j)
<1>1. Len(s) \in Nat /\ a \in Int /\ j \in Int
  OBVIOUS
<1>2. \A k \in a..j : s[k] \in S
  BY <1>1, ElementOfSeq
<1>3. /\ u \in Seq(S) /\ Len(u) = (IF a <= j THEN j - a + 1 ELSE 0)
      /\ \A k \in 1..(j - a + 1) : u[k] = s[a + k - 1]
  <2> HIDE DEF a
  <2> QED BY <1>1, <1>2, SubSeqProperties
<1> HIDE DEF u
<1>4. Len(u) = j - i
  BY <1>3
<1>5. \A k \in 1..(j - i) : u[k] = s[i + k]
  <2> SUFFICES ASSUME NEW k \in 1..(j - i) PROVE u[k] = s[i + k]
    OBVIOUS
  <2>1. a + k - 1 = i + k /\ k \in 1..(j - a + 1)
    OBVIOUS
  <2> QED BY <2>1, <1>3
<1> QED BY <1>3, <1>4, <1>5 DEF u

LEMMA JoinIs ==
  ASSUME NEW S, NEW x \in Seq(S), NEW y \in Seq(S)
  PROVE  /\ x \o y \in Seq(S) /\ Len(x) \in Nat /\ Len(y) \in Nat /\ Len(x \o y) = Len(x) + Len(y)
         /\ \A k \in 1..Len(x) : (x \o y)[k] = x[k]
         /\ \A k \in 1..Len(y) : (x \o y)[Len(x) + k] = y[k]
<1>1. /\ x \o y \in Seq(S) /\ Len(x \o y) = Len(x) + Len(y)
      /\ \A k \in 1..(Len(x) + Len(y)) : (x \o y)[k] = IF k <= Len(x) THEN x[k] ELSE y[k - Len(x)]
  BY ConcatProperties
<1> DEFINE l == Len(x)
           n == Len(y)
           z == x \o y
<1>2. l \in Nat /\ n \in Nat
  OBVIOUS
<1> HIDE DEF l, n, z
<1>3. \A k \in 1..(l + n) : z[k] = IF k <= l THEN x[k] ELSE y[k - l]
  BY <1>1 DEF l, n, z
<1>4. ASSUME NEW k \in 1..l PROVE z[k] = x[k]
  <2>1. k \in 1..(l + n) /\ k <= l
    BY <1>2
  <2> QED BY <2>1, <1>3
<1>5. ASSUME NEW k \in 1..n PROVE z[l + k] = y[k]
  <2>1. l + k \in 1..(l + n) /\ ~(l + k <= l) /\ (l + k) - l = k
    BY <1>2
  <2> QED BY <2>1, <1>3
<1> QED BY <1>1, <1>2, <1>4, <1>5 DEF l, n, z

Joined(x, y, z) ==
  /\ Len(x) \in Nat /\ Len(y) \in Nat /\ Len(z) = Len(x) + Len(y)
  /\ \A k \in 1..Len(x) : z[k] = x[k]
  /\ \A k \in 1..Len(y) : z[Len(x) + k] = y[k]

LEMMA JoinedIs ==
  ASSUME NEW S, NEW x \in Seq(S), NEW y \in Seq(S)
  PROVE  x \o y \in Seq(S) /\ Joined(x, y, x \o y)
BY JoinIs DEF Joined

LEMMA BeforeIs ==
  ASSUME NEW S, NEW s \in Seq(S), NEW e \in 1..Len(s)
  PROVE  /\ Before(s, e) \in Seq(S) /\ Len(Before(s, e)) = e - 1
         /\ \A k \in 1..(e - 1) : Before(s, e)[k] = s[k]
<1> DEFINE n == e - 1
           o == 0
<1>1. n \in Nat /\ o \in Nat /\ o <= n /\ n <= Len(s) /\ o + 1 = 1 /\ n - o = e - 1 /\ e # 0 /\ Len(s) \in Nat
  OBVIOUS
<1>2. Before(s, e) = SubSeq(s, 1, n)
  BY <1>1 DEF Before
<1> HIDE DEF n, o
<1>3. /\ SubSeq(s, o + 1, n) \in Seq(S) /\ Len(SubSeq(s, o + 1, n)) = n - o
      /\ \A k \in 1..(n - o) : SubSeq(s, o + 1, n)[k] = s[o + k]
  BY <1>1, PartIs
<1>4. \A k \in 1..(e - 1) : o + k = k
  BY DEF o
<1> QED BY <1>1, <1>2, <1>3, <1>4

LEMMA BehindIs ==
  ASSUME NEW S, NEW s \in Seq(S), NEW i \in 0..Len(s)
  PROVE  /\ Behind(s, i) \in Seq(S) /\ Len(Behind(s, i)) = Len(s) - i
         /\ \A k \in 1..(Len(s) - i) : Behind(s, i)[k] = s[i + k]
<1>1. i \in Nat /\ Len(s) \in Nat /\ i <= Len(s) /\ Len(s) <= Len(s)
  OBVIOUS
<1> QED BY <1>1, PartIs DEF Behind

(* Two texts of the same length and characters are the same.                 *)
LEMMA SameText ==
  ASSUME NEW S, NEW x \in Seq(S), NEW y \in Seq(S), NEW n, Len(x) = n, Len(y) = n,
         \A k \in 1..n : x[k] = y[k]
  PROVE  x = y
BY SeqEqual

LEMMA BehindJoin ==
  ASSUME NEW S, NEW x \in Seq(S), NEW y \in Seq(S)
  PROVE  Behind(x \o y, Len(x)) = y
<1> DEFINE z == x \o y
           l == Len(x)
           u == Behind(z, l)
<1>1. /\ z \in Seq(S) /\ l \in Nat /\ Len(y) \in Nat /\ Len(z) = l + Len(y)
      /\ \A k \in 1..Len(y) : z[l + k] = y[k]
  BY JoinIs
<1> HIDE DEF z, l
<1>2. l \in 0..Len(z) /\ Len(z) - l = Len(y)
  BY <1>1
<1>3. u \in Seq(S) /\ Len(u) = Len(y) /\ \A k \in 1..Len(y) : u[k] = z[l + k]
  <2>1. u \in Seq(S) /\ Len(u) = Len(z) - l /\ \A k \in 1..(Len(z) - l) : u[k] = z[l + k]
    BY <1>1, <1>2, BehindIs
  <2> QED BY <2>1, <1>2
<1> HIDE DEF u
<1>4. u = y
  BY <1>1, <1>3, SeqEqual
<1> QED BY <1>4 DEF u, z, l

LEMMA BeforeJoin ==
  ASSUME NEW S, NEW x \in Seq(S), NEW y \in Seq(S), y # <<>>
  PROVE  Len(x) + 1 \in 1..Len(x \o y) /\ Before(x \o y, Len(x) + 1) = x
<1> DEFINE z == x \o y
           e == Len(x) + 1
           u == Before(z, e)
<1>1. /\ z \in Seq(S) /\ Len(x) \in Nat /\ Len(y) \in Nat /\ Len(z) = Len(x) + Len(y)
      /\ \A k \in 1..Len(x) : z[k] = x[k]
  BY JoinIs
<1>2. Len(y) # 0
  BY EmptySeq
<1> HIDE DEF z
<1>3. e \in 1..Len(z) /\ e - 1 = Len(x)
  BY <1>1, <1>2
<1>4. u \in Seq(S) /\ Len(u) = Len(x) /\ \A k \in 1..Len(x) : u[k] = z[k]
  <2> HIDE DEF e
  <2>1. u \in Seq(S) /\ Len(u) = e - 1 /\ \A k \in 1..(e - 1) : u[k] = z[k]
    BY <1>1, <1>3, BeforeIs
  <2> QED BY <2>1, <1>3
<1> HIDE DEF u
<1>5. u = x
  BY <1>1, <1>4, SeqEqual
<1> QED BY <1>3, <1>5 DEF u, z, e

-------------------------------------------------------------------------------
(* The place of the first or the last character of a kind.                   *)
Free(s, chars) == \A k \in 1..Len(s) : s[k] \notin chars

IsFirst(s, chars, e) ==
  \/ e = 0 /\ Free(s, chars)
  \/ e \in 1..Len(s) /\ s[e] \in chars /\ \A k \in 1..(e - 1) : s[k] \notin chars

LEMMA FirstOfIs ==
  ASSUME NEW S, NEW s \in Seq(S), NEW chars
  PROVE  IsFirst(s, chars, FirstOf(s, chars))
<1> DEFINE I == {i \in 1..Len(s) : s[i] \in chars}
<1>1. FirstOf(s, chars) = IF I # {} THEN Min(I) ELSE 0
  BY DEF FirstOf, SelectInSeq
<1>2. CASE I = {}
  BY <1>1, <1>2 DEF IsFirst, Free
<1>3. CASE I # {}
  <2>1. I \in SUBSET Nat
    OBVIOUS
  <2>2. \E x \in I : \A y \in I : x <= y
    <3> HIDE DEF I
    <3> QED BY <1>3, <2>1, LeastNumber
  <2>3. Min(I) \in I /\ \A y \in I : Min(I) <= y
    <3> HIDE DEF I
    <3> QED BY <2>2 DEF Min
  <2> DEFINE e == Min(I)
  <2> HIDE DEF e
  <2>4. e \in 1..Len(s) /\ s[e] \in chars /\ \A y \in I : e <= y
    BY <2>3 DEF e
  <2>5. \A k \in 1..(e - 1) : k \in 1..Len(s) /\ ~(e <= k)
    BY <2>4
  <2>6. \A k \in 1..(e - 1) : s[k] \notin chars
    BY <2>4, <2>5
  <2> QED BY <1>1, <1>3, <2>4, <2>6 DEF IsFirst, e
<1> QED BY <1>2, <1>3

LEMMA FirstUnique ==
  ASSUME NEW S, NEW s \in Seq(S), NEW chars, NEW e, IsFirst(s, chars, e)
  PROVE  FirstOf(s, chars) = e
<1> DEFINE g == FirstOf(s, chars)
<1>1. IsFirst(s, chars, g)
  BY FirstOfIs
<1> HIDE DEF g
<1>2. Len(s) \in Nat
  OBVIOUS
<1>3. CASE g = 0
  <2>1. Free(s, chars)
    BY <1>1, <1>3 DEF IsFirst
  <2> QED BY <2>1, <1>3 DEF g, IsFirst, Free
<1>4. CASE g # 0 /\ e = 0
  <2>1. Free(s, chars)
    BY <1>4 DEF IsFirst
  <2> QED BY <2>1, <1>1, <1>4 DEF IsFirst, Free
<1>5. CASE g # 0 /\ e # 0
  <2>1. g \in 1..Len(s) /\ s[g] \in chars /\ \A k \in 1..(g - 1) : s[k] \notin chars
    BY <1>1, <1>5 DEF IsFirst
  <2>2. e \in 1..Len(s) /\ s[e] \in chars /\ \A k \in 1..(e - 1) : s[k] \notin chars
    BY <1>5 DEF IsFirst
  <2>3. ~(g < e)
    <3>1. g < e => g \in 1..(e - 1)
      BY <2>1, <2>2
    <3> QED BY <3>1, <2>1, <2>2
  <2>4. ~(e < g)
    <3>1. e < g => e \in 1..(g - 1)
      BY <2>1, <2>2
    <3> QED BY <3>1, <2>1, <2>2
  <2>5. g = e
    BY <2>1, <2>2, <2>3, <2>4
  <2> QED BY <2>5 DEF g
<1> QED BY <1>3, <1>4, <1>5

LEMMA WithoutIs ==
  ASSUME NEW S, NEW s \in Seq(S), NEW chars
  PROVE  Without(s, chars) <=> Free(s, chars)
<1>1. IsFirst(s, chars, FirstOf(s, chars))
  BY FirstOfIs
<1>2. Free(s, chars) => FirstOf(s, chars) = 0
  <2>1. Free(s, chars) => IsFirst(s, chars, 0)
    BY DEF IsFirst
  <2> QED BY <2>1, FirstUnique
<1>3. FirstOf(s, chars) = 0 => Free(s, chars)
  BY <1>1 DEF IsFirst
<1> QED BY <1>2, <1>3 DEF Without

(* What is cut off before a character of a kind has none of them, and the    *)
(* rest begins with one.                                                     *)
LEMMA CutOff ==
  ASSUME NEW S, NEW s \in Seq(S), NEW chars, NEW e, e = FirstOf(s, chars)
  PROVE  /\ e \in 0..Len(s) /\ Before(s, e) \in Seq(S) /\ Behind(s, e) \in Seq(S)
         /\ Free(Before(s, e), chars)
         /\ e = 0 => Before(s, e) = s
         /\ e # 0 => Len(Before(s, e)) = e - 1 /\ s[e] \in chars
         /\ Len(Before(s, e)) \in 0..Len(s)
         /\ \A k \in 1..Len(Before(s, e)) : Before(s, e)[k] = s[k]
<1>1. IsFirst(s, chars, e) /\ Len(s) \in Nat
  BY FirstOfIs
<1>2. CASE e = 0
  <2>1. Before(s, e) = s /\ Free(s, chars) /\ e \in 0..Len(s)
    BY <1>1, <1>2 DEF Before, IsFirst
  <2>2. Behind(s, e) \in Seq(S)
    BY <2>1, BehindIs
  <2> QED BY <2>1, <2>2, <1>1, <1>2
<1>3. CASE e # 0
  <2>1. e \in 1..Len(s) /\ s[e] \in chars /\ \A k \in 1..(e - 1) : s[k] \notin chars
    BY <1>1, <1>3 DEF IsFirst
  <2> DEFINE u == Before(s, e)
  <2>2. u \in Seq(S) /\ Len(u) = e - 1 /\ \A k \in 1..(e - 1) : u[k] = s[k]
    BY <2>1, BeforeIs
  <2>3. Behind(s, e) \in Seq(S) /\ e \in 0..Len(s)
    BY <2>1, <1>1, BehindIs
  <2> HIDE DEF u
  <2>4. Free(u, chars) /\ Len(u) \in 0..Len(s)
    BY <2>1, <2>2, <1>1 DEF Free
  <2> QED BY <2>1, <2>2, <2>3, <2>4, <1>3 DEF u
<1> QED BY <1>2, <1>3

(* Cutting a text that was put together gives its first part back.           *)
LEMMA CutJoin ==
  ASSUME NEW S, NEW x \in Seq(S), NEW y \in Seq(S), NEW chars, Free(x, chars),
         y = <<>> \/ y[1] \in chars
  PROVE  /\ FirstOf(x \o y, chars) = IF y = <<>> THEN 0 ELSE Len(x) + 1
         /\ Before(x \o y, FirstOf(x \o y, chars)) = x
<1> DEFINE z == x \o y
<1>1. /\ z \in Seq(S) /\ Len(x) \in Nat /\ Len(y) \in Nat /\ Len(z) = Len(x) + Len(y)
      /\ \A k \in 1..Len(x) : z[k] = x[k]
      /\ \A k \in 1..Len(y) : z[Len(x) + k] = y[k]
  BY JoinIs
<1>2. CASE y = <<>>
  <2>1. z = x
    BY <1>2, ConcatEmptySeq
  <2>2. IsFirst(x, chars, 0)
    BY DEF IsFirst
  <2>3. FirstOf(x, chars) = 0
    BY <2>2, FirstUnique
  <2>4. Before(x, 0) = x
    BY DEF Before
  <2> QED BY <1>2, <2>1, <2>3, <2>4
<1>3. CASE y # <<>>
  <2> DEFINE e == Len(x) + 1
  <2>1. Len(y) # 0 /\ 1 \in 1..Len(y)
    <3>1. Len(y) # 0
      BY <1>3, EmptySeq
    <3> QED BY <3>1, <1>1
  <2> HIDE DEF z
  <2>2. z[e] = y[1] /\ e \in 1..Len(z) /\ e - 1 = Len(x)
    BY <2>1, <1>1
  <2>3. \A k \in 1..(e - 1) : z[k] \notin chars
    BY <2>2, <1>1 DEF Free
  <2>4. IsFirst(z, chars, e)
    BY <2>2, <2>3, <1>3 DEF IsFirst
  <2>5. FirstOf(z, chars) = e
    <3> HIDE DEF e
    <3> QED BY <2>4, <1>1, FirstUnique
  <2>6. Before(z, e) = x
    BY <1>3, BeforeJoin DEF z
  <2> QED BY <1>3, <2>5, <2>6 DEF z
<1> QED BY <1>2, <1>3

-------------------------------------------------------------------------------
(* Searching from the other end, the end of the scheme, and the port.         *)
IsLast(s, chars, e) ==
  \/ e = 0 /\ Free(s, chars)
  \/ e \in 1..Len(s) /\ s[e] \in chars /\ \A k \in (e + 1)..Len(s) : s[k] \notin chars

LEMMA LastOfIs ==
  ASSUME NEW S, NEW s \in Seq(S), NEW chars
  PROVE  IsLast(s, chars, LastOf(s, chars))
<1> DEFINE I == {i \in 1..Len(s) : s[i] \in chars}
           n == Len(s)
<1>1. LastOf(s, chars) = IF I # {} THEN Max(I) ELSE 0
  BY DEF LastOf, SelectLastInSeq
<1>0. n \in Nat
  OBVIOUS
<1>2. CASE I = {}
  BY <1>1, <1>2 DEF IsLast, Free
<1>3. CASE I # {}
  <2> DEFINE T == {n - i : i \in I}
  <2>1. T \in SUBSET Nat /\ T # {}
    <3>1. \A i \in I : n - i \in Nat
      BY <1>0
    <3> HIDE DEF I, n
    <3> QED BY <3>1, <1>3
  <2>2. PICK t \in T : \A y \in T : t <= y
    <3> HIDE DEF T
    <3> QED BY <2>1, LeastNumber
  <2>3. PICK x \in I : t = n - x
    OBVIOUS
  <2>4. \A y \in I : x >= y
    <3> SUFFICES ASSUME NEW y \in I PROVE x >= y
      OBVIOUS
    <3>1. n - y \in T
      OBVIOUS
    <3>2. n - x <= n - y
      BY <3>1, <2>2, <2>3
    <3>3. x \in Int /\ y \in Int
      OBVIOUS
    <3> HIDE DEF n
    <3> QED BY <3>2, <3>3, <1>0
  <2>5. Max(I) \in I /\ \A y \in I : Max(I) >= y
    <3> HIDE DEF I
    <3> QED BY <2>4 DEF Max
  <2> DEFINE e == Max(I)
  <2> HIDE DEF e
  <2>6. e \in 1..Len(s) /\ s[e] \in chars /\ \A y \in I : e >= y
    BY <2>5 DEF e
  <2>7. \A k \in (e + 1)..Len(s) : k \in 1..Len(s) /\ ~(e >= k)
    BY <2>6
  <2>8. \A k \in (e + 1)..Len(s) : s[k] \notin chars
    BY <2>6, <2>7
  <2> QED BY <1>1, <1>3, <2>6, <2>8 DEF IsLast, e
<1> QED BY <1>2, <1>3

LEMMA LastUnique ==
  ASSUME NEW S, NEW s \in Seq(S), NEW chars, NEW e, IsLast(s, chars, e)
  PROVE  LastOf(s, chars) = e
<1> DEFINE g == LastOf(s, chars)
<1>1. IsLast(s, chars, g)
  BY LastOfIs
<1> HIDE DEF g
<1>2. Len(s) \in Nat
  OBVIOUS
<1>3. CASE g = 0
  <2>1. Free(s, chars)
    BY <1>1, <1>3 DEF IsLast
  <2> QED BY <2>1, <1>3 DEF g, IsLast, Free
<1>4. CASE g # 0 /\ e = 0
  <2>1. Free(s, chars)
    BY <1>4 DEF IsLast
  <2> QED BY <2>1, <1>1, <1>4 DEF IsLast, Free
<1>5. CASE g # 0 /\ e # 0
  <2>1. g \in 1..Len(s) /\ s[g] \in chars /\ \A k \in (g + 1)..Len(s) : s[k] \notin chars
    BY <1>1, <1>5 DEF IsLast
  <2>2. e \in 1..Len(s) /\ s[e] \in chars /\ \A k \in (e + 1)..Len(s) : s[k] \notin chars
    BY <1>5 DEF IsLast
  <2>3. ~(g < e)
    <3>1. g < e => e \in (g + 1)..Len(s)
      BY <2>1, <2>2
    <3> QED BY <3>1, <2>1, <2>2
  <2>4. ~(e < g)
    <3>1. e < g => g \in (e + 1)..Len(s)
      BY <2>1, <2>2
    <3> QED BY <3>1, <2>1, <2>2
  <2>5. g = e
    BY <2>1, <2>2, <2>3, <2>4
  <2> QED BY <2>5 DEF g
<1> QED BY <1>3, <1>4, <1>5

(* The last one is the one that was put before a text without any.           *)
LEMMA LastJoin ==
  ASSUME NEW S, NEW x \in Seq(S), NEW y \in Seq(S), NEW d \in S, NEW chars, d \in chars, Free(y, chars)
  PROVE  LastOf(x \o (<<d>> \o y), chars) = Len(x) + 1
<1> DEFINE o == <<d>>
           w == o \o y
           z == x \o w
           e == Len(x) + 1
<1>1. o \in Seq(S) /\ Len(o) = 1 /\ o[1] = d
  OBVIOUS
<1> HIDE DEF o
<1>2. /\ w \in Seq(S) /\ Len(y) \in Nat /\ Len(w) = 1 + Len(y) /\ w[1] = d
      /\ \A k \in 1..Len(y) : w[1 + k] = y[k]
  <2>1. /\ w \in Seq(S) /\ Len(y) \in Nat /\ Len(w) = Len(o) + Len(y)
        /\ \A k \in 1..Len(o) : w[k] = o[k]
        /\ \A k \in 1..Len(y) : w[Len(o) + k] = y[k]
    <3>1. w \in Seq(S) /\ Joined(o, y, w)
      BY <1>1, JoinedIs
    <3> HIDE DEF w
    <3> QED BY <3>1 DEF Joined
  <2> HIDE DEF w
  <2> QED BY <1>1, <2>1
<1> HIDE DEF w
<1>3. /\ z \in Seq(S) /\ Len(x) \in Nat /\ Len(z) = Len(x) + Len(w)
      /\ \A k \in 1..Len(w) : z[Len(x) + k] = w[k]
  <2>1. z \in Seq(S) /\ Joined(x, w, z)
    BY <1>2, JoinedIs
  <2> HIDE DEF z
  <2> QED BY <2>1 DEF Joined
<1> HIDE DEF z
<1>4. e \in 1..Len(z) /\ z[e] = d
  <2>1. 1 \in 1..Len(w)
    BY <1>2
  <2>2. z[Len(x) + 1] = w[1]
    BY <2>1, <1>3
  <2> QED BY <2>2, <1>2, <1>3
<1>5. ASSUME NEW k \in (e + 1)..Len(z) PROVE z[k] \notin chars
  <2> DEFINE i == k - e
  <2>1. i \in 1..Len(y) /\ Len(x) + (1 + i) = k /\ 1 + i \in 1..Len(w)
    BY <1>2, <1>3
  <2> HIDE DEF i
  <2>2. z[Len(x) + (1 + i)] = w[1 + i]
    BY <2>1, <1>3
  <2>3. z[k] = y[i]
    BY <2>1, <2>2, <1>2
  <2> QED BY <2>1, <2>3 DEF Free
<1>6. IsLast(z, chars, e)
  <2> HIDE DEF e
  <2> QED BY <1>4, <1>5 DEF IsLast
<1>7. LastOf(z, chars) = e
  <2> HIDE DEF e
  <2> QED BY <1>3, <1>6, LastUnique
<1> QED BY <1>7 DEF z, w, o

-------------------------------------------------------------------------------
(* The scheme ends at the first ":/".                                        *)
ColonSlash(s, k) == s[k] = ":" /\ s[k + 1] = "/"

IsEnd(s, c) ==
  \/ c = 0 /\ \A k \in 1..(Len(s) - 1) : ~ColonSlash(s, k)
  \/ c \in 1..(Len(s) - 1) /\ ColonSlash(s, c) /\ \A k \in 1..(c - 1) : ~ColonSlash(s, k)

LEMMA SchemeEndIs ==
  ASSUME NEW S, NEW s \in Seq(S)
  PROVE  IsEnd(s, SchemeEnd(s))
<1> DEFINE I == {i \in 1..(Len(s) - 1) : s[i] = ":" /\ s[i + 1] = "/"}
<1>0. Len(s) \in Nat
  OBVIOUS
<1>1. SchemeEnd(s) = IF I = {} THEN 0 ELSE Min(I)
  BY DEF SchemeEnd
<1>2. CASE I = {}
  BY <1>1, <1>2 DEF IsEnd, ColonSlash
<1>3. CASE I # {}
  <2>1. I \in SUBSET Nat
    BY <1>0
  <2>2. \E x \in I : \A y \in I : x <= y
    <3> HIDE DEF I
    <3> QED BY <1>3, <2>1, LeastNumber
  <2>3. Min(I) \in I /\ \A y \in I : Min(I) <= y
    <3> HIDE DEF I
    <3> QED BY <2>2 DEF Min
  <2> DEFINE e == Min(I)
  <2> HIDE DEF e
  <2>4. e \in 1..(Len(s) - 1) /\ ColonSlash(s, e) /\ \A y \in I : e <= y
    BY <2>3 DEF e, ColonSlash
  <2>5. \A k \in 1..(e - 1) : k \in 1..(Len(s) - 1) /\ ~(e <= k)
    BY <2>4, <1>0
  <2>6. \A k \in 1..(e - 1) : ~ColonSlash(s, k)
    BY <2>4, <2>5 DEF ColonSlash
  <2> QED BY <1>1, <1>3, <2>4, <2>6 DEF IsEnd, e
<1> QED BY <1>2, <1>3

LEMMA EndUnique ==
  ASSUME NEW S, NEW s \in Seq(S), NEW e, IsEnd(s, e)
  PROVE  SchemeEnd(s) = e
<1> DEFINE g == SchemeEnd(s)
<1>1. IsEnd(s, g)
  BY SchemeEndIs
<1> HIDE DEF g
<1>2. Len(s) \in Nat
  OBVIOUS
<1>3. CASE g = 0
  <2>1. \A k \in 1..(Len(s) - 1) : ~ColonSlash(s, k)
    BY <1>1, <1>3 DEF IsEnd
  <2> QED BY <2>1, <1>3 DEF g, IsEnd
<1>4. CASE g # 0 /\ e = 0
  <2>1. \A k \in 1..(Len(s) - 1) : ~ColonSlash(s, k)
    BY <1>4 DEF IsEnd
  <2> QED BY <2>1, <1>1, <1>4 DEF IsEnd
<1>5. CASE g # 0 /\ e # 0
  <2>1. g \in 1..(Len(s) - 1) /\ ColonSlash(s, g) /\ \A k \in 1..(g - 1) : ~ColonSlash(s, k)
    BY <1>1, <1>5 DEF IsEnd
  <2>2. e \in 1..(Len(s) - 1) /\ ColonSlash(s, e) /\ \A k \in 1..(e - 1) : ~ColonSlash(s, k)
    BY <1>5 DEF IsEnd
  <2>3. ~(g < e)
    <3>1. g < e => g \in 1..(e - 1)
      BY <2>1, <2>2
    <3> QED BY <3>1, <2>1, <2>2
  <2>4. ~(e < g)
    <3>1. e < g => e \in 1..(g - 1)
      BY <2>1, <2>2
    <3> QED BY <3>1, <2>1, <2>2
  <2>5. g = e
    BY <2>1, <2>2, <2>3, <2>4
  <2> QED BY <2>5 DEF g
<1> QED BY <1>3, <1>4, <1>5

LEMMA EndJoin ==
  ASSUME NEW S, NEW x \in Seq(S), NEW y \in Seq(S), \A k \in 1..(Len(x) - 1) : ~ColonSlash(x, k),
         Len(y) >= 2, ColonSlash(y, 1)
  PROVE  SchemeEnd(x \o y) = Len(x) + 1
<1> DEFINE z == x \o y
           e == Len(x) + 1
<1>1. /\ z \in Seq(S) /\ Len(x) \in Nat /\ Len(y) \in Nat /\ Len(z) = Len(x) + Len(y)
      /\ \A k \in 1..Len(x) : z[k] = x[k]
      /\ \A k \in 1..Len(y) : z[Len(x) + k] = y[k]
  BY JoinIs
<1> HIDE DEF z
<1>2. y[1] = ":" /\ y[2] = "/"
  BY DEF ColonSlash
<1>3. z[e] = ":" /\ z[e + 1] = "/" /\ e \in 1..(Len(z) - 1)
  <2>1. 1 \in 1..Len(y) /\ 2 \in 1..Len(y) /\ Len(x) + 2 = e + 1
    BY <1>1
  <2>2. z[Len(x) + 1] = y[1] /\ z[Len(x) + 2] = y[2]
    BY <2>1, <1>1
  <2> QED BY <2>1, <2>2, <1>1, <1>2
<1>4. ASSUME NEW k \in 1..(e - 1) PROVE ~ColonSlash(z, k)
  <2>1. CASE k = Len(x)
    <3>1. z[k + 1] = ":"
      BY <2>1, <1>3
    <3> QED BY <3>1 DEF ColonSlash
  <2>2. CASE k # Len(x)
    <3>1. k \in 1..(Len(x) - 1) /\ k \in 1..Len(x) /\ k + 1 \in 1..Len(x)
      BY <2>2, <1>1
    <3>2. z[k] = x[k] /\ z[k + 1] = x[k + 1]
      BY <3>1, <1>1
    <3> QED BY <3>1, <3>2 DEF ColonSlash
  <2> QED BY <2>1, <2>2
<1>5. IsEnd(z, e)
  <2> HIDE DEF e
  <2> QED BY <1>3, <1>4 DEF IsEnd, ColonSlash
<1>6. SchemeEnd(z) = e
  <2> HIDE DEF e
  <2> QED BY <1>1, <1>5, EndUnique
<1> QED BY <1>6 DEF z

-------------------------------------------------------------------------------
(* A port is written with the digits that are read as that port.             *)
Ports == {9, 99, 999, 9999, 65535}

LEMMA PortAgain ==
  ASSUME NEW p \in Ports
  PROVE  /\ DigitsOf(p) \in Seq(UriChars) /\ DigitsOf(p) # <<>>
         /\ \A k \in 1..Len(DigitsOf(p)) : DigitsOf(p)[k] = Digit
         /\ ~PortThrows(DigitsOf(p)) /\ Port(DigitsOf(p)) = p
<1> DEFINE m == CHOOSE n \in 1..5 : Nines[n] = p
           D == DigitsOf(p)
<1>1. \E n \in 1..5 : Nines[n] = p
  <2>1. Nines[1] = 9 /\ Nines[2] = 99 /\ Nines[3] = 999 /\ Nines[4] = 9999 /\ Nines[5] = 65535
    BY DEF Nines
  <2>2. 1 \in 1..5 /\ 2 \in 1..5 /\ 3 \in 1..5 /\ 4 \in 1..5 /\ 5 \in 1..5
    OBVIOUS
  <2> QED BY <2>1, <2>2 DEF Ports
<1>2. m \in 1..5 /\ Nines[m] = p
  BY <1>1
<1>3. D = [i \in 1..m |-> Digit]
  BY DEF DigitsOf
<1> HIDE DEF m, D
<1>4. D \in Seq(UriChars) /\ Len(D) = m /\ \A k \in 1..m : D[k] = Digit
  <2>1. Digit \in UriChars
    BY DEF UriChars
  <2>2. D \in [1..m -> UriChars] /\ m \in Nat
    BY <1>2, <1>3, <2>1
  <2> QED BY <1>3, <2>2
<1>5. DigitCount(D) = m
  <2> DEFINE Q(n) == (\A i \in 1..n : D[i] = Digit) /\ (n < Len(D) => D[n + 1] # Digit)
  <2>1. m \in 0..Len(D) /\ Q(m)
    BY <1>2, <1>4
  <2>2. \A n \in 0..Len(D) : Q(n) => n = m
    <3> SUFFICES ASSUME NEW n \in 0..Len(D), n # m PROVE ~Q(n)
      OBVIOUS
    <3>1. n < Len(D) /\ n + 1 \in 1..m
      BY <1>2, <1>4
    <3> QED BY <3>1, <1>4
  <2>3. DigitCount(D) = CHOOSE n \in 0..Len(D) : Q(n)
    BY DEF DigitCount
  <2> HIDE DEF Q
  <2> QED BY <2>1, <2>2, <2>3
<1>6. ~PortThrows(D) /\ Port(D) = p
  BY <1>2, <1>5 DEF PortThrows, Port
<1>7. D # <<>>
  BY <1>2, <1>4
<1> QED BY <1>4, <1>6, <1>7 DEF D

LEMMA PortIs ==
  ASSUME NEW t, ~PortThrows(t)
  PROVE  Port(t) \in Ports
<1> DEFINE n == DigitCount(t)
           i == IF n > 5 THEN 5 ELSE n
<1>1. i \in 1..5
  BY DEF PortThrows
<1>2. Port(t) = Nines[i]
  BY DEF Port
<1> HIDE DEF i
<1>3. Nines[1] = 9 /\ Nines[2] = 99 /\ Nines[3] = 999 /\ Nines[4] = 9999 /\ Nines[5] = 65535
  BY DEF Nines
<1>4. i = 1 \/ i = 2 \/ i = 3 \/ i = 4 \/ i = 5
  BY <1>1
<1> QED BY <1>2, <1>3, <1>4 DEF Ports

-------------------------------------------------------------------------------
(* Split walks over a text from the left; what it keeps of it.                *)
(* The walk of Split over a text.                                            *)
Walked(s, d, f) ==
  /\ f[0] = [pieces |-> <<>>, offset |-> 0]
  /\ \A i \in 1..Len(s) :
       f[i] = IF s[i] # d THEN f[i - 1]
              ELSE [pieces |-> Grown(f[i - 1].pieces, SubSeq(s, f[i - 1].offset + 1, i - 1)), offset |-> i]

LEMMA GrownIs ==
  ASSUME NEW S, NEW q \in Seq(Seq(S)), NEW p \in Seq(S)
  PROVE  Grown(q, p) \in Seq(Seq(S))
BY DEF Grown

LEMMA SplitIs ==
  ASSUME NEW S, NEW s \in Seq(S), NEW d
  PROVE  \E f : Walked(s, d, f) /\ Split(s, d) = Grown(f[Len(s)].pieces, SubSeq(s, f[Len(s)].offset + 1, Len(s)))
<1> DEFINE N == Len(s)
           base == [pieces |-> <<>>, offset |-> 0]
           next(r, i) == [pieces |-> Grown(r.pieces, SubSeq(s, r.offset + 1, i - 1)), offset |-> i]
           body(f) == [i \in 0..N |-> IF i = 0 THEN base ELSE IF s[i] # d THEN f[i - 1] ELSE next(f[i - 1], i)]
           D == [pieces : Seq(Seq(S)), offset : 0..N]
           step == [i \in 1..N |-> [r \in D |-> IF s[i] # d THEN r ELSE next(r, i)]]
           f == CHOOSE f : f = body(f)
<1>1. Split(s, d) = Grown(f[N].pieces, SubSeq(s, f[N].offset + 1, N))
  BY Zenon DEF Split
<1>2. N \in Nat
  OBVIOUS
<1>3. ASSUME NEW i \in 1..N, NEW r \in D PROVE next(r, i) \in D
  <2> DEFINE u == SubSeq(s, r.offset + 1, i - 1)
  <2>1. r.pieces \in Seq(Seq(S)) /\ r.offset \in 0..N
    OBVIOUS
  <2>2. u \in Seq(S)
    <3>1. \A k \in (r.offset + 1)..(i - 1) : s[k] \in S
      BY <2>1, <1>2, ElementOfSeq
    <3>2. r.offset + 1 \in Int /\ i - 1 \in Int
      BY <2>1
    <3> QED BY <3>1, <3>2, SubSeqProperties
  <2> HIDE DEF u
  <2>3. Grown(r.pieces, u) \in Seq(Seq(S))
    BY <2>1, <2>2, GrownIs
  <2>4. i \in 0..N
    OBVIOUS
  <2> QED BY <2>3, <2>4 DEF u
<1> HIDE DEF next
<1>4. base \in D
  BY <1>2
<1> HIDE DEF base, D
<1>5. step \in [1..N -> [D -> D]]
  BY <1>3
<1>6. \A i \in 1..N : \A r \in D : step[i][r] = IF s[i] # d THEN r ELSE next(r, i)
  OBVIOUS
<1> HIDE DEF step, N
<1>7. PICK g \in [0..N -> D] : Iterates(N, base, step, g)
  BY <1>2, <1>4, <1>5, StepRecursion
<1>8. g = body(g)
  <2>1. ASSUME NEW i \in 0..N PROVE g[i] = IF i = 0 THEN base ELSE IF s[i] # d THEN g[i - 1] ELSE next(g[i - 1], i)
    <3>1. CASE i = 0
      BY <3>1, <1>7 DEF Iterates
    <3>2. CASE i # 0
      <4>1. i \in 1..N /\ i - 1 \in 0..N
        BY <3>2, <1>2
      <4>2. g[i] = step[i][g[i - 1]] /\ g[i - 1] \in D
        BY <4>1, <1>7 DEF Iterates
      <4> QED BY <4>1, <4>2, <3>2, <1>6
    <3> QED BY <3>1, <3>2
  <2> QED BY <2>1
<1>9. f = body(f)
  <2> HIDE DEF body
  <2> QED BY <1>8
<1> HIDE DEF f
<1>10. \A i \in 0..N : f[i] = IF i = 0 THEN base ELSE IF s[i] # d THEN f[i - 1] ELSE next(f[i - 1], i)
  BY <1>9
<1>11. Walked(s, d, f)
  <2>1. 0 \in 0..N /\ \A i \in 1..N : i \in 0..N /\ i # 0
    BY <1>2
  <2>2. f[0] = base /\ \A i \in 1..N : f[i] = IF s[i] # d THEN f[i - 1] ELSE next(f[i - 1], i)
    BY <2>1, <1>10
  <2> QED BY <2>2 DEF Walked, N, base, next
<1> QED BY <1>1, <1>11 DEF N

(* Nothing it has seen so far is left out, nor a piece kept that is empty.   *)
Kept(p, d) == p # <<>> /\ Free(p, {d})

Sound(S, s, d, f, i) ==
  /\ f[i] = [pieces |-> f[i].pieces, offset |-> f[i].offset]
  /\ f[i].pieces \in Seq(Seq(S)) /\ f[i].offset \in 0..i
  /\ \A k \in 1..Len(f[i].pieces) : Kept(f[i].pieces[k], d)
  /\ \A k \in (f[i].offset + 1)..i : s[k] # d

LEMMA GrownPieces ==
  ASSUME NEW S, NEW d, NEW q \in Seq(Seq(S)), NEW p \in Seq(S), Free(p, {d}),
         \A k \in 1..Len(q) : Kept(q[k], d)
  PROVE  Grown(q, p) \in Seq(Seq(S)) /\ \A k \in 1..Len(Grown(q, p)) : Kept(Grown(q, p)[k], d)
<1>1. CASE p = <<>>
  BY <1>1 DEF Grown
<1>2. CASE p # <<>>
  <2> DEFINE r == Append(q, p)
  <2>1. r \in Seq(Seq(S)) /\ Len(r) = Len(q) + 1 /\ Len(q) \in Nat
        /\ r[Len(q) + 1] = p /\ \A k \in 1..Len(q) : r[k] = q[k]
    OBVIOUS
  <2>2. Kept(p, d)
    BY <1>2 DEF Kept
  <2> HIDE DEF r
  <2>3. ASSUME NEW k \in 1..Len(r) PROVE Kept(r[k], d)
    <3>1. k \in 1..Len(q) \/ k = Len(q) + 1
      BY <2>1
    <3> QED BY <3>1, <2>1, <2>2
  <2>4. Grown(q, p) = r
    BY <1>2 DEF Grown, r
  <2> QED BY <2>1, <2>3, <2>4
<1> QED BY <1>1, <1>2

(* A part of a text that ends where another one goes on.                     *)
LEMMA FreePart ==
  ASSUME NEW S, NEW s \in Seq(S), NEW d, NEW o \in Nat, NEW i \in Nat, o <= i, i <= Len(s),
         \A k \in (o + 1)..i : s[k] # d
  PROVE  SubSeq(s, o + 1, i) \in Seq(S) /\ Free(SubSeq(s, o + 1, i), {d})
<1> DEFINE u == SubSeq(s, o + 1, i)
<1>1. u \in Seq(S) /\ Len(u) = i - o /\ \A k \in 1..(i - o) : u[k] = s[o + k]
  BY PartIs
<1> HIDE DEF u
<1>2. ASSUME NEW k \in 1..Len(u) PROVE u[k] # d
  <2>1. k \in 1..(i - o) /\ o + k \in (o + 1)..i
    BY <1>1
  <2> QED BY <2>1, <1>1
<1> QED BY <1>1, <1>2 DEF u, Free

LEMMA WalkedSound ==
  ASSUME NEW S, NEW s \in Seq(S), NEW d, NEW f, Walked(s, d, f)
  PROVE  \A i \in 0..Len(s) : Sound(S, s, d, f, i)
<1> DEFINE T == {i \in 0..Len(s) : Sound(S, s, d, f, i)}
<1>1. Len(s) \in Nat
  OBVIOUS
<1>2. 0 \in T
  <2>1. f[0] = [pieces |-> <<>>, offset |-> 0]
    BY DEF Walked
  <2>2. f[0].pieces = <<>> /\ f[0].offset = 0
    BY <2>1
  <2>3. Sound(S, s, d, f, 0)
    BY <2>1, <2>2 DEF Sound
  <2> QED BY <2>3, <1>1
<1>3. ASSUME NEW i \in 1..Len(s), i - 1 \in T PROVE i \in T
  <2>1. i \in 0..Len(s) /\ i - 1 \in Nat /\ i - 1 <= Len(s)
    BY <1>1
  <2>2. Sound(S, s, d, f, i - 1)
    BY <1>3
  <2> DEFINE r == f[i - 1]
             u == SubSeq(s, r.offset + 1, i - 1)
  <2>3. /\ r = [pieces |-> r.pieces, offset |-> r.offset]
        /\ r.pieces \in Seq(Seq(S)) /\ r.offset \in 0..(i - 1)
        /\ \A k \in 1..Len(r.pieces) : Kept(r.pieces[k], d)
        /\ \A k \in (r.offset + 1)..(i - 1) : s[k] # d
    BY <2>2 DEF Sound
  <2>4. f[i] = IF s[i] # d THEN r ELSE [pieces |-> Grown(r.pieces, u), offset |-> i]
    BY DEF Walked
  <2>5. u \in Seq(S) /\ Free(u, {d})
    <3>1. r.offset \in Nat /\ r.offset <= i - 1
      BY <2>3
    <3> HIDE DEF r
    <3> QED BY <2>1, <2>3, <3>1, FreePart
  <2> HIDE DEF u, r
  <2>6. CASE s[i] # d
    <3>1. f[i] = r
      BY <2>4, <2>6
    <3>2. \A k \in (r.offset + 1)..i : k \in (r.offset + 1)..(i - 1) \/ k = i
      BY <2>3
    <3>3. \A k \in (r.offset + 1)..i : s[k] # d
      BY <3>2, <2>3, <2>6
    <3>4. r.offset \in 0..i
      BY <2>3
    <3>5. Sound(S, s, d, f, i)
      BY <3>1, <3>3, <3>4, <2>3 DEF Sound
    <3> QED BY <3>5, <2>1
  <2>7. CASE s[i] = d
    <3> DEFINE q == Grown(r.pieces, u)
    <3>1. q \in Seq(Seq(S)) /\ \A k \in 1..Len(q) : Kept(q[k], d)
      BY <2>3, <2>5, GrownPieces
    <3>2. f[i] = [pieces |-> q, offset |-> i]
      BY <2>4, <2>7
    <3> HIDE DEF q
    <3>3. f[i].pieces = q /\ f[i].offset = i
      BY <3>2
    <3>4. Sound(S, s, d, f, i)
      BY <3>1, <3>2, <3>3, <2>1 DEF Sound
    <3> QED BY <3>4, <2>1
  <2> QED BY <2>6, <2>7
<1> HIDE DEF T
<1>4. \A i \in 0..Len(s) : i \in T
  BY <1>1, <1>2, <1>3, FromTheLeft
<1> QED BY <1>4 DEF T

(* The pieces of a text are not empty and do not hold what separates them.   *)
Pieces(q, d) == \A k \in 1..Len(q) : Kept(q[k], d)

LEMMA SplitPieces ==
  ASSUME NEW S, NEW s \in Seq(S), NEW d
  PROVE  Split(s, d) \in Seq(Seq(S)) /\ Pieces(Split(s, d), d)
<1>1. PICK f : Walked(s, d, f) /\ Split(s, d) = Grown(f[Len(s)].pieces, SubSeq(s, f[Len(s)].offset + 1, Len(s)))
  BY SplitIs
<1> DEFINE N == Len(s)
           r == f[N]
           u == SubSeq(s, r.offset + 1, N)
<1>2. N \in Nat /\ N \in 0..N
  OBVIOUS
<1>3. Sound(S, s, d, f, N)
  BY <1>1, <1>2, WalkedSound
<1>4. /\ r.pieces \in Seq(Seq(S)) /\ r.offset \in 0..N
      /\ \A k \in 1..Len(r.pieces) : Kept(r.pieces[k], d)
      /\ \A k \in (r.offset + 1)..N : s[k] # d
  BY <1>3 DEF Sound
<1>5. u \in Seq(S) /\ Free(u, {d})
  <2>1. r.offset \in Nat /\ r.offset <= N /\ N <= Len(s)
    BY <1>2, <1>4
  <2> HIDE DEF r, N
  <2> QED BY <1>2, <1>4, <2>1, FreePart
<1>6. Split(s, d) = Grown(r.pieces, u)
  BY <1>1
<1> HIDE DEF u, r
<1>7. Grown(r.pieces, u) \in Seq(Seq(S)) /\ \A k \in 1..Len(Grown(r.pieces, u)) : Kept(Grown(r.pieces, u)[k], d)
  BY <1>4, <1>5, GrownPieces
<1> QED BY <1>6, <1>7 DEF Pieces

(* Over the beginning of a text the walk is the one over that beginning.     *)
LEMMA WalkedSame ==
  ASSUME NEW S, NEW s \in Seq(S), NEW t \in Seq(S), NEW d, NEW f, NEW g,
         Walked(s, d, f), Walked(t, d, g),
         Len(s) <= Len(t), \A k \in 1..Len(s) : t[k] = s[k]
  PROVE  f[Len(s)] = g[Len(s)]
<1> DEFINE N == Len(s)
           T == {i \in 0..N : f[i] = g[i]}
<1>1. N \in Nat /\ Len(t) \in Nat
  OBVIOUS
<1>2. 0 \in T
  <2>1. f[0] = g[0]
    BY DEF Walked
  <2> QED BY <2>1, <1>1
<1>3. ASSUME NEW i \in 1..N, i - 1 \in T PROVE i \in T
  <2> DEFINE o == f[i - 1].offset
             a == SubSeq(s, o + 1, i - 1)
             b == SubSeq(t, o + 1, i - 1)
  <2>1. i - 1 \in 0..N /\ i - 1 \in Nat /\ i - 1 <= Len(s) /\ i - 1 <= Len(t) /\ i \in 1..Len(t) /\ i \in 1..Len(s) /\ i \in 0..N
    BY <1>1
  <2>2. f[i - 1] = g[i - 1]
    BY <1>3
  <2>3. s[i] = t[i]
    OBVIOUS
  <2>4. Sound(S, s, d, f, i - 1)
    BY <2>1, WalkedSound
  <2>5. o \in Nat /\ o <= i - 1
    BY <2>4, <2>1 DEF Sound
  <2> HIDE DEF o
  <2>6. a \in Seq(S) /\ Len(a) = (i - 1) - o /\ \A k \in 1..((i - 1) - o) : a[k] = s[o + k]
    BY <2>1, <2>5, PartIs
  <2>7. b \in Seq(S) /\ Len(b) = (i - 1) - o /\ \A k \in 1..((i - 1) - o) : b[k] = t[o + k]
    BY <2>1, <2>5, PartIs
  <2> HIDE DEF a, b
  <2>8. a = b
    <3>1. \A k \in 1..((i - 1) - o) : o + k \in 1..Len(s)
      BY <2>1, <2>5, <1>1
    <3>2. \A k \in 1..((i - 1) - o) : a[k] = b[k]
      BY <3>1, <2>6, <2>7
    <3> QED BY <2>6, <2>7, <3>2, SeqEqual
  <2>9. f[i] = IF s[i] # d THEN f[i - 1] ELSE [pieces |-> Grown(f[i - 1].pieces, a), offset |-> i]
    BY <2>1 DEF Walked, a, o
  <2>10. g[i] = IF t[i] # d THEN g[i - 1] ELSE [pieces |-> Grown(g[i - 1].pieces, b), offset |-> i]
    BY <2>1, <2>2 DEF Walked, b, o
  <2>11. f[i] = g[i]
    BY <2>2, <2>3, <2>8, <2>9, <2>10
  <2> QED BY <2>1, <2>11
<1> HIDE DEF T, N
<1>4. \A i \in 0..N : i \in T
  BY <1>1, <1>2, <1>3, FromTheLeft
<1>5. N \in T
  BY <1>1, <1>4
<1> QED BY <1>5 DEF T, N

(* Where nothing separates, the walk stays as it is.                         *)
LEMMA WalkedStays ==
  ASSUME NEW S, NEW s \in Seq(S), NEW d, NEW f, Walked(s, d, f), NEW l \in 0..Len(s),
         \A k \in (l + 1)..Len(s) : s[k] # d
  PROVE  f[Len(s)] = f[l]
<1> DEFINE M == Len(s) - l
           T == {i \in 0..M : f[l + i] = f[l]}
<1>1. M \in Nat /\ Len(s) \in Nat /\ l \in Nat
  OBVIOUS
<1>2. 0 \in T
  BY <1>1
<1>3. ASSUME NEW i \in 1..M, i - 1 \in T PROVE i \in T
  <2>1. l + i \in 1..Len(s) /\ l + i \in (l + 1)..Len(s) /\ (l + i) - 1 = l + (i - 1) /\ i \in 0..M
    BY <1>1
  <2>2. s[l + i] # d
    BY <2>1
  <2>3. f[l + i] = f[(l + i) - 1]
    BY <2>1, <2>2 DEF Walked
  <2>4. f[l + i] = f[l]
    BY <1>3, <2>1, <2>3
  <2> QED BY <2>1, <2>4
<1> HIDE DEF T, M
<1>4. \A i \in 0..M : i \in T
  BY <1>1, <1>2, <1>3, FromTheLeft
<1>5. M \in T
  BY <1>1, <1>4
<1>6. l + M = Len(s)
  BY <1>1 DEF M
<1> QED BY <1>5, <1>6 DEF T

(* A text without the separator is one piece, and one that is put behind a   *)
(* text and a separator is the last piece.                                   *)
LEMMA SplitWhole ==
  ASSUME NEW S, NEW p \in Seq(S), NEW d, Free(p, {d})
  PROVE  Split(p, d) = Grown(<<>>, p)
<1>1. PICK f : Walked(p, d, f) /\ Split(p, d) = Grown(f[Len(p)].pieces, SubSeq(p, f[Len(p)].offset + 1, Len(p)))
  BY SplitIs
<1>2. 0 \in 0..Len(p) /\ \A k \in (0 + 1)..Len(p) : p[k] # d
  BY DEF Free
<1>3. f[Len(p)] = f[0]
  BY <1>1, <1>2, WalkedStays
<1>4. f[0] = [pieces |-> <<>>, offset |-> 0]
  BY <1>1 DEF Walked
<1>5. f[Len(p)].pieces = <<>> /\ f[Len(p)].offset + 1 = 1
  BY <1>3, <1>4
<1>6. SubSeq(p, 1, Len(p)) = p
  BY SubSeqFull
<1> QED BY <1>1, <1>5, <1>6

LEMMA SplitGrows ==
  ASSUME NEW S, NEW x \in Seq(S), NEW p \in Seq(S), NEW d \in S, Free(p, {d})
  PROVE  Split(x \o <<d>> \o p, d) = Grown(Split(x, d), p)
<1> DEFINE o == <<d>>
           w == x \o o
           z == w \o p
           l == Len(x)
           N == Len(z)
<1>1. o \in Seq(S) /\ Len(o) = 1 /\ o[1] = d /\ 1 \in 1..Len(o)
  OBVIOUS
<1> HIDE DEF o
<1>2. w \in Seq(S) /\ Joined(x, o, w)
  BY <1>1, JoinedIs
<1>3. z \in Seq(S) /\ Joined(w, p, z)
  <2> HIDE DEF w
  <2> QED BY <1>2, JoinedIs
<1>4. Behind(z, Len(w)) = p
  <2> HIDE DEF w
  <2> QED BY <1>2, BehindJoin
<1> HIDE DEF w, z
<1>5. l \in Nat /\ Len(w) = l + 1 /\ Len(p) \in Nat /\ N = l + 1 + Len(p)
  BY <1>1, <1>2, <1>3 DEF Joined
<1>6. \A k \in 1..l : z[k] = x[k]
  <2>1. \A k \in 1..l : k \in 1..Len(w)
    BY <1>5
  <2> QED BY <2>1, <1>2, <1>3 DEF Joined
<1>7. z[l + 1] = d
  <2>1. w[l + 1] = d
    BY <1>1, <1>2 DEF Joined
  <2>2. l + 1 \in 1..Len(w)
    BY <1>5
  <2> QED BY <2>1, <2>2, <1>3 DEF Joined
<1>8. ASSUME NEW k \in (l + 2)..N PROVE z[k] # d
  <2> DEFINE i == k - (l + 1)
  <2>1. i \in 1..Len(p) /\ Len(w) + i = k
    BY <1>5
  <2> HIDE DEF i
  <2>2. z[Len(w) + i] = p[i]
    BY <2>1, <1>3 DEF Joined
  <2> QED BY <2>1, <2>2 DEF Free
<1>9. PICK f : Walked(x, d, f) /\ Split(x, d) = Grown(f[l].pieces, SubSeq(x, f[l].offset + 1, l))
  BY SplitIs
<1>10. PICK g : Walked(z, d, g) /\ Split(z, d) = Grown(g[N].pieces, SubSeq(z, g[N].offset + 1, N))
  BY <1>3, SplitIs
<1>11. f[l] = g[l]
  <2>1. Len(x) <= Len(z) /\ \A k \in 1..Len(x) : z[k] = x[k]
    BY <1>5, <1>6
  <2> QED BY <2>1, <1>3, <1>9, <1>10, WalkedSame
<1>12. SubSeq(z, f[l].offset + 1, l) = SubSeq(x, f[l].offset + 1, l)
  <2> DEFINE j == f[l].offset
             a == SubSeq(x, j + 1, l)
             b == SubSeq(z, j + 1, l)
  <2>1. l \in 0..Len(x)
    BY <1>5
  <2>2. Sound(S, x, d, f, l)
    BY <2>1, <1>9, WalkedSound
  <2>3. j \in Nat /\ j <= l /\ l <= Len(x) /\ l <= Len(z)
    BY <2>2, <1>5 DEF Sound
  <2> HIDE DEF j, l
  <2>4. a \in Seq(S) /\ Len(a) = l - j /\ \A k \in 1..(l - j) : a[k] = x[j + k]
    BY <1>5, <2>3, PartIs
  <2>5. b \in Seq(S) /\ Len(b) = l - j /\ \A k \in 1..(l - j) : b[k] = z[j + k]
    BY <1>3, <1>5, <2>3, PartIs, SMTT(30)
  <2> HIDE DEF a, b
  <2>6. \A k \in 1..(l - j) : a[k] = b[k]
    <3>1. \A k \in 1..(l - j) : j + k \in 1..l
      BY <1>5, <2>3
    <3> QED BY <3>1, <2>4, <2>5, <1>6
  <2>7. a = b
    BY <2>4, <2>5, <2>6, SeqEqual
  <2> QED BY <2>7 DEF a, b, j
<1>13. g[l + 1].pieces = Split(x, d) /\ g[l + 1].offset = l + 1
  <2>1. l + 1 \in 1..N /\ (l + 1) - 1 = l
    BY <1>5
  <2> DEFINE i == l + 1
  <2>2. i \in 1..Len(z) /\ i - 1 = l /\ z[i] = d
    BY <2>1, <1>7
  <2> HIDE DEF i
  <2>3. g[i] = [pieces |-> Grown(g[i - 1].pieces, SubSeq(z, g[i - 1].offset + 1, i - 1)), offset |-> i]
    BY <2>2, <1>10 DEF Walked
  <2>4. g[i] = [pieces |-> Split(x, d), offset |-> i]
    BY <2>2, <2>3, <1>9, <1>11, <1>12
  <2>5. g[i].pieces = Split(x, d) /\ g[i].offset = i
    BY <2>4
  <2> QED BY <2>5 DEF i
<1>14. g[N] = g[l + 1]
  <2> DEFINE i == l + 1
  <2>1. i \in 0..Len(z) /\ \A k \in (i + 1)..Len(z) : z[k] # d
    BY <1>5, <1>8
  <2> HIDE DEF i
  <2>2. g[Len(z)] = g[i]
    BY <2>1, <1>3, <1>10, WalkedStays, SMTT(30)
  <2> QED BY <2>2 DEF i
<1>15. SubSeq(z, (l + 1) + 1, N) = p
  BY <1>4, <1>5 DEF Behind
<1>16. Split(z, d) = Grown(Split(x, d), p)
  BY <1>10, <1>13, <1>14, <1>15
<1> QED BY <1>16 DEF z, w, o

-------------------------------------------------------------------------------
(* A path that was split is merged into one that is split in the same way.   *)
LEMMA AppendPart ==
  ASSUME NEW X, NEW q \in Seq(X), NEW i \in 1..Len(q)
  PROVE  Append(SubSeq(q, 1, i - 1), q[i]) = SubSeq(q, 1, i)
<1> DEFINE n == i - 1
           o == 0
           a == SubSeq(q, o + 1, n)
           b == SubSeq(q, o + 1, i)
           c == Append(a, q[i])
<1>1. o \in Nat /\ n \in Nat /\ i \in Nat /\ o <= n /\ o <= i /\ n <= Len(q) /\ i <= Len(q) /\ o + 1 = 1 /\ q[i] \in X
      /\ n - o = n /\ i - o = i /\ n + 1 = i /\ \A k \in 1..i : o + k = k
  BY ElementOfSeq
<1>9. n = i - 1
  OBVIOUS
<1> HIDE DEF n, o
<1>2. a \in Seq(X) /\ Len(a) = n - o /\ \A k \in 1..(n - o) : a[k] = q[o + k]
  BY <1>1, PartIs
<1>3. b \in Seq(X) /\ Len(b) = i - o /\ \A k \in 1..(i - o) : b[k] = q[o + k]
  BY <1>1, PartIs
<1> HIDE DEF a, b
<1>4. c \in Seq(X) /\ Len(c) = i /\ c[i] = q[i] /\ \A k \in 1..n : c[k] = a[k]
  <2>1. c \in Seq(X) /\ Len(c) = Len(a) + 1 /\ c[Len(a) + 1] = q[i] /\ \A k \in 1..Len(a) : c[k] = a[k]
    BY <1>1, <1>2
  <2> HIDE DEF c
  <2> QED BY <2>1, <1>1, <1>2
<1> HIDE DEF c
<1>5. \A k \in 1..i : c[k] = b[k]
  <2> SUFFICES ASSUME NEW k \in 1..i PROVE c[k] = b[k]
    OBVIOUS
  <2>1. b[k] = q[k]
    BY <1>1, <1>3
  <2>2. CASE k = i
    BY <2>1, <2>2, <1>4
  <2>3. CASE k # i
    <3>1. k \in 1..n /\ k \in 1..(n - o)
      BY <2>3, <1>1
    <3>2. a[k] = q[k]
      BY <3>1, <1>1, <1>2
    <3> QED BY <3>1, <3>2, <2>1, <1>4
  <2> QED BY <2>2, <2>3
<1>6. c = b
  BY <1>1, <1>3, <1>4, <1>5, SeqEqual
<1> QED BY <1>1, <1>6, <1>9 DEF a, b, c

(* Pieces that are put together into a path are what it is taken apart into. *)
LEMMA MergeIs ==
  ASSUME NEW S, "/" \in S, NEW q \in Seq(Seq(S))
  PROVE  \E f \in [0..Len(q) -> Seq(S)] :
           /\ f[0] = <<"/">> /\ \A i \in 1..Len(q) : f[i] = f[i - 1] \o q[i] \o <<"/">>
           /\ merge_path(q) = f[Len(q)]
<1> DEFINE N == Len(q)
           base == <<"/">>
           next(r, i) == r \o q[i] \o <<"/">>
           body(f) == [i \in 0..N |-> IF i = 0 THEN base ELSE next(f[i - 1], i)]
           D == Seq(S)
           step == [i \in 1..N |-> [r \in D |-> next(r, i)]]
           f == CHOOSE f : f = body(f)
<1>1. merge_path(q) = f[N]
  BY Zenon DEF merge_path
<1>2. N \in Nat
  OBVIOUS
<1>4. base \in D
  OBVIOUS
<1>3. ASSUME NEW i \in 1..N, NEW r \in D PROVE next(r, i) \in D
  <2>1. q[i] \in Seq(S)
    BY <1>2, ElementOfSeq
  <2>2. r \o q[i] \in Seq(S)
    BY <2>1, ConcatProperties
  <2> QED BY <2>2, <1>4, ConcatProperties
<1> HIDE DEF next
<1> HIDE DEF base, D
<1>5. step \in [1..N -> [D -> D]]
  BY <1>3
<1>6. \A i \in 1..N : \A r \in D : step[i][r] = next(r, i)
  OBVIOUS
<1> HIDE DEF step, N
<1>7. PICK g \in [0..N -> D] : Iterates(N, base, step, g)
  BY <1>2, <1>4, <1>5, StepRecursion
<1>8. g = body(g)
  <2>1. ASSUME NEW i \in 0..N PROVE g[i] = IF i = 0 THEN base ELSE next(g[i - 1], i)
    <3>1. CASE i = 0
      BY <3>1, <1>7 DEF Iterates
    <3>2. CASE i # 0
      <4>1. i \in 1..N /\ i - 1 \in 0..N
        BY <3>2, <1>2
      <4>2. g[i] = step[i][g[i - 1]] /\ g[i - 1] \in D
        BY <4>1, <1>7 DEF Iterates
      <4> QED BY <4>1, <4>2, <3>2, <1>6
    <3> QED BY <3>1, <3>2
  <2> QED BY <2>1
<1>9. f = body(f)
  <2> HIDE DEF body
  <2> QED BY <1>8
<1> HIDE DEF f
<1>10. f = [i \in 0..N |-> f[i]] /\ \A i \in 0..N : f[i] = IF i = 0 THEN base ELSE next(f[i - 1], i)
  BY <1>9
<1>11. f[0] = base /\ \A i \in 1..N : f[i] = next(f[i - 1], i)
  <2>1. 0 \in 0..N /\ \A i \in 1..N : i \in 0..N /\ i # 0
    BY <1>2
  <2> QED BY <2>1, <1>10
<1> DEFINE T == {i \in 0..N : f[i] \in D}
<1>12. 0 \in T
  BY <1>2, <1>4, <1>11
<1>13. \A i \in 1..N : i - 1 \in T => i \in T
  <2>1. \A i \in 1..N : i \in 0..N
    BY <1>2
  <2> QED BY <2>1, <1>3, <1>11
<1> HIDE DEF T
<1>14. \A i \in 0..N : i \in T
  BY <1>2, <1>12, <1>13, FromTheLeft
<1>15. f \in [0..N -> D]
  BY <1>10, <1>14 DEF T
<1> QED BY <1>1, <1>11, <1>15 DEF N, D, base, next

LEMMA PathAgain ==
  ASSUME NEW S, "/" \in S, NEW q \in Seq(Seq(S)), Pieces(q, "/")
  PROVE  split_path(merge_path(q)) = q
<1> DEFINE d == "/"
           o == <<d>>
           N == Len(q)
<1>0. d \in S /\ o \in Seq(S) /\ N \in Nat /\ <<>> \in Seq(S)
  OBVIOUS
<1>1. PICK f \in [0..N -> Seq(S)] :
        /\ f[0] = o /\ \A i \in 1..N : f[i] = f[i - 1] \o q[i] \o o
        /\ merge_path(q) = f[N]
  BY MergeIs
<1>2. \A k \in 1..N : q[k] \in Seq(S) /\ q[k] # <<>> /\ Free(q[k], {d})
  <2>1. \A k \in 1..N : q[k] \in Seq(S)
    BY ElementOfSeq
  <2> QED BY <2>1 DEF Pieces, Kept
<1>3. \A x, p \in Seq(S) : Free(p, {d}) => Split(x \o o \o p, d) = Grown(Split(x, d), p)
  BY <1>0, SplitGrows
<1>4. \A a, b, c \in Seq(S) : (a \o b) \o c = a \o (b \o c)
  BY ConcatAssociative, SMTT(30)
<1>5. Free(<<>>, {d})
  BY DEF Free
<1>6. Split(<<>>, d) = <<>>
  <2> DEFINE e == <<>>
  <2>1. e \in Seq(S) /\ Free(e, {d})
    BY <1>5
  <2> HIDE DEF e
  <2>2. Split(e, d) = Grown(<<>>, e)
    BY <2>1, SplitWhole
  <2>3. Grown(<<>>, <<>>) = <<>>
    BY DEF Grown
  <2> QED BY <2>2, <2>3 DEF e
<1>7. \A x \in Seq(S) : <<>> \o x = x /\ x \o <<>> = x
  BY ConcatEmptySeq
<1> DEFINE Done(i) == \E u \in Seq(S) : f[i] = u \o o /\ Split(u, d) = SubSeq(q, 1, i)
           T == {i \in 0..N : Done(i)}
<1> HIDE DEF d, o
<1>8. 0 \in T
  <2>1. f[0] = <<>> \o o
    BY <1>0, <1>1, <1>7
  <2>2. SubSeq(q, 1, 0) = <<>>
    BY SubSeqEmpty
  <2>3. Done(0)
    BY <2>1, <2>2, <1>0, <1>6
  <2> HIDE DEF Done
  <2> QED BY <2>3, <1>0
<1>9. ASSUME NEW i \in 1..N, i - 1 \in T PROVE i \in T
  <2>1. PICK u \in Seq(S) : f[i - 1] = u \o o /\ Split(u, d) = SubSeq(q, 1, i - 1)
    BY <1>9
  <2> DEFINE v == u \o o \o q[i]
  <2>2. v \in Seq(S)
    <3>1. u \o o \in Seq(S)
      BY <1>0, ConcatProperties
    <3> QED BY <3>1, <1>2, ConcatProperties
  <2>3. f[i] = v \o o
    BY <1>1, <2>1
  <2>4. Split(v, d) = Grown(SubSeq(q, 1, i - 1), q[i])
    BY <1>2, <1>3, <2>1
  <2>5. Grown(SubSeq(q, 1, i - 1), q[i]) = SubSeq(q, 1, i)
    <3>1. Append(SubSeq(q, 1, i - 1), q[i]) = SubSeq(q, 1, i)
      BY <1>0, AppendPart
    <3> QED BY <3>1, <1>2 DEF Grown
  <2> HIDE DEF v
  <2>6. Done(i)
    BY <2>2, <2>3, <2>4, <2>5
  <2>7. i \in 0..N
    BY <1>0
  <2> HIDE DEF Done
  <2> QED BY <2>6, <2>7
<1> HIDE DEF T, N
<1>10. \A i \in 0..N : i \in T
  BY <1>0, <1>8, <1>9, FromTheLeft
<1>11. N \in T
  BY <1>0, <1>10
<1>12. PICK u \in Seq(S) : f[N] = u \o o /\ Split(u, d) = SubSeq(q, 1, N)
  BY <1>11 DEF T
<1>13. SubSeq(q, 1, N) = q
  BY SubSeqFull DEF N
<1>14. u \o o \o <<>> = u \o o
  <2>1. u \o o \in Seq(S)
    BY <1>0, ConcatProperties
  <2> QED BY <2>1, <1>7
<1>15. Split(u \o o \o <<>>, d) = Grown(q, <<>>)
  BY <1>0, <1>3, <1>5, <1>12, <1>13
<1>16. Grown(q, <<>>) = q
  BY DEF Grown
<1> QED BY <1>1, <1>12, <1>14, <1>15, <1>16 DEF split_path, d

-------------------------------------------------------------------------------
(* The pairs of a form, each character escaped.                               *)
(* What is escaped comes back, and is not what forms are built with.         *)
AllChars == UriChars \cup {e[2] : e \in Escapes}

LEMMA EscapesAre ==
  /\ \A e \in Escapes : e[1] \in UriChars /\ e[2] \notin UriChars
  /\ \A e, g \in Escapes : (e[1] = g[1] \/ e[2] = g[2]) => e = g
  /\ \E e \in Escapes : e[1] = "&"
  /\ \E e \in Escapes : e[1] = "="
<1>1. \A e \in Escapes : e[1] \in UriChars
  BY DEF Escapes, UriChars, Digit
<1>2. \A e \in Escapes : e[2] \notin UriChars
  BY DEF Escapes, UriChars, Digit
<1>3. \A e, g \in Escapes : e[1] = g[1] => e = g
  BY DEF Escapes
<1>4. \A e, g \in Escapes : e[2] = g[2] => e = g
  BY DEF Escapes
<1>5. \E e \in Escapes : e[1] = "&"
  <2>1. <<"&", "%26">> \in Escapes
    BY DEF Escapes
  <2> QED BY <2>1
<1>6. \E e \in Escapes : e[1] = "="
  <2>1. <<"=", "%3D">> \in Escapes
    BY DEF Escapes
  <2> QED BY <2>1
<1> QED BY <1>1, <1>2, <1>3, <1>4, <1>5, <1>6

LEMMA TurnedIs ==
  ASSUME NEW c \in UriChars
  PROVE  /\ Turned(c, 1, 2) \in AllChars /\ Turned(c, 1, 2) \notin {"&", "="}
         /\ Turned(Turned(c, 1, 2), 2, 1) = c
         /\ Turned(c, 2, 1) \in UriChars
<1>1. Turned(c, 2, 1) = c
  BY EscapesAre DEF Turned
<1>2. CASE \E e \in Escapes : e[1] = c
  <2> DEFINE e == CHOOSE e \in Escapes : e[1] = c
             x == e[2]
             g == CHOOSE g \in Escapes : g[2] = x
  <2>1. e \in Escapes /\ e[1] = c
    BY <1>2
  <2>2. Turned(c, 1, 2) = x
    BY <1>2 DEF Turned
  <2> HIDE DEF e
  <2>3. \E h \in Escapes : h[2] = x
    BY <2>1
  <2>4. g \in Escapes /\ g[2] = x
    BY <2>3
  <2>5. Turned(x, 2, 1) = g[1]
    BY <2>3 DEF Turned
  <2> HIDE DEF g
  <2>6. g = e
    BY <2>1, <2>4, EscapesAre
  <2>7. x \in AllChars
    BY <2>1 DEF AllChars
  <2>8. x \notin {"&", "="}
    <3>1. "&" \in UriChars /\ "=" \in UriChars
      BY DEF UriChars
    <3>2. x \notin UriChars
      BY <2>1, EscapesAre
    <3> QED BY <3>1, <3>2
  <2> HIDE DEF x
  <2> QED BY <1>1, <2>1, <2>2, <2>5, <2>6, <2>7, <2>8
<1>3. CASE ~\E e \in Escapes : e[1] = c
  <2>1. Turned(c, 1, 2) = c
    BY <1>3 DEF Turned
  <2>2. c \notin {"&", "="}
    BY <1>3, EscapesAre
  <2>3. c \in AllChars
    BY DEF AllChars
  <2> QED BY <1>1, <2>1, <2>2, <2>3
<1> QED BY <1>2, <1>3

LEMMA EncodeIs ==
  ASSUME NEW s \in Seq(UriChars)
  PROVE  /\ encode(s) \in Seq(AllChars) /\ Free(encode(s), {"&", "="})
         /\ s # <<>> => encode(s) # <<>>
         /\ Unescaped(encode(s)) = s
         /\ Unescaped(s) \in Seq(UriChars)
         /\ s # <<>> => Unescaped(s) # <<>>
<1> DEFINE n == Len(s)
           t == encode(s)
           u == Unescaped(t)
           v == Unescaped(s)
           enc(c) == Turned(c, 1, 2)
           dec(c) == Turned(c, 2, 1)
<1>1. n \in Nat /\ \A k \in 1..n : s[k] \in UriChars
  BY ElementOfSeq
<1>2. \A k \in 1..n : /\ enc(s[k]) \in AllChars /\ enc(s[k]) \notin {"&", "="}
                      /\ dec(enc(s[k])) = s[k] /\ dec(s[k]) \in UriChars
  BY <1>1, TurnedIs
<1>3. t = [k \in 1..n |-> enc(s[k])] /\ v = [k \in 1..n |-> dec(s[k])]
  BY DEF encode, Unescaped
<1> HIDE DEF enc, dec, t, v, n
<1>4. t \in Seq(AllChars) /\ Len(t) = n /\ \A k \in 1..n : t[k] = enc(s[k])
  <2>1. t \in [1..n -> AllChars]
    BY <1>2, <1>3
  <2> QED BY <2>1, <1>1, <1>3
<1>5. v \in Seq(UriChars) /\ Len(v) = n
  <2>1. v \in [1..n -> UriChars]
    BY <1>2, <1>3
  <2> QED BY <2>1, <1>1, <1>3
<1>6. u = [k \in 1..Len(t) |-> dec(t[k])]
  BY DEF Unescaped, dec
<1>7. u = [k \in 1..n |-> s[k]]
  BY <1>2, <1>4, <1>6
<1>8. u = s
  <2>1. s = [k \in 1..n |-> s[k]]
    BY DEF n
  <2> QED BY <2>1, <1>7
<1>9. Free(t, {"&", "="})
  BY <1>2, <1>4 DEF Free
<1>10. s # <<>> => t # <<>> /\ v # <<>>
  <2>1. s # <<>> => n # 0
    BY EmptySeq DEF n
  <2> QED BY <2>1, <1>4, <1>5
<1> QED BY <1>4, <1>5, <1>8, <1>9, <1>10 DEF t, v

(* A pair as it is written in a form.                                        *)
Entry(p) == encode(p[1]) \o <<"=">> \o encode(p[2])
Texts == Seq(UriChars) \ {<<>>}
Entries == {<<k, v>> : k \in Texts, v \in Seq(UriChars)}
Solid == {<<k, v>> : k \in Texts, v \in Texts}

LEMMA EntryIs ==
  ASSUME NEW p \in Solid
  PROVE  /\ Entry(p) \in Seq(AllChars) /\ Entry(p) # <<>> /\ Free(Entry(p), {"&"})
         /\ \A rest : Pair(Entry(p), rest) = p
<1>1. PICK k \in Texts, v \in Texts : p = <<k, v>>
  BY DEF Solid
<1> DEFINE a == encode(k)
           b == encode(v)
           o == <<"=">>
           y == o \o b
           t == a \o y
           e == FirstOf(t, {"="})
<1>2. a \in Seq(AllChars) /\ Free(a, {"&", "="}) /\ Unescaped(a) = k /\ a # <<>>
  BY EncodeIs DEF Texts
<1>3. b \in Seq(AllChars) /\ Free(b, {"&", "="}) /\ Unescaped(b) = v /\ b # <<>>
  BY EncodeIs DEF Texts
<1>4. o \in Seq(AllChars) /\ Len(o) = 1 /\ o[1] = "=" /\ 1 \in 1..Len(o)
  <2>1. "=" \in AllChars
    BY DEF AllChars, UriChars
  <2> QED BY <2>1
<1>5. Entry(p) = (a \o o) \o b
  BY <1>1 DEF Entry
<1> HIDE DEF a, b, o
<1>6. (a \o o) \o b = t
  BY <1>2, <1>3, <1>4, ConcatAssociative
<1>7. y \in Seq(AllChars) /\ Joined(o, b, y)
  BY <1>3, <1>4, JoinedIs
<1>8. y[1] = "=" /\ y # <<>> /\ Len(y) = 1 + Len(b) /\ Len(b) \in Nat
      /\ \A i \in 1..Len(b) : y[1 + i] = b[i]
  <2> HIDE DEF y
  <2>1. Len(y) = 1 + Len(b) /\ Len(b) \in Nat
    BY <1>4, <1>7 DEF Joined
  <2>2. y # <<>>
    BY <2>1
  <2> QED BY <2>1, <2>2, <1>4, <1>7 DEF Joined
<1> HIDE DEF y
<1>9. t \in Seq(AllChars) /\ Joined(a, y, t)
  BY <1>2, <1>7, JoinedIs
<1>10. e = Len(a) + 1 /\ Before(t, e) = a
  <2>1. Free(a, {"="})
    BY <1>2 DEF Free
  <2> DEFINE chars == {"="}
  <2>2. Free(a, chars) /\ y[1] \in chars
    BY <2>1, <1>8
  <2> HIDE DEF chars
  <2>3. /\ FirstOf(a \o y, chars) = IF y = <<>> THEN 0 ELSE Len(a) + 1
        /\ Before(a \o y, FirstOf(a \o y, chars)) = a
    BY <2>2, <1>2, <1>7, CutJoin
  <2> QED BY <2>3, <1>8 DEF chars
<1>11. Behind(t, Len(a) + 1) = b
  <2> DEFINE w == a \o o
  <2>1. w \in Seq(AllChars) /\ Joined(a, o, w)
    BY <1>2, <1>4, JoinedIs
  <2> HIDE DEF w, t
  <2>2. Behind(w \o b, Len(w)) = b
    BY <2>1, <1>3, BehindJoin
  <2>3. Len(w) = Len(a) + 1
    BY <2>1, <1>4 DEF Joined
  <2> QED BY <2>2, <2>3, <1>6 DEF w
<1>12. Len(a) \in Nat
  BY <1>2
<1> HIDE DEF t
<1>13. ASSUME NEW rest PROVE Pair(t, rest) = <<Unescaped(a), Unescaped(b)>>
  <2> HIDE DEF e
  <2>1. e # 0 /\ Behind(t, e) = b
    BY <1>10, <1>11, <1>12
  <2> DEFINE u == t \o rest
  <2>2. Pair(t, rest) = <<decode(Before(t, e), u), IF e = 0 THEN <<>> ELSE decode(Behind(t, e), rest)>>
    BY DEF Pair, e
  <2> HIDE DEF u
  <2>3. decode(a, u) = Unescaped(a) /\ decode(b, rest) = Unescaped(b)
    BY <1>2, <1>3 DEF decode
  <2> QED BY <2>1, <2>2, <2>3, <1>10
<1>14. Free(t, {"&"})
  <2> SUFFICES ASSUME NEW i \in 1..Len(t) PROVE t[i] # "&"
    BY DEF Free
  <2>1. Len(t) = Len(a) + 1 + Len(b)
    BY <1>8, <1>9, <1>12 DEF Joined
  <2>2. CASE i <= Len(a)
    <3>1. i \in 1..Len(a)
      BY <2>2, <1>12
    <3>2. t[i] = a[i]
      BY <3>1, <1>9 DEF Joined
    <3> QED BY <3>1, <3>2, <1>2 DEF Free
  <2>3. CASE i = Len(a) + 1
    <3>1. 1 \in 1..Len(y)
      BY <1>8
    <3>2. t[Len(a) + 1] = y[1]
      BY <3>1, <1>9 DEF Joined
    <3> QED BY <3>2, <2>3, <1>8
  <2>4. CASE i > Len(a) + 1
    <3> DEFINE j == i - (Len(a) + 1)
    <3>1. j \in 1..Len(b) /\ Len(a) + (1 + j) = i /\ 1 + j \in 1..Len(y)
      BY <2>1, <2>4, <1>8, <1>12
    <3> HIDE DEF j
    <3>2. t[Len(a) + (1 + j)] = y[1 + j]
      BY <3>1, <1>9 DEF Joined
    <3>3. t[i] = b[j]
      BY <3>1, <3>2, <1>8
    <3> QED BY <3>1, <3>3, <1>3 DEF Free
  <2>5. i <= Len(a) \/ i = Len(a) + 1 \/ i > Len(a) + 1
    BY <2>1, <1>8, <1>12
  <2> QED BY <2>2, <2>3, <2>4, <2>5
<1>15. t # <<>>
  <2>1. Len(t) = Len(a) + Len(y)
    BY <1>9 DEF Joined
  <2>2. Len(t) # 0
    BY <2>1, <1>8, <1>12
  <2> QED BY <2>2
<1> QED BY <1>1, <1>2, <1>3, <1>5, <1>6, <1>9, <1>13, <1>14, <1>15

FormStep(f, p) == Part(<<>>, f, <<"&">>) \o encode(p[1]) \o <<"=">> \o encode(p[2])

LEMMA FormStepIs ==
  ASSUME NEW f \in Seq(AllChars), NEW p \in Solid
  PROVE  /\ FormStep(f, p) \in Seq(AllChars)
         /\ FormStep(f, p) = IF f = <<>> THEN Entry(p) ELSE f \o <<"&">> \o Entry(p)
<1> DEFINE a == encode(p[1])
           b == encode(p[2])
           o == <<"=">>
           d == <<"&">>
           g == Part(<<>>, f, d)
<1>1. a \in Seq(AllChars) /\ b \in Seq(AllChars)
  <2>1. p[1] \in Seq(UriChars) /\ p[2] \in Seq(UriChars)
    BY DEF Solid, Texts
  <2> QED BY <2>1, EncodeIs
<1>2. o \in Seq(AllChars) /\ d \in Seq(AllChars) /\ <<>> \in Seq(AllChars)
  <2>1. "=" \in AllChars /\ "&" \in AllChars
    BY DEF AllChars, UriChars
  <2> QED BY <2>1
<1>3. Entry(p) = (a \o o) \o b /\ FormStep(f, p) = ((g \o a) \o o) \o b
  BY DEF Entry, FormStep
<1>4. Entry(p) \in Seq(AllChars)
  BY EntryIs
<1> HIDE DEF a, b, o
<1>5. \A x, y, z \in Seq(AllChars) : (x \o y) \o z = x \o (y \o z)
  BY ConcatAssociative, SMTT(30)
<1>6. \A x, y \in Seq(AllChars) : x \o y \in Seq(AllChars)
  BY ConcatProperties
<1>7. \A x \in Seq(AllChars) : <<>> \o x = x
  BY ConcatEmptySeq
<1>8. g = IF f = <<>> THEN <<>> ELSE f \o d
  <2>1. <<>> \o f = f
    BY <1>7
  <2> QED BY <2>1 DEF Part
<1> HIDE DEF d, g
<1>9. g \in Seq(AllChars)
  <2>1. f \o d \in Seq(AllChars)
    BY <1>2, <1>6
  <2> QED BY <2>1, <1>2, <1>8
<1>10. FormStep(f, p) = g \o Entry(p)
  <2>1. (g \o a) \o o = g \o (a \o o)
    BY <1>1, <1>2, <1>5, <1>9, ZenonT(40)
  <2>2. a \o o \in Seq(AllChars)
    BY <1>1, <1>2, <1>6
  <2>3. (g \o (a \o o)) \o b = g \o ((a \o o) \o b)
    <3> DEFINE w == a \o o
    <3> HIDE DEF w
    <3>1. w \in Seq(AllChars)
      BY <2>2 DEF w
    <3>2. (g \o w) \o b = g \o (w \o b)
      BY <3>1, <1>1, <1>5, <1>9
    <3> QED BY <3>2 DEF w
  <2> QED BY <2>1, <2>3, <1>3
<1>11. FormStep(f, p) \in Seq(AllChars)
  BY <1>4, <1>6, <1>9, <1>10
<1>12. CASE f = <<>>
  BY <1>12, <1>4, <1>7, <1>8, <1>10, <1>11
<1>13. CASE f # <<>>
  <2>1. FormStep(f, p) = (f \o d) \o Entry(p)
    BY <1>13, <1>8, <1>10
  <2> QED BY <2>1, <1>11, <1>13 DEF d
<1> QED BY <1>12, <1>13

LEMMA BuildIs ==
  ASSUME NEW q \in Seq(Solid)
  PROVE  \E f \in [0..Len(q) -> Seq(AllChars)] :
           /\ f[0] = <<>> /\ \A i \in 1..Len(q) : f[i] = FormStep(f[i - 1], q[i])
           /\ build_formdata(q) = f[Len(q)]
<1> DEFINE N == Len(q)
           base == <<>>
           next(r, i) == Part(<<>>, r, <<"&">>) \o encode(q[i][1]) \o <<"=">> \o encode(q[i][2])
           body(f) == [i \in 0..N |-> IF i = 0 THEN base ELSE next(f[i - 1], i)]
           D == Seq(AllChars)
           step == [i \in 1..N |-> [r \in D |-> next(r, i)]]
           f == CHOOSE f : f = body(f)
<1>1. build_formdata(q) = f[N]
  BY Zenon DEF build_formdata
<1>2. N \in Nat
  OBVIOUS
<1>4. base \in D
  OBVIOUS
<1>a. \A i \in 1..N : \A r : next(r, i) = FormStep(r, q[i])
  BY DEF FormStep
<1> HIDE DEF next
<1>3. ASSUME NEW i \in 1..N, NEW r \in D PROVE next(r, i) \in D
  <2>1. q[i] \in Solid
    BY <1>2, ElementOfSeq
  <2> QED BY <2>1, <1>a, FormStepIs
<1> HIDE DEF base, D
<1>5. step \in [1..N -> [D -> D]]
  BY <1>3
<1>6. \A i \in 1..N : \A r \in D : step[i][r] = next(r, i)
  OBVIOUS
<1> HIDE DEF step, N
<1>7. PICK g \in [0..N -> D] : Iterates(N, base, step, g)
  BY <1>2, <1>4, <1>5, StepRecursion
<1>8. g = body(g)
  <2>1. ASSUME NEW i \in 0..N PROVE g[i] = IF i = 0 THEN base ELSE next(g[i - 1], i)
    <3>1. CASE i = 0
      BY <3>1, <1>7 DEF Iterates
    <3>2. CASE i # 0
      <4>1. i \in 1..N /\ i - 1 \in 0..N
        BY <3>2, <1>2
      <4>2. g[i] = step[i][g[i - 1]] /\ g[i - 1] \in D
        BY <4>1, <1>7 DEF Iterates
      <4> QED BY <4>1, <4>2, <3>2, <1>6
    <3> QED BY <3>1, <3>2
  <2> QED BY <2>1
<1>9. f = body(f)
  <2> HIDE DEF body
  <2> QED BY <1>8
<1> HIDE DEF f
<1>10. f = [i \in 0..N |-> f[i]] /\ \A i \in 0..N : f[i] = IF i = 0 THEN base ELSE next(f[i - 1], i)
  BY <1>9
<1>11. f[0] = base /\ \A i \in 1..N : f[i] = next(f[i - 1], i)
  <2>1. 0 \in 0..N /\ \A i \in 1..N : i \in 0..N /\ i # 0
    BY <1>2
  <2> QED BY <2>1, <1>10
<1> DEFINE T == {i \in 0..N : f[i] \in D}
<1>12. 0 \in T
  BY <1>2, <1>4, <1>11
<1>13. \A i \in 1..N : i - 1 \in T => i \in T
  <2>1. \A i \in 1..N : i \in 0..N
    BY <1>2
  <2> QED BY <2>1, <1>3, <1>11
<1> HIDE DEF T
<1>14. \A i \in 0..N : i \in T
  BY <1>2, <1>12, <1>13, FromTheLeft
<1>15. f \in [0..N -> D]
  BY <1>10, <1>14 DEF T
<1>16. \A i \in 1..N : f[i] = FormStep(f[i - 1], q[i])
  BY <1>11, <1>a
<1> QED BY <1>1, <1>11, <1>15, <1>16 DEF N, D, base

(* A form without empty values is taken apart into the pairs it was built    *)
(* from.                                                                     *)
LEMMA FormAgain ==
  ASSUME NEW q \in Seq(Solid)
  PROVE  parse_formdata(build_formdata(q)) = q
<1> DEFINE d == "&"
           o == <<d>>
           N == Len(q)
           S == AllChars
           es == [k \in 1..N |-> Entry(q[k])]
<1>0. d \in S /\ o \in Seq(S) /\ N \in Nat /\ <<>> \in Seq(S)
  BY DEF AllChars, UriChars
<1>1. PICK f \in [0..N -> Seq(S)] :
        /\ f[0] = <<>> /\ \A i \in 1..N : f[i] = FormStep(f[i - 1], q[i])
        /\ build_formdata(q) = f[N]
  BY BuildIs
<1>2. \A k \in 1..N : /\ q[k] \in Solid /\ Entry(q[k]) \in Seq(S) /\ Entry(q[k]) # <<>>
                      /\ Free(Entry(q[k]), {d}) /\ \A rest : Pair(Entry(q[k]), rest) = q[k]
  <2>1. \A k \in 1..N : q[k] \in Solid
    BY ElementOfSeq
  <2> QED BY <2>1, EntryIs
<1>3. es \in Seq(Seq(S)) /\ Len(es) = N /\ \A k \in 1..N : es[k] = Entry(q[k])
  <2> HIDE DEF N, S
  <2>1. es \in [1..N -> Seq(S)]
    BY <1>2
  <2> QED BY <2>1, <1>0
<1>4. Split(<<>>, d) = <<>>
  <2> DEFINE e == <<>>
  <2>1. e \in Seq(S) /\ Free(e, {d})
    BY DEF Free
  <2> HIDE DEF e
  <2>2. Split(e, d) = Grown(<<>>, e)
    BY <2>1, SplitWhole
  <2>3. Grown(<<>>, <<>>) = <<>>
    BY DEF Grown
  <2> QED BY <2>2, <2>3 DEF e
<1> HIDE DEF es
<1> DEFINE Done(i) == Split(f[i], d) = SubSeq(es, 1, i) /\ (f[i] = <<>> <=> i = 0)
           T == {i \in 0..N : Done(i)}
<1>5. 0 \in T
  <2>1. SubSeq(es, 1, 0) = <<>>
    BY SubSeqEmpty
  <2> QED BY <2>1, <1>0, <1>1, <1>4
<1>6. ASSUME NEW i \in 1..N, i - 1 \in T PROVE i \in T
  <2> DEFINE g == f[i - 1]
             e == Entry(q[i])
  <2>1. Split(g, d) = SubSeq(es, 1, i - 1) /\ (g = <<>> <=> i - 1 = 0)
    BY <1>6
  <2>2. g \in Seq(S) /\ i \in 0..N
    BY <1>0
  <2>3. q[i] \in Solid /\ e \in Seq(S) /\ e # <<>> /\ Free(e, {d}) /\ es[i] = e
    BY <1>2, <1>3
  <2> HIDE DEF g, e
  <2>4. f[i] = IF g = <<>> THEN e ELSE g \o o \o e
    BY <1>1, <2>2, <2>3, FormStepIs DEF g, e
  <2>5. Split(f[i], d) = Append(SubSeq(es, 1, i - 1), e)
    <3>1. CASE g = <<>>
      <4>1. i - 1 = 0 /\ f[i] = e
        BY <3>1, <2>1, <2>4
      <4>2. Split(e, d) = Grown(<<>>, e)
        BY <2>3, SplitWhole
      <4>3. Grown(<<>>, e) = Append(<<>>, e)
        BY <2>3 DEF Grown
      <4>4. SubSeq(es, 1, i - 1) = <<>>
        BY <3>1, <2>1, <1>4
      <4> QED BY <4>1, <4>2, <4>3, <4>4
    <3>2. CASE g # <<>>
      <4>1. f[i] = g \o o \o e
        BY <3>2, <2>4
      <4>2. Split(g \o <<d>> \o e, d) = Grown(Split(g, d), e)
        BY <1>0, <2>2, <2>3, SplitGrows
      <4>3. Grown(Split(g, d), e) = Append(Split(g, d), e)
        BY <2>3 DEF Grown
      <4> QED BY <4>1, <4>2, <4>3, <2>1
    <3> QED BY <3>1, <3>2
  <2>6. Append(SubSeq(es, 1, i - 1), es[i]) = SubSeq(es, 1, i)
    <3>1. i \in 1..Len(es)
      BY <1>3
    <3> QED BY <3>1, <1>3, AppendPart
  <2>7. f[i] # <<>>
    <3>1. CASE g # <<>>
      <4>1. o \in Seq(S) /\ Len(o) = 1
        BY <1>0
      <4> DEFINE w == g \o o
      <4>2. w \in Seq(S) /\ Joined(g, o, w)
        BY <1>0, <2>2, JoinedIs
      <4> HIDE DEF w, o
      <4>3. w \o e \in Seq(S) /\ Joined(w, e, w \o e)
        BY <2>3, <4>2, JoinedIs
      <4>4. Len(w \o e) # 0
        BY <4>1, <4>2, <4>3 DEF Joined
      <4>5. w \o e # <<>>
        BY <4>4
      <4>6. f[i] = w \o e
        BY <3>1, <2>4 DEF w
      <4> QED BY <4>5, <4>6
    <3>2. CASE g = <<>>
      BY <3>2, <2>3, <2>4
    <3> QED BY <3>1, <3>2
  <2>8. Done(i)
    <3>1. i # 0
      BY <1>0
    <3>2. Split(f[i], d) = SubSeq(es, 1, i)
      BY <2>3, <2>5, <2>6
    <3> QED BY <3>1, <3>2, <2>7, Zenon
  <2> HIDE DEF Done
  <2> QED BY <2>2, <2>8
<1> HIDE DEF T, N
<1>7. \A i \in 0..N : i \in T
  BY <1>0, <1>5, <1>6, FromTheLeft
<1>8. N \in T
  BY <1>0, <1>7
<1>9. Split(f[N], d) = es
  <2>1. SubSeq(es, 1, N) = es
    BY <1>3, SubSeqFull
  <2> QED BY <2>1, <1>8 DEF T
<1> DEFINE rest(k) == Rest(f[N], d, k)
<1>10. parse_formdata(f[N]) = [k \in 1..N |-> Pair(es[k], rest(k))]
  <2>1. parse_formdata(f[N]) = [k \in 1..Len(es) |-> Pair(es[k], rest(k))]
    BY <1>9 DEF parse_formdata
  <2> QED BY <2>1, <1>3
<1> HIDE DEF rest
<1>11. [k \in 1..N |-> Pair(es[k], rest(k))] = [k \in 1..N |-> q[k]]
  BY <1>2, <1>3
<1>12. q = [k \in 1..N |-> q[k]]
  BY DEF N
<1> QED BY <1>1, <1>10, <1>11, <1>12

(* What is behind a part is a part of the data.                              *)
LEMMA BehindPart ==
  ASSUME NEW s \in Seq(UriChars), NEW d, NEW i
  PROVE  Rest(s, d, i) \in Seq(UriChars)
<1> DEFINE n == Len(s)
           K == {k \in 0..n : k < n => s[k + 1] = d /\ Len(Split(SubSeq(s, 1, k), d)) >= i}
           m == Min(K)
<1>1. n \in K
  <2>1. n \in 0..n /\ ~(n < n)
    OBVIOUS
  <2> QED BY <2>1
<1>2. K \in SUBSET Nat /\ K \subseteq 0..n
  OBVIOUS
<1>3. Rest(s, d, i) = Behind(s, m)
  BY DEF Rest
<1> HIDE DEF K
<1>4. \E x \in K : \A y \in K : x <= y
  BY <1>1, <1>2, LeastNumber
<1>5. m \in 0..n
  BY <1>2, <1>4 DEF Min
<1> HIDE DEF m
<1> QED BY <1>3, <1>5, BehindIs

LEMMA PairIs ==
  ASSUME NEW t \in Texts, NEW rest \in Seq(UriChars)
  PROVE  Pair(t, rest) \in Entries
<1> DEFINE chars == {"="}
           e == FirstOf(t, chars)
           u == t \o rest
           x == Before(t, e)
           y == Behind(t, e)
           k == decode(x, u)
           v == IF e = 0 THEN <<>> ELSE decode(y, rest)
<1>1. t \in Seq(UriChars) /\ t # <<>>
  BY DEF Texts
<1>2. x \in Seq(UriChars) /\ y \in Seq(UriChars)
  <2> HIDE DEF chars
  <2> QED BY <1>1, CutOff
<1>3. u \in Seq(UriChars) /\ u # <<>>
  <2>1. u \in Seq(UriChars) /\ Len(t) \in Nat /\ Len(rest) \in Nat /\ Len(u) = Len(t) + Len(rest)
    BY <1>1, JoinIs
  <2>2. Len(t) # 0
    BY <1>1, EmptySeq
  <2> HIDE DEF u
  <2>3. Len(u) # 0
    BY <2>1, <2>2
  <2> QED BY <2>1, <2>3
<1>4. Pair(t, rest) = <<k, v>>
  BY DEF Pair
<1> HIDE DEF u, x, y, e
<1>5. k \in Texts
  <2>1. CASE x = <<>>
    BY <2>1, <1>3, EncodeIs DEF decode, Texts
  <2>2. CASE x # <<>>
    BY <2>2, <1>2, EncodeIs DEF decode, Texts
  <2> QED BY <2>1, <2>2
<1>6. v \in Seq(UriChars)
  <2>1. decode(y, rest) \in Seq(UriChars)
    BY <1>2, EncodeIs DEF decode
  <2> QED BY <2>1
<1> HIDE DEF k, v
<1> QED BY <1>4, <1>5, <1>6 DEF Entries

LEMMA ParsedEntries ==
  ASSUME NEW s \in Seq(UriChars)
  PROVE  parse_formdata(s) \in Seq(Entries)
<1> DEFINE d == "&"
           parts == Split(s, d)
           n == Len(parts)
           pair(i) == Pair(parts[i], Rest(s, d, i))
<1>0. d \in UriChars
  BY DEF UriChars
<1>2. parse_formdata(s) = [i \in 1..n |-> pair(i)]
  BY DEF parse_formdata
<1> HIDE DEF d
<1>1. parts \in Seq(Seq(UriChars)) /\ \A i \in 1..n : parts[i] # <<>>
  BY <1>0, SplitPieces DEF Pieces, Kept
<1> HIDE DEF parts
<1>3. n \in Nat
  BY <1>1
<1>4. ASSUME NEW i \in 1..n PROVE pair(i) \in Entries
  <2>1. parts[i] \in Texts
    BY <1>1, ElementOfSeq DEF Texts
  <2>2. Rest(s, d, i) \in Seq(UriChars)
    BY BehindPart
  <2> QED BY <2>1, <2>2, PairIs
<1> HIDE DEF n, pair
<1>5. [i \in 1..n |-> pair(i)] \in [1..n -> Entries]
  BY <1>4
<1> QED BY <1>2, <1>3, <1>5

-------------------------------------------------------------------------------
(* The host and the port.                                                     *)
LEMMA FreeJoin ==
  ASSUME NEW S, NEW x \in Seq(S), NEW y \in Seq(S), NEW chars
  PROVE  Free(x \o y, chars) <=> Free(x, chars) /\ Free(y, chars)
<1> DEFINE z == x \o y
<1>1. z \in Seq(S) /\ Joined(x, y, z)
  BY JoinedIs
<1> HIDE DEF z
<1>2. ASSUME Free(z, chars) PROVE Free(x, chars) /\ Free(y, chars)
  <2>1. ASSUME NEW k \in 1..Len(x) PROVE x[k] \notin chars
    <3>1. k \in 1..Len(z) /\ z[k] = x[k]
      BY <1>1 DEF Joined
    <3> QED BY <3>1, <1>2 DEF Free
  <2>2. ASSUME NEW k \in 1..Len(y) PROVE y[k] \notin chars
    <3>1. Len(x) + k \in 1..Len(z) /\ z[Len(x) + k] = y[k]
      BY <1>1 DEF Joined
    <3> QED BY <3>1, <1>2 DEF Free
  <2> QED BY <2>1, <2>2 DEF Free
<1>3. ASSUME Free(x, chars), Free(y, chars) PROVE Free(z, chars)
  <2> SUFFICES ASSUME NEW k \in 1..Len(z) PROVE z[k] \notin chars
    BY DEF Free
  <2>1. CASE k <= Len(x)
    <3>1. k \in 1..Len(x)
      BY <2>1, <1>1 DEF Joined
    <3>2. z[k] = x[k]
      BY <3>1, <1>1 DEF Joined
    <3> QED BY <3>1, <3>2, <1>3 DEF Free
  <2>2. CASE k > Len(x)
    <3> DEFINE j == k - Len(x)
    <3>1. j \in 1..Len(y) /\ Len(x) + j = k
      BY <2>2, <1>1 DEF Joined
    <3> HIDE DEF j
    <3>2. z[k] = y[j]
      BY <3>1, <1>1 DEF Joined
    <3> QED BY <3>1, <3>2, <1>3 DEF Free
  <2>3. k <= Len(x) \/ k > Len(x)
    BY <1>1 DEF Joined
  <2> QED BY <2>1, <2>2, <2>3
<1> QED BY <1>2, <1>3 DEF z

(* A text that is a part of another one has no other characters.             *)
LEMMA FreeWithin ==
  ASSUME NEW S, NEW s \in Seq(S), NEW i \in Nat, NEW t, Len(t) \in Nat, i + Len(t) <= Len(s),
         \A k \in 1..Len(t) : t[k] = s[i + k]
  PROVE  \A chars : Free(s, chars) => Free(t, chars)
<1>1. Len(s) \in Nat
  OBVIOUS
<1>2. \A k \in 1..Len(t) : i + k \in 1..Len(s)
  BY <1>1
<1> QED BY <1>2 DEF Free

-------------------------------------------------------------------------------
Bracketed(h) == h # <<>> /\ h[1] = "["
PortText(p) == IF p = -1 THEN <<>> ELSE <<":">> \o DigitsOf(p)

(* What a host is that was read, and the port behind it.                     *)
HostPort(host, port) ==
  /\ host \in Seq(UriChars) /\ (port = -1 \/ port \in Ports)
  /\ Bracketed(host) => host[Len(host)] = "]" /\ \A k \in 1..(Len(host) - 1) : host[k] # "]"
  /\ ~Bracketed(host) /\ port = -1 => Free(host, {":"})

LEMMA PortTextIs ==
  ASSUME NEW p, p = -1 \/ p \in Ports
  PROVE  /\ PortText(p) \in Seq(UriChars)
         /\ p = -1 => PortText(p) = <<>>
         /\ p # -1 => /\ p \in Ports /\ PortText(p) = <<":">> \o DigitsOf(p) /\ PortText(p) # <<>>
                      /\ DigitsOf(p) \in Seq(UriChars) /\ Free(DigitsOf(p), {":"})
                      /\ Len(PortText(p)) >= 1 /\ PortText(p)[1] = ":"
         /\ \A k \in 1..Len(PortText(p)) : PortText(p)[k] \in {":", Digit}
<1>1. CASE p = -1
  <2>1. PortText(p) = <<>>
    BY <1>1 DEF PortText
  <2> DEFINE t == PortText(p)
  <2>2. t = <<>> /\ Len(t) = 0
    BY <2>1
  <2>3. t \in Seq(UriChars)
    BY <2>2
  <2>4. p \notin Ports
    BY <1>1 DEF Ports
  <2> HIDE DEF t
  <2>5. \A k \in 1..Len(t) : t[k] \in {":", Digit}
    BY <2>2
  <2> QED BY <1>1, <2>2, <2>3, <2>5 DEF t
<1>2. CASE p # -1
  <2> DEFINE D == DigitsOf(p)
             o == <<":">>
             z == o \o D
  <2>1. D \in Seq(UriChars) /\ \A k \in 1..Len(D) : D[k] = Digit
    BY <1>2, PortAgain
  <2>2. o \in Seq(UriChars) /\ Len(o) = 1 /\ o[1] = ":" /\ 1 \in 1..Len(o)
    BY DEF UriChars
  <2> HIDE DEF o, D
  <2>3. z \in Seq(UriChars) /\ Joined(o, D, z)
    BY <2>1, <2>2, JoinedIs
  <2>4. PortText(p) = z
    BY <1>2 DEF PortText, o, D
  <2> HIDE DEF z
  <2>5. Len(z) = 1 + Len(D) /\ Len(D) \in Nat /\ z[1] = ":"
    BY <2>2, <2>3 DEF Joined
  <2>6. ASSUME NEW k \in 1..Len(z) PROVE z[k] \in {":", Digit}
    <3>1. CASE k = 1
      BY <3>1, <2>5
    <3>2. CASE k # 1
      <4> DEFINE j == k - 1
      <4>1. j \in 1..Len(D) /\ 1 + j = k
        BY <3>2, <2>5
      <4> HIDE DEF j
      <4>2. z[k] = D[j]
        BY <4>1, <2>2, <2>3 DEF Joined
      <4> QED BY <4>1, <4>2, <2>1
    <3> QED BY <3>1, <3>2
  <2>7. Free(D, {":"})
    BY <2>1 DEF Free, Digit
  <2>8. z # <<>>
    BY <2>5
  <2>9. p \in Ports
    BY <1>2
  <2> HIDE DEF Ports
  <2> QED BY <1>2, <2>1, <2>3, <2>4, <2>5, <2>6, <2>7, <2>8, <2>9 DEF z, o, D
<1> QED BY <1>1, <1>2

LEMMA HostAgain ==
  ASSUME NEW host, NEW port, HostPort(host, port), NEW H, H = host \o PortText(port)
  PROVE  /\ H \in Seq(UriChars) /\ (Bracketed(H) <=> Bracketed(host))
         /\ PortColon(H) = IF port = -1 THEN 0 ELSE Len(host) + 1
         /\ Bracketed(H) => /\ FirstOf(H, {"]"}) = Len(host) /\ Len(host) # 0
                            /\ SubSeq(H, 1, Len(host)) = host
         /\ ~Bracketed(H) => Before(H, PortColon(H)) = host
         /\ port # -1 => Behind(H, Len(host) + 1) = DigitsOf(port)
<1> DEFINE P == PortText(port)
           l == Len(host)
<1>1. /\ host \in Seq(UriChars) /\ (port = -1 \/ port \in Ports)
      /\ Bracketed(host) => host[l] = "]" /\ \A k \in 1..(l - 1) : host[k] # "]"
      /\ ~Bracketed(host) /\ port = -1 => Free(host, {":"})
  BY DEF HostPort
<1>2. /\ P \in Seq(UriChars)
      /\ port = -1 => P = <<>>
      /\ port # -1 => /\ P = <<":">> \o DigitsOf(port) /\ P # <<>>
                      /\ DigitsOf(port) \in Seq(UriChars) /\ Free(DigitsOf(port), {":"})
                      /\ Len(P) >= 1 /\ P[1] = ":"
  BY <1>1, PortTextIs
<1>3. H = host \o P
  OBVIOUS
<1> HIDE DEF P
<1>4. H \in Seq(UriChars) /\ Joined(host, P, H)
  BY <1>1, <1>2, <1>3, JoinedIs
<1>5. /\ l \in Nat /\ Len(P) \in Nat /\ Len(H) = l + Len(P)
      /\ \A k \in 1..l : H[k] = host[k]
      /\ \A k \in 1..Len(P) : H[l + k] = P[k]
  BY <1>4 DEF Joined
<1>6. Bracketed(H) <=> Bracketed(host)
  <2>1. CASE host = <<>>
    <3>1. H = P
      BY <2>1, <1>2, <1>3, ConcatEmptySeq
    <3>2. ~Bracketed(P)
      BY <1>2 DEF Bracketed
    <3> QED BY <2>1, <3>1, <3>2 DEF Bracketed
  <2>2. CASE host # <<>>
    <3>1. l # 0
      BY <2>2, <1>1, EmptySeq
    <3>2. 1 \in 1..l
      BY <3>1, <1>5
    <3>3. H[1] = host[1] /\ Len(H) # 0
      BY <3>1, <3>2, <1>5
    <3>4. H # <<>>
      BY <3>3
    <3> QED BY <2>2, <3>3, <3>4 DEF Bracketed
  <2> QED BY <2>1, <2>2
<1>7. port # -1 => Behind(H, l + 1) = DigitsOf(port)
  <2> SUFFICES ASSUME port # -1 PROVE Behind(H, l + 1) = DigitsOf(port)
    OBVIOUS
  <2> DEFINE o == <<":">>
             w == host \o o
             D == DigitsOf(port)
  <2>1. o \in Seq(UriChars) /\ Len(o) = 1
    BY DEF UriChars
  <2>2. P = o \o D /\ D \in Seq(UriChars)
    BY <1>2
  <2> HIDE DEF o, D, l
  <2>3. w \in Seq(UriChars) /\ Joined(host, o, w)
    BY <1>1, <2>1, JoinedIs
  <2>4. w \o D = H
    BY <1>1, <1>3, <2>1, <2>2, ConcatAssociative, SMTT(30)
  <2> HIDE DEF w
  <2>5. Behind(w \o D, Len(w)) = D
    BY <2>2, <2>3, BehindJoin
  <2>6. Len(w) = l + 1
    BY <2>1, <2>3 DEF Joined, l
  <2> QED BY <2>4, <2>5, <2>6 DEF D
<1>8. CASE Bracketed(host)
  <2>1. l # 0
    <3>1. host # <<>>
      BY <1>8 DEF Bracketed
    <3> QED BY <3>1, <1>1, EmptySeq
  <2>2. FirstOf(H, {"]"}) = l
    <3> DEFINE chars == {"]"}
    <3>1. H[l] \in chars /\ l \in 1..Len(H)
      BY <2>1, <1>1, <1>5, <1>8
    <3>2. \A k \in 1..(l - 1) : H[k] \notin chars
      <4>1. \A k \in 1..(l - 1) : k \in 1..l
        BY <1>5
      <4> QED BY <4>1, <1>1, <1>5, <1>8
    <3> HIDE DEF chars, l
    <3>3. IsFirst(H, chars, l)
      BY <3>1, <3>2 DEF IsFirst
    <3>4. FirstOf(H, chars) = l
      BY <1>4, <3>3, FirstUnique
    <3> QED BY <3>4 DEF chars
  <2>3. SubSeq(H, 1, l) = host
    <3>1. l \in 1..Len(host) /\ 1 \in 1..Len(host)
      BY <2>1, <1>5
    <3>2. SubSeq(host \o P, 1, l) = SubSeq(host, 1, l)
      <4> HIDE DEF l
      <4> QED BY <3>1, <1>1, <1>2, SubSeqOfConcat1
    <3>3. SubSeq(host, 1, l) = host
      BY <1>1, SubSeqFull
    <3> QED BY <3>2, <3>3, <1>3
  <2>4. PortColon(H) = IF port = -1 THEN 0 ELSE l + 1
    <3>0. H # <<>> /\ H[1] = "["
      BY <1>6, <1>8 DEF Bracketed
    <3>1. PortColon(H) = IF l < Len(H) /\ H[l + 1] = ":" THEN l + 1 ELSE 0
      <4> HIDE DEF l
      <4> QED BY <3>0, <2>2 DEF PortColon
    <3>2. CASE port = -1
      <4>1. Len(P) = 0
        BY <3>2, <1>2
      <4>2. ~(l < Len(H))
        BY <4>1, <1>5
      <4> QED BY <3>1, <3>2, <4>2
    <3>3. CASE port # -1
      <4>1. Len(P) >= 1 /\ P[1] = ":"
        BY <3>3, <1>2
      <4>2. l < Len(H) /\ 1 \in 1..Len(P)
        BY <4>1, <1>5
      <4>3. H[l + 1] = ":"
        BY <4>1, <4>2, <1>5
      <4> QED BY <3>1, <3>3, <4>2, <4>3
    <3> QED BY <3>2, <3>3
  <2> QED BY <1>4, <1>6, <1>7, <1>8, <2>1, <2>2, <2>3, <2>4
<1>9. CASE ~Bracketed(host)
  <2> DEFINE chars == {":"}
  <2>1. PortColon(H) = LastOf(H, chars)
    <3>1. ~Bracketed(H)
      BY <1>6, <1>9
    <3> QED BY <3>1 DEF PortColon, Bracketed
  <2>2. CASE port = -1
    <3>1. H = host
      BY <2>2, <1>1, <1>2, <1>3, ConcatEmptySeq
    <3>2. Free(host, chars)
      BY <2>2, <1>1, <1>9
    <3> HIDE DEF chars
    <3>3. IsLast(host, chars, 0)
      BY <3>2 DEF IsLast
    <3>4. LastOf(host, chars) = 0
      BY <3>3, <1>1, LastUnique
    <3>5. Before(H, 0) = host
      BY <3>1 DEF Before
    <3> QED BY <1>4, <1>6, <1>7, <1>9, <2>1, <2>2, <3>1, <3>4, <3>5
  <2>3. CASE port # -1
    <3> DEFINE D == DigitsOf(port)
               c == ":"
    <3>1. P = <<c>> \o D /\ D \in Seq(UriChars) /\ Free(D, chars) /\ c \in chars /\ c \in UriChars /\ P # <<>>
      BY <2>3, <1>2 DEF UriChars
    <3> HIDE DEF D, c, chars, l
    <3>2. LastOf(host \o (<<c>> \o D), chars) = Len(host) + 1
      BY <3>1, <1>1, LastJoin
    <3>3. LastOf(H, chars) = l + 1
      BY <3>1, <3>2, <1>3 DEF l
    <3>4. Before(host \o P, Len(host) + 1) = host
      BY <3>1, <1>1, <1>2, BeforeJoin
    <3>5. Before(H, l + 1) = host
      BY <3>4, <1>3 DEF l
    <3> QED BY <1>4, <1>6, <1>7, <1>9, <2>1, <2>3, <3>3, <3>5 DEF l
  <2> QED BY <2>2, <2>3
<1> QED BY <1>8, <1>9

(* What a text that was cut before its e-th character has.                   *)
LEMMA PrefixFree ==
  ASSUME NEW S, NEW s \in Seq(S), NEW t \in Seq(S), Len(t) <= Len(s), \A k \in 1..Len(t) : t[k] = s[k]
  PROVE  \A chars : Free(s, chars) => Free(t, chars)
<1>1. Len(t) \in Nat /\ Len(s) \in Nat
  OBVIOUS
<1>2. \A k \in 1..Len(t) : k \in 1..Len(s)
  BY <1>1
<1> QED BY <1>2 DEF Free

HostOf(h) == IF Bracketed(h) THEN SubSeq(h, 1, FirstOf(h, {"]"})) ELSE Before(h, PortColon(h))

LEMMA BracketIs ==
  ASSUME NEW h \in Seq(UriChars), NEW closing, closing = FirstOf(h, {"]"}), closing # 0, Bracketed(h),
         NEW host, host = SubSeq(h, 1, closing)
  PROVE  /\ host \in Seq(UriChars) /\ host[Len(host)] = "]" /\ Bracketed(host)
         /\ \A k \in 1..(Len(host) - 1) : host[k] # "]"
         /\ \A chars : Free(h, chars) => Free(host, chars)
<1> DEFINE cs == {"]"}
           o == 0
<1>1. IsFirst(h, cs, closing)
  BY FirstOfIs
<1>2. closing \in 1..Len(h) /\ h[closing] = "]" /\ \A k \in 1..(closing - 1) : h[k] # "]"
  BY <1>1 DEF IsFirst
<1>3. Len(h) \in Nat
  OBVIOUS
<1>4. o \in Nat /\ closing \in Nat /\ o <= closing /\ closing <= Len(h) /\ host = SubSeq(h, o + 1, closing)
  BY <1>2, <1>3
<1>5. o = 0
  OBVIOUS
<1> HIDE DEF o, cs
<1>6. /\ host \in Seq(UriChars) /\ Len(host) = closing - o
      /\ \A k \in 1..(closing - o) : host[k] = h[o + k]
  BY <1>4, PartIs
<1>7. Len(host) = closing /\ \A k \in 1..closing : host[k] = h[k]
  BY <1>4, <1>5, <1>6
<1>8. closing \in 1..closing /\ 1 \in 1..closing /\ \A k \in 1..(closing - 1) : k \in 1..closing
  BY <1>2, <1>3
<1>9. host[closing] = "]" /\ \A k \in 1..(closing - 1) : host[k] # "]"
  BY <1>2, <1>7, <1>8
<1>10. h[1] = "["
  BY DEF Bracketed
<1>11. host # <<>> /\ host[1] = "["
  <2>1. host[1] = "["
    BY <1>7, <1>8, <1>10
  <2>2. Len(host) # 0
    BY <1>2, <1>7
  <2>3. host # <<>>
    BY <2>2
  <2> QED BY <2>1, <2>3
<1>12. \A chars : Free(h, chars) => Free(host, chars)
  <2>1. Len(host) <= Len(h) /\ \A k \in 1..Len(host) : host[k] = h[k]
    BY <1>2, <1>7
  <2> QED BY <1>6, <2>1, PrefixFree
<1> QED BY <1>6, <1>7, <1>9, <1>11, <1>12 DEF Bracketed

LEMMA HostIs ==
  ASSUME NEW h \in Seq(UriChars), ~(Bracketed(h) /\ FirstOf(h, {"]"}) = 0),
         NEW port, port = -1 \/ port \in Ports, (port = -1) <=> (PortColon(h) = 0)
  PROVE  HostPort(HostOf(h), port) /\ \A chars : Free(h, chars) => Free(HostOf(h), chars)
<1> DEFINE host == HostOf(h)
<1>1. CASE Bracketed(h)
  <2> DEFINE closing == FirstOf(h, {"]"})
  <2>1. host = SubSeq(h, 1, closing)
    BY <1>1 DEF HostOf
  <2>2. closing # 0
    BY <1>1
  <2>0. closing = FirstOf(h, {"]"})
    OBVIOUS
  <2> HIDE DEF host, closing
  <2>3. /\ host \in Seq(UriChars) /\ host[Len(host)] = "]" /\ Bracketed(host)
        /\ \A k \in 1..(Len(host) - 1) : host[k] # "]"
        /\ \A chars : Free(h, chars) => Free(host, chars)
    BY <1>1, <2>0, <2>1, <2>2, BracketIs, ZenonT(40)
  <2>4. HostPort(host, port)
    BY <2>3 DEF HostPort
  <2> QED BY <2>3, <2>4 DEF host
<1>2. CASE ~Bracketed(h)
  <2> DEFINE cs == {":"}
             colon == LastOf(h, cs)
  <2>1. PortColon(h) = colon
    BY <1>2 DEF PortColon, Bracketed
  <2>2. host = Before(h, colon)
    BY <1>2, <2>1 DEF HostOf
  <2>3. IsLast(h, cs, colon)
    BY LastOfIs
  <2>4. Len(h) \in Nat
    OBVIOUS
  <2> HIDE DEF host, colon
  <2>5. CASE colon = 0
    <3>1. host = h
      BY <2>2, <2>5 DEF Before
    <3>2. Free(h, {":"})
      BY <2>3, <2>5 DEF IsLast
    <3>3. HostPort(h, port)
      BY <3>2, <1>2 DEF HostPort
    <3> QED BY <3>1, <3>3 DEF host
  <2>6. CASE colon # 0
    <3> HIDE DEF cs
    <3>1. colon \in 1..Len(h)
      BY <2>3, <2>6 DEF IsLast
    <3>2. /\ host \in Seq(UriChars) /\ Len(host) = colon - 1
          /\ \A k \in 1..(colon - 1) : host[k] = h[k]
      BY <3>1, <2>2, BeforeIs
    <3>3. ~Bracketed(host)
      <4> SUFFICES ASSUME host # <<>>, host[1] = "[" PROVE FALSE
        BY DEF Bracketed
      <4>1. Len(host) # 0
        BY <3>2, EmptySeq
      <4>2. 1 \in 1..(colon - 1)
        BY <4>1, <3>1, <3>2
      <4>3. h[1] = "["
        BY <4>2, <3>2
      <4>4. Len(h) # 0
        BY <3>1, <2>4
      <4>5. h # <<>>
        BY <4>4
      <4> QED BY <4>3, <4>5, <1>2 DEF Bracketed
    <3>4. Len(host) <= Len(h) /\ \A k \in 1..Len(host) : host[k] = h[k]
      BY <3>1, <3>2, <2>4
    <3>5. \A chars : Free(h, chars) => Free(host, chars)
      BY <3>2, <3>4, PrefixFree
    <3>6. port # -1
      BY <2>1, <2>6
    <3>7. HostPort(host, port)
      BY <3>2, <3>3, <3>6 DEF HostPort
    <3> QED BY <3>5, <3>7 DEF host
  <2> QED BY <2>5, <2>6
<1> QED BY <1>1, <1>2

LEMMA NoPort == \A q \in Ports : q # -1
BY DEF Ports

(* What parse finds between "//" and the path.                               *)
AuthorityParts(a, v) ==
  /\ v = [auth |-> v.auth, host |-> v.host, port |-> v.port, fails |-> ""]
  /\ v.auth \in Seq(UriChars) /\ Free(v.auth, {"@"}) /\ HostPort(v.host, v.port)
  /\ \A chars : Free(a, chars) => Free(v.auth, chars) /\ Free(v.host, chars)

User(a) == IF FirstOf(a, {"@"}) = 0 THEN <<>> ELSE Before(a, FirstOf(a, {"@"}))
HostText(a) == Behind(a, FirstOf(a, {"@"}))
PortOf(h) == IF PortColon(h) = 0 \/ PortThrows(Behind(h, PortColon(h))) THEN -1 ELSE Port(Behind(h, PortColon(h)))

LEMMA AuthorityFields ==
  ASSUME NEW a
  PROVE  Authority(a) =
           [auth |-> User(a), host |-> HostOf(HostText(a)), port |-> PortOf(HostText(a)),
            fails |-> IF Bracketed(HostText(a)) /\ FirstOf(HostText(a), {"]"}) = 0 THEN "invalid"
                      ELSE IF /\ PortColon(HostText(a)) # 0
                              /\ PortThrows(Behind(HostText(a), PortColon(HostText(a)))) THEN "throws" ELSE ""]
BY Zenon DEF Authority, User, HostText, HostOf, PortOf, Bracketed

LEMMA UserIs ==
  ASSUME NEW a \in Seq(UriChars)
  PROVE  /\ User(a) \in Seq(UriChars) /\ Free(User(a), {"@"}) /\ HostText(a) \in Seq(UriChars)
         /\ \A chars : Free(a, chars) => Free(User(a), chars) /\ Free(HostText(a), chars)
<1> DEFINE cs == {"@"}
           at == FirstOf(a, cs)
           b == Before(a, at)
           h == Behind(a, at)
           auth == User(a)
<1>1. at = FirstOf(a, cs)
  OBVIOUS
<1>2. auth = IF at = 0 THEN <<>> ELSE b
  BY DEF User
<1>3. h = HostText(a)
  BY DEF HostText
<1>4. b = Before(a, at) /\ h = Behind(a, at)
  OBVIOUS
<1> HIDE DEF cs, at, b, h, auth
<1>5. /\ at \in 0..Len(a) /\ b \in Seq(UriChars) /\ h \in Seq(UriChars) /\ Free(b, cs)
      /\ Len(b) \in 0..Len(a) /\ \A k \in 1..Len(b) : b[k] = a[k]
  BY <1>1, <1>4, CutOff
<1>6. auth \in Seq(UriChars) /\ Free(auth, cs) /\ \A chars : Free(a, chars) => Free(auth, chars)
  <2>1. CASE at = 0
    <3>1. auth = <<>> /\ auth \in Seq(UriChars) /\ Len(auth) = 0
      BY <1>2, <2>1
    <3>2. \A chars : Free(auth, chars)
      BY <3>1 DEF Free
    <3> QED BY <3>1, <3>2
  <2>2. CASE at # 0
    <3>1. auth = b
      BY <1>2, <2>2
    <3>2. Len(b) <= Len(a)
      BY <1>5
    <3>3. \A chars : Free(a, chars) => Free(b, chars)
      BY <3>2, <1>5, PrefixFree
    <3> QED BY <3>1, <3>3, <1>5
  <2> QED BY <2>1, <2>2
<1>7. \A chars : Free(a, chars) => Free(h, chars)
  <2>1. Len(h) = Len(a) - at /\ \A k \in 1..(Len(a) - at) : h[k] = a[at + k]
    BY <1>4, <1>5, BehindIs
  <2>2. at \in Nat /\ Len(h) \in Nat /\ at + Len(h) <= Len(a) /\ Len(a) \in Nat
    BY <1>5, <2>1
  <2>3. \A k \in 1..Len(h) : h[k] = a[at + k]
    BY <2>1
  <2> QED BY <2>2, <2>3, FreeWithin
<1> QED BY <1>3, <1>5, <1>6, <1>7 DEF auth, cs

LEMMA AuthorityIs ==
  ASSUME NEW a \in Seq(UriChars), Authority(a).fails = ""
  PROVE  AuthorityParts(a, Authority(a))
<1> DEFINE v == Authority(a)
           h == HostText(a)
           colon == PortColon(h)
           throws == PortThrows(Behind(h, colon))
           invalid == Bracketed(h) /\ FirstOf(h, {"]"}) = 0
           auth == User(a)
           host == HostOf(h)
           port == PortOf(h)
<1>1. v = [auth |-> auth, host |-> host, port |-> port,
           fails |-> IF invalid THEN "invalid" ELSE IF colon # 0 /\ throws THEN "throws" ELSE ""]
  BY AuthorityFields
<1>2. h \in Seq(UriChars) /\ auth \in Seq(UriChars) /\ Free(auth, {"@"})
  BY UserIs
<1>3. port = IF colon = 0 \/ throws THEN -1 ELSE Port(Behind(h, colon))
  BY DEF PortOf
<1>4. \A chars : Free(a, chars) => Free(auth, chars) /\ Free(h, chars)
  BY UserIs
<1>5. v.fails = ""
  OBVIOUS
<1>6. ~throws => Port(Behind(h, colon)) \in Ports
  BY PortIs
<1>7. ~invalid <=> ~(Bracketed(h) /\ FirstOf(h, {"]"}) = 0)
  OBVIOUS
<1> HIDE DEF v, auth, host, port, invalid, throws, colon
<1>8. ~invalid /\ ~(colon # 0 /\ throws)
  BY <1>1, <1>5
<1>9. v = [auth |-> auth, host |-> host, port |-> port, fails |-> ""]
  BY <1>1, <1>8
<1>10. (port = -1 \/ port \in Ports) /\ ((port = -1) <=> (colon = 0))
  <2>1. CASE colon = 0
    BY <1>3, <2>1
  <2>2. CASE colon # 0
    <3>1. ~throws
      BY <1>8, <2>2
    <3>2. port \in Ports
      BY <1>3, <1>6, <2>2, <3>1
    <3>4. port # -1
      BY <3>2, NoPort
    <3> QED BY <2>2, <3>2, <3>4
  <2> QED BY <2>1, <2>2
<1>11. colon = PortColon(h) /\ host = HostOf(h)
  BY DEF colon, host
<1> HIDE DEF h
<1>12. HostPort(host, port) /\ \A chars : Free(h, chars) => Free(host, chars)
  BY <1>2, <1>7, <1>8, <1>10, <1>11, HostIs
<1>13. v.auth = auth /\ v.host = host /\ v.port = port
  BY <1>9
<1>14. \A chars : Free(a, chars) => Free(auth, chars) /\ Free(host, chars)
  BY <1>4, <1>12
<1>15. AuthorityParts(a, v)
  BY Zenon, <1>2, <1>9, <1>12, <1>13, <1>14 DEF AuthorityParts
<1> QED BY <1>15 DEF v

LEMMA NoEmptyPrefix ==
  ASSUME NEW S, NEW s \in Seq(S)
  PROVE  <<>> \o s = s /\ s \o <<>> = s /\ Behind(s, 0) = s
<1>1. <<>> \o s = s /\ s \o <<>> = s
  BY ConcatEmptySeq
<1> DEFINE u == Behind(s, 0)
           o == 0
<1>2. o \in 0..Len(s) /\ u = Behind(s, o) /\ o = 0
  OBVIOUS
<1> HIDE DEF u, o
<1>3. /\ u \in Seq(S) /\ Len(u) = Len(s) - o
      /\ \A k \in 1..(Len(s) - o) : u[k] = s[o + k]
  BY <1>2, BehindIs
<1>4. Len(u) = Len(s) /\ \A k \in 1..Len(s) : u[k] = s[k]
  BY <1>2, <1>3
<1>5. u = s
  BY <1>3, <1>4, SameText
<1> QED BY <1>1, <1>5 DEF u

(* A text behind another one that ends with a single character.              *)
LEMMA BehindMark ==
  ASSUME NEW S, NEW x \in Seq(S), NEW c \in S, NEW y \in Seq(S)
  PROVE  /\ (x \o <<c>>) \o y = x \o (<<c>> \o y)
         /\ Behind(x \o (<<c>> \o y), Len(x) + 1) = y
         /\ <<c>> \o y \in Seq(S) /\ <<c>> \o y # <<>> /\ (<<c>> \o y)[1] = c
<1> DEFINE o == <<c>>
           w == x \o o
           t == o \o y
<1>1. o \in Seq(S) /\ Len(o) = 1 /\ o[1] = c /\ 1 \in 1..Len(o)
  OBVIOUS
<1> HIDE DEF o
<1>2. w \in Seq(S) /\ Joined(x, o, w)
  BY <1>1, JoinedIs
<1>3. t \in Seq(S) /\ Joined(o, y, t)
  BY <1>1, JoinedIs
<1>4. w \o y = x \o t
  BY <1>1, ConcatAssociative
<1> HIDE DEF w, t
<1>5. Behind(w \o y, Len(w)) = y
  BY <1>2, BehindJoin
<1>6. Len(w) = Len(x) + 1
  BY <1>1, <1>2 DEF Joined
<1>7. t[1] = c /\ Len(t) # 0
  BY <1>1, <1>3 DEF Joined
<1>8. t # <<>>
  BY <1>7
<1> QED BY <1>3, <1>4, <1>5, <1>6, <1>7, <1>8 DEF w, t, o

UserText(auth) == Part(<<>>, auth, <<"@">>)

(* What to_string writes between "//" and the path.                          *)
Written(auth, host, port) == UserText(auth) \o (host \o PortText(port))

LEMMA UserAgain ==
  ASSUME NEW auth \in Seq(UriChars), Free(auth, {"@"}), NEW H \in Seq(UriChars),
         auth # <<>> \/ Free(H, {"@"}),
         NEW A, A = UserText(auth) \o H
  PROVE  /\ A \in Seq(UriChars) /\ User(A) = auth /\ HostText(A) = H
         /\ UserText(auth) \in Seq(UriChars)
         /\ \A chars : Free(A, chars) <=> Free(UserText(auth), chars) /\ Free(H, chars)
<1> DEFINE cs == {"@"}
           c == "@"
           o == <<c>>
           t == UserText(auth)
<1>1. c \in UriChars /\ c \in cs
  BY DEF UriChars
<1>2. Free(auth, cs) /\ (auth # <<>> \/ Free(H, cs)) /\ A = t \o H
  OBVIOUS
<1>3. t = IF auth = <<>> THEN <<>> ELSE <<>> \o auth \o o
  BY DEF UserText, Part
<1>4. User(A) = IF FirstOf(A, cs) = 0 THEN <<>> ELSE Before(A, FirstOf(A, cs))
  BY DEF User
<1>5. HostText(A) = Behind(A, FirstOf(A, cs))
  BY DEF HostText
<1>6. o \in Seq(UriChars)
  BY <1>1
<1>7. t \in Seq(UriChars)
  <2>1. CASE auth = <<>>
    BY <2>1, <1>3
  <2>2. CASE auth # <<>>
    <3> HIDE DEF o, t
    <3>1. t = auth \o o
      BY <2>2, <1>3, NoEmptyPrefix
    <3> QED BY <3>1, <1>6, JoinedIs
  <2> QED BY <2>1, <2>2
<1> HIDE DEF t, c, cs
<1>8. A \in Seq(UriChars) /\ \A chars : Free(A, chars) <=> Free(t, chars) /\ Free(H, chars)
  BY <1>2, <1>7, JoinedIs, FreeJoin
<1>9. User(A) = auth /\ HostText(A) = H
  <2>1. CASE auth = <<>>
    <3>1. t = <<>>
      BY <2>1, <1>3
    <3>2. A = H
      BY <3>1, <1>2, NoEmptyPrefix
    <3>3. IsFirst(A, cs, 0)
      BY <3>2, <1>2, <2>1 DEF IsFirst
    <3>4. FirstOf(A, cs) = 0
      BY <3>3, <1>8, FirstUnique
    <3> QED BY <2>1, <3>2, <3>4, <1>4, <1>5, NoEmptyPrefix
  <2>2. CASE auth # <<>>
    <3> DEFINE y == o \o H
    <3>1. t = auth \o o
      BY <2>2, <1>3, NoEmptyPrefix
    <3>2. /\ (auth \o o) \o H = auth \o y
          /\ Behind(auth \o y, Len(auth) + 1) = H
          /\ y \in Seq(UriChars) /\ y # <<>> /\ y[1] = c
      BY <1>1, BehindMark
    <3> HIDE DEF y, o
    <3>3. A = auth \o y
      BY <3>1, <3>2, <1>2
    <3>4. FirstOf(A, cs) = Len(auth) + 1 /\ Before(A, FirstOf(A, cs)) = auth
      <4>1. y[1] \in cs /\ Free(auth, cs)
        BY <3>2, <1>1, <1>2
      <4>2. /\ FirstOf(auth \o y, cs) = IF y = <<>> THEN 0 ELSE Len(auth) + 1
            /\ Before(auth \o y, FirstOf(auth \o y, cs)) = auth
        BY <3>2, <4>1, CutJoin
      <4> QED BY <3>2, <3>3, <4>2
    <3>5. Len(auth) + 1 # 0
      <4>1. Len(auth) \in Nat
        OBVIOUS
      <4> QED BY <4>1
    <3>6. FirstOf(A, cs) # 0
      BY <3>4, <3>5
    <3> QED BY <3>2, <3>3, <3>4, <3>6, <1>4, <1>5
  <2> QED BY <2>1, <2>2
<1> QED BY <1>7, <1>8, <1>9 DEF t

(* What was read between "//" and the path is written so that it is read     *)
(* again.                                                                    *)
LEMMA AuthorityAgain ==
  ASSUME NEW auth \in Seq(UriChars), Free(auth, {"@"}), NEW host, NEW port, HostPort(host, port),
         auth # <<>> \/ Free(host, {"@"})
  PROVE  /\ Written(auth, host, port) \in Seq(UriChars)
         /\ Authority(Written(auth, host, port)) = [auth |-> auth, host |-> host, port |-> port, fails |-> ""]
<1> DEFINE P == PortText(port)
           H == host \o P
           A == Written(auth, host, port)
           D == DigitsOf(port)
<1>1. host \in Seq(UriChars) /\ (port = -1 \/ port \in Ports)
  BY DEF HostPort
<1>2. P \in Seq(UriChars) /\ \A k \in 1..Len(P) : P[k] \in {":", Digit}
  BY <1>1, PortTextIs
<1>3. Free(P, {"@"})
  BY <1>2 DEF Free, Digit
<1>4. A = UserText(auth) \o H
  BY DEF Written
<1>5. port # -1 => ~PortThrows(D) /\ Port(D) = port
  BY <1>1, PortAgain
<1>6. H = host \o PortText(port)
  OBVIOUS
<1> HIDE DEF P, H, A, D
<1>7. H \in Seq(UriChars) /\ (Free(host, {"@"}) => Free(H, {"@"}))
  <2>1. H = host \o P
    BY DEF H
  <2> DEFINE cs == {"@"}
  <2>2. Free(P, cs)
    BY <1>3
  <2> HIDE DEF cs
  <2>3. H \in Seq(UriChars) /\ (Free(host, cs) => Free(H, cs))
    BY <1>1, <1>2, <2>1, <2>2, JoinedIs, FreeJoin
  <2> QED BY <2>3 DEF cs
<1>8. A \in Seq(UriChars) /\ User(A) = auth /\ HostText(A) = H
  BY <1>4, <1>7, UserAgain
<1>9. /\ Bracketed(H) <=> Bracketed(host)
      /\ PortColon(H) = IF port = -1 THEN 0 ELSE Len(host) + 1
      /\ Bracketed(H) => /\ FirstOf(H, {"]"}) = Len(host) /\ Len(host) # 0
                         /\ SubSeq(H, 1, Len(host)) = host
      /\ ~Bracketed(H) => Before(H, PortColon(H)) = host
      /\ port # -1 => Behind(H, Len(host) + 1) = D
  BY <1>6, HostAgain DEF D
<1>10. Len(host) \in Nat
  BY <1>1
<1>11. HostOf(H) = host
  BY <1>9 DEF HostOf
<1>12. PortOf(H) = port
  <2>1. CASE port = -1
    BY <2>1, <1>9 DEF PortOf
  <2>2. CASE port # -1
    <3>1. PortColon(H) = Len(host) + 1 /\ Len(host) + 1 # 0
      BY <2>2, <1>9, <1>10
    <3> QED BY <3>1, <2>2, <1>5, <1>9 DEF PortOf
  <2> QED BY <2>1, <2>2
<1>13. ~(Bracketed(H) /\ FirstOf(H, {"]"}) = 0)
  BY <1>9
<1>14. ~(PortColon(H) # 0 /\ PortThrows(Behind(H, PortColon(H))))
  <2>1. CASE port = -1
    BY <2>1, <1>9
  <2>2. CASE port # -1
    BY <2>2, <1>5, <1>9
  <2> QED BY <2>1, <2>2
<1>15. Authority(A) =
         [auth |-> User(A), host |-> HostOf(HostText(A)), port |-> PortOf(HostText(A)),
          fails |-> IF Bracketed(HostText(A)) /\ FirstOf(HostText(A), {"]"}) = 0 THEN "invalid"
                    ELSE IF /\ PortColon(HostText(A)) # 0
                            /\ PortThrows(Behind(HostText(A), PortColon(HostText(A)))) THEN "throws" ELSE ""]
  BY AuthorityFields
<1>16. Authority(A) = [auth |-> auth, host |-> host, port |-> port, fails |-> ""]
  BY Zenon, <1>8, <1>11, <1>12, <1>13, <1>14, <1>15
<1> QED BY <1>8, <1>16 DEF A

LEMMA WrittenFree ==
  ASSUME NEW auth \in Seq(UriChars), NEW host, NEW port, HostPort(host, port),
         NEW chars, "@" \notin chars, ":" \notin chars, Digit \notin chars, Free(auth, chars), Free(host, chars)
  PROVE  Free(Written(auth, host, port), chars)
<1> DEFINE P == PortText(port)
           H == host \o P
           t == UserText(auth)
           o == <<"@">>
<1>1. host \in Seq(UriChars) /\ (port = -1 \/ port \in Ports)
  BY DEF HostPort
<1>2. P \in Seq(UriChars) /\ \A k \in 1..Len(P) : P[k] \in {":", Digit}
  BY <1>1, PortTextIs
<1>3. Free(P, chars)
  BY <1>2 DEF Free
<1>4. o \in Seq(UriChars) /\ Free(o, chars)
  BY DEF UriChars, Free
<1> HIDE DEF P, o
<1>5. H \in Seq(UriChars) /\ Free(H, chars)
  BY <1>1, <1>2, <1>3, JoinedIs, FreeJoin
<1> HIDE DEF H
<1>6. t \in Seq(UriChars) /\ Free(t, chars)
  <2>1. CASE auth = <<>>
    <3>1. t = <<>>
      BY <2>1 DEF UserText, Part
    <3>2. t \in Seq(UriChars) /\ Len(t) = 0
      BY <3>1
    <3> QED BY <3>2 DEF Free
  <2>2. CASE auth # <<>>
    <3>1. t = auth \o o
      <4>1. t = <<>> \o auth \o o
        BY <2>2 DEF UserText, Part, o
      <4> QED BY <4>1, NoEmptyPrefix
    <3> QED BY <3>1, <1>4, JoinedIs, FreeJoin
  <2> QED BY <2>1, <2>2
<1>7. Written(auth, host, port) = t \o H
  BY DEF Written, H, P
<1> HIDE DEF t
<1> QED BY <1>5, <1>6, <1>7, FreeJoin

-------------------------------------------------------------------------------
(* What is behind the first "?" or "#".                                       *)
(* What is behind the first c, if there is one.                              *)
Marked(s, c) == IF FirstOf(s, {c}) = 0 THEN <<>> ELSE Behind(s, FirstOf(s, {c}))
Unmarked(s, c) == Before(s, FirstOf(s, {c}))
MarkText(c, q) == Part(<<c>>, q, <<>>)
NoMark(s, c) == Free(s, {c})

LEMMA MarkIs ==
  ASSUME NEW s \in Seq(UriChars), NEW c
  PROVE  /\ Unmarked(s, c) \in Seq(UriChars) /\ Free(Unmarked(s, c), {c}) /\ Marked(s, c) \in Seq(UriChars)
         /\ Len(Unmarked(s, c)) <= Len(s) /\ \A k \in 1..Len(Unmarked(s, c)) : Unmarked(s, c)[k] = s[k]
         /\ \A chars : Free(s, chars) => Free(Unmarked(s, c), chars) /\ Free(Marked(s, c), chars)
         /\ s # <<>> /\ s[1] = c => Unmarked(s, c) = <<>>
<1> DEFINE cs == {c}
           e == FirstOf(s, cs)
           b == Before(s, e)
           h == Behind(s, e)
           m == Marked(s, c)
<1>1. e = FirstOf(s, cs)
  OBVIOUS
<1>2. m = IF e = 0 THEN <<>> ELSE h
  BY DEF Marked
<1>3. b = Unmarked(s, c)
  BY DEF Unmarked
<1>4. b = Before(s, e) /\ h = Behind(s, e) /\ c \in cs
  OBVIOUS
<1> HIDE DEF cs, e, b, h, m
<1>5. /\ e \in 0..Len(s) /\ b \in Seq(UriChars) /\ h \in Seq(UriChars) /\ Free(b, cs)
      /\ Len(b) \in 0..Len(s) /\ \A k \in 1..Len(b) : b[k] = s[k]
  BY <1>1, <1>4, CutOff
<1>6. \A chars : Free(s, chars) => Free(b, chars)
  <2>1. Len(b) <= Len(s)
    BY <1>5
  <2> QED BY <1>5, <2>1, PrefixFree
<1>7. m \in Seq(UriChars) /\ \A chars : Free(s, chars) => Free(m, chars)
  <2>1. CASE e = 0
    <3>1. m = <<>> /\ m \in Seq(UriChars) /\ Len(m) = 0
      BY <1>2, <2>1
    <3> QED BY <3>1 DEF Free
  <2>2. CASE e # 0
    <3>1. m = h
      BY <1>2, <2>2
    <3>2. Len(h) = Len(s) - e /\ \A k \in 1..(Len(s) - e) : h[k] = s[e + k]
      BY <1>4, <1>5, BehindIs
    <3>3. e \in Nat /\ Len(h) \in Nat /\ e + Len(h) <= Len(s) /\ Len(s) \in Nat
      BY <1>5, <3>2
    <3>4. \A k \in 1..Len(h) : h[k] = s[e + k]
      BY <3>2
    <3>5. \A chars : Free(s, chars) => Free(h, chars)
      BY <3>3, <3>4, FreeWithin
    <3> QED BY <1>5, <3>1, <3>5
  <2> QED BY <2>1, <2>2
<1>8. s # <<>> /\ s[1] = c => b = <<>>
  <2> SUFFICES ASSUME s # <<>>, s[1] = c, b # <<>> PROVE FALSE
    OBVIOUS
  <2>1. Len(b) # 0
    BY <1>5, EmptySeq
  <2>2. 1 \in 1..Len(b)
    BY <2>1, <1>5
  <2>3. b[1] = c
    BY <2>2, <1>5
  <2> QED BY <2>2, <2>3, <1>4, <1>5 DEF Free
<1>9. Len(b) <= Len(s)
  BY <1>5
<1> QED BY <1>3, <1>5, <1>6, <1>7, <1>8, <1>9 DEF m, cs

LEMMA MarkTextIs ==
  ASSUME NEW c \in UriChars, NEW q \in Seq(UriChars)
  PROVE  MarkText(c, q) \in Seq(UriChars) /\ MarkText(c, q) = IF q = <<>> THEN <<>> ELSE <<c>> \o q
<1> DEFINE o == <<c>>
<1>1. o \in Seq(UriChars)
  OBVIOUS
<1>2. MarkText(c, q) = IF q = <<>> THEN <<>> ELSE o \o q \o <<>>
  BY DEF MarkText, Part
<1> HIDE DEF o
<1>3. o \o q \in Seq(UriChars)
  BY <1>1, JoinedIs
<1>4. o \o q \o <<>> = o \o q
  BY <1>3, NoEmptyPrefix
<1>5. <<>> \in Seq(UriChars)
  OBVIOUS
<1> QED BY <1>2, <1>3, <1>4, <1>5 DEF o

(* x with a part behind c is read as x and that part.                        *)
ReadAs(z, x, c, q) == z \in Seq(UriChars) /\ Unmarked(z, c) = x /\ Marked(z, c) = q

LEMMA MarkAgain ==
  ASSUME NEW x \in Seq(UriChars), NEW c \in UriChars, NEW q \in Seq(UriChars), NoMark(x, c)
  PROVE  ReadAs(x \o MarkText(c, q), x, c, q)
<1> DEFINE z == x \o MarkText(c, q)
<1> DEFINE m == MarkText(c, q)
           cs == {c}
           y == <<c>> \o q
<1>1. m \in Seq(UriChars) /\ m = IF q = <<>> THEN <<>> ELSE y
  BY MarkTextIs
<1>2. c \in cs /\ Free(x, cs) /\ z = x \o m
  BY DEF NoMark
<1>3. Marked(z, c) = IF FirstOf(z, cs) = 0 THEN <<>> ELSE Behind(z, FirstOf(z, cs))
  BY DEF Marked
<1>4. Unmarked(z, c) = Before(z, FirstOf(z, cs))
  BY DEF Unmarked
<1>5. y \in Seq(UriChars) /\ y # <<>> /\ y[1] = c /\ Behind(x \o y, Len(x) + 1) = q
  BY BehindMark
<1>6. Len(x) \in Nat
  OBVIOUS
<1> HIDE DEF m, cs, y, z
<1>7. z \in Seq(UriChars)
  BY <1>1, <1>2, JoinedIs
<1>8. m = <<>> \/ m[1] \in cs
  BY <1>1, <1>2, <1>5
<1>9. FirstOf(z, cs) = (IF m = <<>> THEN 0 ELSE Len(x) + 1) /\ Before(z, FirstOf(z, cs)) = x
  BY <1>1, <1>2, <1>8, CutJoin
<1>10. Marked(z, c) = q
  <2>1. CASE q = <<>>
    BY <2>1, <1>1, <1>3, <1>9
  <2>2. CASE q # <<>>
    <3>1. m = y /\ m # <<>>
      BY <2>2, <1>1, <1>5
    <3>2. FirstOf(z, cs) = Len(x) + 1 /\ FirstOf(z, cs) # 0
      BY <3>1, <1>6, <1>9
    <3> QED BY <3>1, <3>2, <1>2, <1>3, <1>5
  <2> QED BY <2>1, <2>2
<1> QED BY <1>4, <1>7, <1>9, <1>10 DEF ReadAs, z

-------------------------------------------------------------------------------
(* What is behind the host: a path, a query and a fragment.                  *)
PathOf(rest) == Unmarked(Unmarked(rest, "#"), "?")
QueryOf(rest) == Marked(Unmarked(rest, "#"), "?")
FragmentOf(rest) == Marked(rest, "#")
RestText(p, q, f) == (p \o MarkText("?", q)) \o MarkText("#", f)

RestParts(p, q, f) ==
  /\ p \in Seq(UriChars) /\ q \in Seq(UriChars) /\ f \in Seq(UriChars)
  /\ Free(p, {"?"}) /\ Free(p, {"#"}) /\ Free(q, {"#"})

LEMMA RestIs ==
  ASSUME NEW rest \in Seq(UriChars)
  PROVE  /\ RestParts(PathOf(rest), QueryOf(rest), FragmentOf(rest))
         /\ rest = <<>> \/ rest[1] \in {"/", "?", "#"} => PathOf(rest) = <<>> \/ PathOf(rest)[1] = "/"
<1> DEFINE w == Unmarked(rest, "#")
           p == Unmarked(w, "?")
           q == Marked(w, "?")
           f == Marked(rest, "#")
           hs == {"#"}
<1>1. /\ w \in Seq(UriChars) /\ Free(w, hs) /\ f \in Seq(UriChars)
      /\ Len(w) <= Len(rest) /\ \A k \in 1..Len(w) : w[k] = rest[k]
      /\ rest # <<>> /\ rest[1] = "#" => w = <<>>
  BY MarkIs
<1> HIDE DEF w, f, hs
<1>2. /\ p \in Seq(UriChars) /\ Free(p, {"?"}) /\ q \in Seq(UriChars)
      /\ Len(p) <= Len(w) /\ \A k \in 1..Len(p) : p[k] = w[k]
      /\ Free(w, hs) => Free(p, hs) /\ Free(q, hs)
      /\ w # <<>> /\ w[1] = "?" => p = <<>>
  BY <1>1, MarkIs
<1>3. PathOf(rest) = p /\ QueryOf(rest) = q /\ FragmentOf(rest) = f
  BY DEF PathOf, QueryOf, FragmentOf, w, f
<1> HIDE DEF p, q
<1>4. RestParts(p, q, f)
  BY <1>1, <1>2 DEF RestParts, hs
<1>5. ASSUME rest = <<>> \/ rest[1] \in {"/", "?", "#"}, p # <<>> PROVE p[1] = "/"
  <2>1. Len(p) # 0 /\ Len(p) \in Nat /\ Len(w) \in Nat /\ Len(rest) \in Nat
    BY <1>1, <1>2, <1>5, EmptySeq
  <2>2. 1 \in 1..Len(p) /\ 1 \in 1..Len(w) /\ Len(w) # 0 /\ Len(rest) # 0
    BY <1>1, <1>2, <2>1
  <2>3. p[1] = w[1] /\ w[1] = rest[1]
    BY <1>1, <1>2, <2>2
  <2>4. w # <<>> /\ rest # <<>>
    BY <2>2
  <2>5. rest[1] # "#" /\ rest[1] # "?"
    BY <1>1, <1>2, <1>5, <2>3, <2>4
  <2> QED BY <1>5, <2>3, <2>4, <2>5
<1> QED BY <1>3, <1>4, <1>5

LEMMA RestAgain ==
  ASSUME NEW p, NEW q, NEW f, RestParts(p, q, f), p = <<>> \/ p[1] = "/",
         NEW R, R = RestText(p, q, f)
  PROVE  /\ R \in Seq(UriChars) /\ (R = <<>> \/ R[1] \in {"/", "?", "#"})
         /\ PathOf(R) = p /\ QueryOf(R) = q /\ FragmentOf(R) = f
<1> DEFINE mq == MarkText("?", q)
           mf == MarkText("#", f)
           w == p \o mq
           hs == {"#"}
           c == "?"
           d == "#"
<1>1. /\ p \in Seq(UriChars) /\ q \in Seq(UriChars) /\ f \in Seq(UriChars)
      /\ NoMark(p, c) /\ Free(p, hs) /\ Free(q, hs)
  BY DEF RestParts, NoMark
<1>2. c \in UriChars /\ d \in UriChars /\ c # d /\ hs = {d}
  BY DEF UriChars
<1>3. w = p \o MarkText(c, q) /\ R = w \o MarkText(d, f) /\ mf = MarkText(d, f) /\ mq = MarkText(c, q)
  BY DEF RestText
<1>4. PathOf(R) = Unmarked(Unmarked(R, d), c) /\ QueryOf(R) = Marked(Unmarked(R, d), c) /\ FragmentOf(R) = Marked(R, d)
  BY DEF PathOf, QueryOf, FragmentOf
<1>5. {"/", "?", "#"} = {"/", c, d}
  OBVIOUS
<1> HIDE DEF c, d, hs, w, mq, mf
<1>6. w \in Seq(UriChars) /\ Unmarked(w, c) = p /\ Marked(w, c) = q
  <2>1. p \in Seq(UriChars) /\ c \in UriChars /\ q \in Seq(UriChars) /\ NoMark(p, c) /\ w = p \o MarkText(c, q)
    BY <1>1, <1>2, <1>3
  <2>2. ReadAs(p \o MarkText(c, q), p, c, q)
    BY <2>1, MarkAgain
  <2> QED BY <2>1, <2>2 DEF ReadAs
<1>7. mq \in Seq(UriChars) /\ mq = (IF q = <<>> THEN <<>> ELSE <<c>> \o q)
  BY <1>1, <1>2, <1>3, MarkTextIs
<1>8. mf \in Seq(UriChars) /\ mf = (IF f = <<>> THEN <<>> ELSE <<d>> \o f)
  BY <1>1, <1>2, <1>3, MarkTextIs
<1>9. Free(mq, hs)
  <2>1. CASE q = <<>>
    <3>1. Len(mq) = 0
      BY <2>1, <1>7
    <3> QED BY <3>1 DEF Free
  <2>2. CASE q # <<>>
    <3> DEFINE o == <<c>>
    <3>1. o \in Seq(UriChars) /\ Len(o) = 1 /\ o[1] = c
      BY <1>2
    <3>2. Free(o, hs)
      BY <3>1, <1>2 DEF Free
    <3>3. mq = o \o q
      BY <2>2, <1>7
    <3> HIDE DEF o
    <3> QED BY <3>1, <3>2, <3>3, <1>1, FreeJoin
  <2> QED BY <2>1, <2>2
<1>10. NoMark(w, d)
  <2>1. Free(w, hs)
    BY <1>1, <1>3, <1>7, <1>9, FreeJoin
  <2> QED BY <2>1, <1>2 DEF NoMark
<1>11. R \in Seq(UriChars) /\ Unmarked(R, d) = w /\ Marked(R, d) = f
  <2>1. w \in Seq(UriChars) /\ d \in UriChars /\ f \in Seq(UriChars) /\ NoMark(w, d) /\ R = w \o MarkText(d, f)
    BY <1>1, <1>2, <1>3, <1>6, <1>10
  <2>2. ReadAs(w \o MarkText(d, f), w, d, f)
    BY <2>1, MarkAgain
  <2> QED BY <2>1, <2>2 DEF ReadAs
<1>12. R = <<>> \/ R[1] \in {"/", c, d}
  <2>1. CASE w = <<>>
    <3>1. R = mf
      BY <2>1, <1>3, <1>8, NoEmptyPrefix
    <3>2. f # <<>> => (<<d>> \o f)[1] = d
      BY <1>1, <1>2, BehindMark
    <3> QED BY <3>1, <3>2, <1>8
  <2>2. CASE w # <<>>
    <3>1. w[1] \in {"/", c, d}
      <4>1. CASE p = <<>>
        <5>1. w = mq
          BY <4>1, <1>3, <1>7, NoEmptyPrefix
        <5>2. q # <<>> => (<<c>> \o q)[1] = c
          BY <1>1, <1>2, BehindMark
        <5> QED BY <5>1, <5>2, <2>2, <1>7
      <4>2. CASE p # <<>>
        <5>1. Joined(p, mq, w)
          BY <1>1, <1>3, <1>7, JoinedIs
        <5>2. Len(p) # 0 /\ Len(p) \in Nat
          BY <4>2, <1>1, EmptySeq
        <5>3. w[1] = p[1]
          BY <5>1, <5>2 DEF Joined
        <5> QED BY <5>3, <4>2
      <4> QED BY <4>1, <4>2
    <3>2. Joined(w, mf, R)
      BY <1>3, <1>6, <1>8, JoinedIs
    <3>3. Len(w) # 0 /\ Len(w) \in Nat
      BY <2>2, <1>6, EmptySeq
    <3>4. R[1] = w[1]
      BY <3>2, <3>3 DEF Joined
    <3> QED BY <3>1, <3>4
  <2> QED BY <2>1, <2>2
<1> QED BY <1>4, <1>5, <1>6, <1>11, <1>12

-------------------------------------------------------------------------------
(* The parts of a text as parse finds them.                                   *)
(* What parse makes of a text that has a scheme c, a rest r behind ":/" and,  *)
(* when r begins with a slash, an authority.                                 *)
Whole(v, scheme, rest) ==
  [fails |-> v.fails, scheme |-> scheme, auth |-> v.auth, host |-> v.host, port |-> v.port,
   path |-> PathOf(rest), query |-> QueryOf(rest), fragment |-> FragmentOf(rest)]

Slashes(r) == r # <<>> /\ r[1] = "/"
AuthorityText(r) == Before(Behind(r, 1), AuthorityEnd(Behind(r, 1)))
AuthorityRest(r) == Behind(r, 1 + Len(AuthorityText(r)))

LEMMA ParseFails ==
  ASSUME NEW s, SchemeEnd(s) = 0 \/ Behind(s, SchemeEnd(s) + 1) = <<>>
  PROVE  Parse(s) = [fails |-> "invalid"]
BY DEF Parse

LEMMA ParseSlashes ==
  ASSUME NEW s, NEW c, c = SchemeEnd(s), NEW r, r = Behind(s, c + 1), c # 0, Slashes(r)
  PROVE  Parse(s) = Whole(Authority(AuthorityText(r)), Before(s, c), AuthorityRest(r))
<1> DEFINE a == AuthorityText(r)
           rest == AuthorityRest(r)
<1>1. a = Before(Behind(r, 1), AuthorityEnd(Behind(r, 1))) /\ rest = Behind(r, 1 + Len(a))
  BY DEF AuthorityText, AuthorityRest
<1>2. r # <<>> /\ r[1] = "/"
  BY DEF Slashes
<1> HIDE DEF a, rest
<1>3. Parse(s) = Whole(Authority(a), Before(s, c), rest)
  BY ZenonT(40), <1>1, <1>2 DEF Parse, Whole, PathOf, QueryOf, FragmentOf, Marked, Unmarked
<1> QED BY <1>3 DEF a, rest

LEMMA ParsePlain ==
  ASSUME NEW s, NEW c, c = SchemeEnd(s), NEW r, r = Behind(s, c + 1), c # 0, r # <<>>, ~Slashes(r)
  PROVE  Parse(s) = Whole(NoAuthority, Before(s, c), r)
<1>1. r[1] # "/"
  BY DEF Slashes
<1> QED BY Zenon, <1>1 DEF Parse, Whole, PathOf, QueryOf, FragmentOf, Marked, Unmarked

(* The scheme of a text and what is behind it.                               *)
Scheme(s) == Before(s, SchemeEnd(s))
Remainder(s) == Behind(s, SchemeEnd(s) + 1)

LEMMA SchemeIs ==
  ASSUME NEW s \in Seq(UriChars), SchemeEnd(s) # 0
  PROVE  /\ SchemeEnd(s) \in 1..(Len(s) - 1) /\ Len(s) \in Nat
         /\ Scheme(s) \in Seq(UriChars) /\ Remainder(s) \in Seq(UriChars)
         /\ \A k \in 1..(Len(Scheme(s)) - 1) : ~ColonSlash(Scheme(s), k)
         /\ Remainder(s) # <<>> => Remainder(s)[1] = s[SchemeEnd(s) + 2]
<1> DEFINE c == SchemeEnd(s)
           b == Before(s, c)
           r == Behind(s, c + 1)
<1>1. IsEnd(s, c) /\ c # 0
  BY SchemeEndIs
<1>2. Scheme(s) = b /\ Remainder(s) = r /\ b = Before(s, c) /\ r = Behind(s, c + 1)
  BY DEF Scheme, Remainder
<1> HIDE DEF c, b, r
<1>3. c \in 1..(Len(s) - 1) /\ \A k \in 1..(c - 1) : ~ColonSlash(s, k)
  BY <1>1 DEF IsEnd
<1>4. Len(s) \in Nat
  OBVIOUS
<1>5. c \in 1..Len(s) /\ c + 1 \in 0..Len(s)
  BY <1>3, <1>4
<1>6. b \in Seq(UriChars) /\ Len(b) = c - 1 /\ \A k \in 1..(c - 1) : b[k] = s[k]
  BY <1>2, <1>5, BeforeIs
<1>7. r \in Seq(UriChars) /\ Len(r) = Len(s) - (c + 1) /\ \A k \in 1..(Len(s) - (c + 1)) : r[k] = s[(c + 1) + k]
  BY <1>2, <1>5, BehindIs
<1>8. ASSUME NEW k \in 1..(Len(b) - 1) PROVE ~ColonSlash(b, k)
  <2>1. k \in 1..(c - 1) /\ k + 1 \in 1..(c - 1)
    BY <1>3, <1>6
  <2>2. b[k] = s[k] /\ b[k + 1] = s[k + 1]
    BY <2>1, <1>6
  <2> QED BY <2>1, <2>2, <1>3 DEF ColonSlash
<1>9. r # <<>> => r[1] = s[c + 2]
  <2> SUFFICES ASSUME r # <<>> PROVE r[1] = s[c + 2]
    OBVIOUS
  <2>1. Len(r) # 0
    BY <1>7, EmptySeq
  <2>2. 1 \in 1..(Len(s) - (c + 1)) /\ (c + 1) + 1 = c + 2
    BY <2>1, <1>3, <1>4, <1>7
  <2> QED BY <2>2, <1>7
<1> QED BY <1>2, <1>3, <1>4, <1>6, <1>7, <1>8, <1>9 DEF c

(* Cutting the authority off.                                                *)
LEMMA AuthorityCut ==
  ASSUME NEW r \in Seq(UriChars), Slashes(r)
  PROVE  /\ AuthorityText(r) \in Seq(UriChars) /\ AuthorityRest(r) \in Seq(UriChars)
         /\ Free(AuthorityText(r), {"/", "?", "#"})
         /\ AuthorityRest(r) = <<>> \/ AuthorityRest(r)[1] \in {"/", "?", "#"}
<1> DEFINE cs == {"/", "?", "#"}
           b == Behind(r, 1)
           e == FirstOf(b, cs)
           a == Before(b, e)
           o == 1
           n == 1 + Len(a)
           t == Behind(r, n)
<1>1. AuthorityText(r) = a
  BY DEF AuthorityText, AuthorityEnd
<1>2. AuthorityRest(r) = t
  BY <1>1 DEF AuthorityRest
<1>3. Len(r) \in Nat /\ Len(r) # 0
  BY EmptySeq DEF Slashes
<1>4. b = Behind(r, o) /\ e = FirstOf(b, cs) /\ a = Before(b, e) /\ n = o + Len(a) /\ o = 1 /\ t = Behind(r, n)
  OBVIOUS
<1> HIDE DEF cs, b, e, a, o, n, t
<1>5. b \in Seq(UriChars) /\ Len(b) = Len(r) - o /\ \A k \in 1..(Len(r) - o) : b[k] = r[o + k]
  <2>1. o \in 0..Len(r)
    BY <1>3, <1>4
  <2> QED BY <2>1, <1>4, BehindIs, ZenonT(40)
<1>6. /\ e \in 0..Len(b) /\ a \in Seq(UriChars) /\ Free(a, cs) /\ Len(a) \in 0..Len(b)
      /\ e = 0 => a = b
      /\ e # 0 => Len(a) = e - 1 /\ b[e] \in cs
  BY <1>4, <1>5, CutOff
<1>7. n \in 0..Len(r)
  BY <1>3, <1>4, <1>5, <1>6
<1>8. t \in Seq(UriChars) /\ Len(t) = Len(r) - n /\ \A k \in 1..(Len(r) - n) : t[k] = r[n + k]
  <2>1. t = Behind(r, n)
    BY <1>4
  <2> HIDE DEF n
  <2> QED BY <2>1, <1>7, BehindIs
<1>9. t = <<>> \/ t[1] \in cs
  <2>1. CASE e = 0
    <3>1. a = b
      BY <2>1, <1>6
    <3>2. Len(t) = 0
      BY <3>1, <1>3, <1>4, <1>5, <1>8
    <3> QED BY <3>2, <1>8, EmptySeq
  <2>2. CASE e # 0
    <3>1. Len(a) = e - 1 /\ b[e] \in cs
      BY <2>2, <1>6
    <3>2. n = e /\ e \in 1..(Len(r) - o) /\ 1 \in 1..(Len(r) - n)
      BY <2>2, <3>1, <1>3, <1>4, <1>5, <1>6
    <3>3. n + 1 = o + e
      BY <3>2, <1>4
    <3>4. t[1] = r[n + 1]
      BY <3>2, <1>8
    <3>5. b[e] = r[o + e]
      BY <3>2, <1>5
    <3> QED BY <3>1, <3>3, <3>4, <3>5
  <2> QED BY <2>1, <2>2
<1> QED BY <1>1, <1>2, <1>6, <1>8, <1>9 DEF cs

AuthorityEnds == {"/", "?", "#"}

(* What parse returns when it does not fail.                                 *)
UriParts(u) ==
  /\ u = [fails |-> "", scheme |-> u.scheme, auth |-> u.auth, host |-> u.host, port |-> u.port,
          path |-> u.path, query |-> u.query, fragment |-> u.fragment]
  /\ u.scheme \in Seq(UriChars) /\ \A k \in 1..(Len(u.scheme) - 1) : ~ColonSlash(u.scheme, k)
  /\ u.auth \in Seq(UriChars) /\ Free(u.auth, {"@"}) /\ HostPort(u.host, u.port)
  /\ Free(u.auth, AuthorityEnds) /\ Free(u.host, AuthorityEnds)
  /\ RestParts(u.path, u.query, u.fragment)

LEMMA PlainAuthority ==
  AuthorityParts(<<>>, NoAuthority) /\ NoAuthority.fails = "" /\ \A chars : Free(<<>>, chars)
<1> DEFINE t == <<>>
<1>1. NoAuthority = [auth |-> t, host |-> t, port |-> -1, fails |-> ""]
  BY DEF NoAuthority
<1>2. t \in Seq(UriChars) /\ Len(t) = 0 /\ t = <<>>
  OBVIOUS
<1> HIDE DEF t
<1>3. \A chars : Free(t, chars)
  BY <1>2 DEF Free
<1>4. HostPort(t, -1)
  BY <1>2, <1>3 DEF HostPort, Bracketed
<1>5. NoAuthority.auth = t /\ NoAuthority.host = t /\ NoAuthority.port = -1 /\ NoAuthority.fails = ""
  BY <1>1
<1> HIDE DEF NoAuthority
<1>6. AuthorityParts(t, NoAuthority)
  BY <1>1, <1>2, <1>3, <1>4, <1>5 DEF AuthorityParts
<1> QED BY <1>2, <1>3, <1>5, <1>6

LEMMA WholeIs ==
  ASSUME NEW a, NEW v, AuthorityParts(a, v), Free(a, AuthorityEnds),
         NEW scheme \in Seq(UriChars), \A k \in 1..(Len(scheme) - 1) : ~ColonSlash(scheme, k),
         NEW rest \in Seq(UriChars),
         NEW u, u = Whole(v, scheme, rest)
  PROVE  UriParts(u) /\ u.path = PathOf(rest)
<1> DEFINE p == PathOf(rest)
           q == QueryOf(rest)
           f == FragmentOf(rest)
           auth == v.auth
           host == v.host
           port == v.port
<1>1. v = [auth |-> auth, host |-> host, port |-> port, fails |-> ""]
  BY DEF AuthorityParts
<1>2. v.fails = ""
  <2> HIDE DEF auth, host, port
  <2> QED BY <1>1
<1>3. RestParts(p, q, f)
  BY RestIs
<1>4. u = [fails |-> "", scheme |-> scheme, auth |-> auth, host |-> host, port |-> port,
           path |-> p, query |-> q, fragment |-> f]
  BY <1>2 DEF Whole
<1>5. /\ auth \in Seq(UriChars) /\ Free(auth, {"@"}) /\ HostPort(host, port)
      /\ Free(auth, AuthorityEnds) /\ Free(host, AuthorityEnds)
  BY DEF AuthorityParts
<1>6. p = PathOf(rest)
  OBVIOUS
<1> HIDE DEF p, q, f, auth, host, port
<1>7. /\ u.scheme = scheme /\ u.auth = auth /\ u.host = host /\ u.port = port
      /\ u.path = p /\ u.query = q /\ u.fragment = f
  BY ONLY <1>4
<1>8. UriParts(u)
  BY Zenon, <1>3, <1>4, <1>5, <1>7 DEF UriParts
<1> QED BY <1>6, <1>7, <1>8

LEMMA ParsedParts ==
  ASSUME NEW s \in Seq(UriChars), Parse(s).fails = ""
  PROVE  /\ UriParts(Parse(s)) /\ SchemeEnd(s) # 0
         /\ s[SchemeEnd(s) + 2] = "/" => Parse(s).path = <<>> \/ Parse(s).path[1] = "/"
<1> DEFINE u == Parse(s)
           c == SchemeEnd(s)
           r == Remainder(s)
           b == Scheme(s)
<1>1. c # 0 /\ r # <<>>
  <2> SUFFICES ASSUME c = 0 \/ r = <<>> PROVE FALSE
    OBVIOUS
  <2>1. u = [fails |-> "invalid"]
    BY ParseFails DEF Remainder
  <2> QED BY <2>1
<1>2. /\ b \in Seq(UriChars) /\ r \in Seq(UriChars)
      /\ \A k \in 1..(Len(b) - 1) : ~ColonSlash(b, k)
      /\ r[1] = s[c + 2]
  BY <1>1, SchemeIs
<1>3. b = Before(s, c) /\ r = Behind(s, c + 1)
  BY DEF Scheme, Remainder
<1>4. u = Parse(s) /\ u.fails = "" /\ c = SchemeEnd(s)
  OBVIOUS
<1> HIDE DEF u, c, r, b
<1>5. CASE Slashes(r)
  <2> DEFINE a == AuthorityText(r)
             rest == AuthorityRest(r)
             v == Authority(a)
  <2>1. u = Whole(v, b, rest)
    BY <1>1, <1>3, <1>4, <1>5, ParseSlashes
  <2>2. a \in Seq(UriChars) /\ rest \in Seq(UriChars) /\ Free(a, AuthorityEnds)
        /\ (rest = <<>> \/ rest[1] \in {"/", "?", "#"})
    BY <1>2, <1>5, AuthorityCut DEF AuthorityEnds
  <2>3. v.fails = ""
    <3> HIDE DEF a, rest, v
    <3>1. u.fails = v.fails
      BY <2>1 DEF Whole
    <3> QED BY <3>1, <1>4
  <2>4. AuthorityParts(a, v)
    <3> HIDE DEF a, rest
    <3> QED BY <2>2, <2>3, AuthorityIs
  <2> HIDE DEF a, rest, v
  <2>5. UriParts(u) /\ u.path = PathOf(rest)
    <3>1. /\ AuthorityParts(a, v) /\ Free(a, AuthorityEnds) /\ b \in Seq(UriChars) /\ rest \in Seq(UriChars)
          /\ \A k \in 1..(Len(b) - 1) : ~ColonSlash(b, k)
      BY <1>2, <2>2, <2>4
    <3> QED BY Zenon, <3>1, <2>1, WholeIs
  <2>6. u.path = <<>> \/ u.path[1] = "/"
    BY <2>2, <2>5, RestIs
  <2> QED BY <1>1, <2>5, <2>6 DEF u, c
<1>6. CASE ~Slashes(r)
  <2> DEFINE a == <<>>
             v == NoAuthority
  <2>1. u = Whole(v, b, r)
    BY <1>1, <1>3, <1>4, <1>6, ParsePlain
  <2>2. AuthorityParts(a, v)
    BY PlainAuthority
  <2>3. Free(a, AuthorityEnds)
    BY PlainAuthority
  <2>4. r[1] # "/"
    BY <1>1, <1>6 DEF Slashes
  <2> HIDE DEF a, v
  <2>5. UriParts(u)
    BY <1>2, <2>1, <2>2, <2>3, WholeIs
  <2>6. s[c + 2] # "/"
    BY <2>4, <1>2
  <2> QED BY <1>1, <2>5, <2>6 DEF u, c
<1> QED BY <1>5, <1>6

-------------------------------------------------------------------------------
(* to_string, with its parts put together differently.                       *)
LEMMA TextIs ==
  ASSUME NEW u, UriParts(u), u.scheme # <<>>
  PROVE  to_string(u) =
           u.scheme \o (<<":", "/", "/">> \o (Written(u.auth, u.host, u.port) \o RestText(u.path, u.query, u.fragment)))
<1> DEFINE o == <<":", "/", "/">>
           x == u.scheme
           a == UserText(u.auth)
           h == u.host
           g == PortText(u.port)
           p == u.path
           q == MarkText("?", u.query)
           f == MarkText("#", u.fragment)
           S == Seq(UriChars)
<1>1. to_string(u) = (<<>> \o x \o o) \o a \o h \o g \o p \o q \o f
  <2>1. Part(<<>>, x, o) = <<>> \o x \o o
    BY DEF Part
  <2>2. Part(<<>>, u.auth, <<"@">>) = a
    BY DEF UserText
  <2>3. (IF u.port = -1 THEN <<>> ELSE <<":">> \o DigitsOf(u.port)) = g
    BY DEF PortText
  <2>4. Part(<<"?">>, u.query, <<>>) = q /\ Part(<<"#">>, u.fragment, <<>>) = f
    BY DEF MarkText
  <2> HIDE DEF a, g, q, f
  <2> QED BY Zenon, <2>1, <2>2, <2>3, <2>4 DEF to_string
<1>2. Written(u.auth, u.host, u.port) = a \o (h \o g) /\ RestText(u.path, u.query, u.fragment) = (p \o q) \o f
  BY DEF Written, RestText
<1>3. o \in S /\ x \in S /\ p \in S /\ h \in S
  <2>1. x \in S /\ p \in S /\ h \in S
    BY DEF UriParts, RestParts, HostPort
  <2>2. o \in S
    BY DEF UriChars
  <2> QED BY <2>1, <2>2
<1>4. a \in S
  <2>1. u.auth \in Seq(UriChars) /\ Free(u.auth, {"@"}) /\ HostPort(u.host, u.port)
    BY DEF UriParts
  <2> DEFINE w == u.auth
             t == <<"@">>
  <2>2. t \in S /\ a = IF w = <<>> THEN <<>> ELSE <<>> \o w \o t
    BY DEF UriChars, UserText, Part
  <2>3. <<>> \o w = w
    BY <2>1, NoEmptyPrefix
  <2>4. w \in S /\ <<>> \in S
    BY <2>1
  <2> HIDE DEF w, t, a
  <2>5. w \o t \in S
    BY <2>2, <2>4, JoinedIs
  <2> QED BY <2>2, <2>3, <2>4, <2>5
<1>5. g \in S /\ q \in S /\ f \in S
  <2>1. u.port = -1 \/ u.port \in Ports
    BY DEF UriParts, HostPort
  <2>2. g \in S
    BY <2>1, PortTextIs
  <2>3. u.query \in S /\ u.fragment \in S /\ "?" \in UriChars /\ "#" \in UriChars
    BY DEF UriParts, RestParts, UriChars
  <2> HIDE DEF g, S
  <2>4. q \in S /\ f \in S
    BY <2>3, MarkTextIs DEF S
  <2> QED BY <2>2, <2>4
<1> HIDE DEF o, x, a, h, g, p, q, f
<1>6. \A y, z \in S : y \o z \in S
  BY JoinedIs
<1>8. <<>> \o x = x
  BY <1>3, NoEmptyPrefix
<1> HIDE DEF S
<1>9. (x \o o) \o a \o h \o g \o p \o q \o f = x \o (o \o ((a \o (h \o g)) \o ((p \o q) \o f)))
  <2> DEFINE A == a \o (h \o g)
             R == (p \o q) \o f
             E == x \o o
             ah == a \o h
             pq == p \o q
             B == E \o A
             hg == h \o g
  <2>1. hg \in S /\ ah \in S /\ pq \in S /\ E \in S
    BY <1>3, <1>4, <1>5, <1>6
  <2>2. A = a \o hg /\ R = pq \o f /\ B = E \o A
    OBVIOUS
  <2>3. ah \o g = A
    <3>1. (a \o h) \o g = a \o (h \o g)
      <4>1. a \in S /\ h \in S /\ g \in S
        BY <1>3, <1>4, <1>5
      <4> QED BY <4>1, ConcatAssociative DEF S
    <3> QED BY <3>1
  <2> HIDE DEF E, hg, A, pq, R, B
  <2>4. A \in S /\ R \in S
    BY <1>4, <1>5, <1>6, <2>1, <2>2
  <2>5. B \in S
    BY <1>6, <2>1, <2>2, <2>4
  <2>6. (E \o a) \o h = E \o ah
    <3>1. (E \o a) \o h = E \o (a \o h)
      <4>1. E \in S /\ a \in S /\ h \in S
        BY <1>3, <1>4, <2>1
      <4> QED BY <4>1, ConcatAssociative, SMTT(30) DEF S
    <3> QED BY <3>1
  <2> HIDE DEF ah
  <2>7. (E \o ah) \o g = B
    <3>1. (E \o ah) \o g = E \o (ah \o g)
      <4>1. E \in S /\ ah \in S /\ g \in S
        BY <1>5, <2>1
      <4> QED BY <4>1, ConcatAssociative, SMTT(30) DEF S
    <3> QED BY <2>2, <2>3, <3>1
  <2>8. ((B \o p) \o q) \o f = B \o R
    <3>1. (B \o p) \o q = B \o pq
      <4>1. B \in S /\ p \in S /\ q \in S
        BY <1>3, <1>5, <2>5
      <4>2. (B \o p) \o q = B \o (p \o q)
        BY <4>1, ConcatAssociative DEF S
      <4> QED BY <4>2 DEF pq
    <3>2. (B \o pq) \o f = B \o (pq \o f)
      <4>1. B \in S /\ pq \in S /\ f \in S
        BY <1>5, <2>1, <2>5
      <4> QED BY <4>1, ConcatAssociative DEF S
    <3> QED BY <2>2, <3>1, <3>2
  <2>9. B \o R = x \o (o \o (A \o R))
    <3>1. B \o R = E \o (A \o R) /\ A \o R \in S
      <4>1. A \in S /\ R \in S /\ E \in S
        BY <2>1, <2>4
      <4>2. (E \o A) \o R = E \o (A \o R)
        BY <4>1, ConcatAssociative DEF S
      <4> QED BY <4>1, <4>2, <1>6, <2>2
    <3>2. E \o (A \o R) = x \o (o \o (A \o R))
      <4> DEFINE y == A \o R
      <4>1. x \in S /\ o \in S /\ y \in S
        BY <1>3, <3>1
      <4> HIDE DEF y
      <4>2. (x \o o) \o y = x \o (o \o y)
        BY <4>1, ConcatAssociative DEF S
      <4> QED BY <4>2 DEF E, y
    <3> QED BY <3>1, <3>2
  <2>10. (((((E \o a) \o h) \o g) \o p) \o q) \o f = x \o (o \o (A \o R))
    BY Zenon, <2>6, <2>7, <2>8, <2>9
  <2> QED BY <2>10 DEF E, A, R, hg, pq
<1> QED BY <1>1, <1>2, <1>8, <1>9 DEF o, x

(* The remainder of a text that was written: a slash, the authority and the  *)
(* rest.                                                                     *)
LEMMA SlashAgain ==
  ASSUME NEW A \in Seq(UriChars), Free(A, AuthorityEnds),
         NEW R \in Seq(UriChars), R = <<>> \/ R[1] \in AuthorityEnds,
         NEW r, r = <<"/">> \o (A \o R)
  PROVE  r \in Seq(UriChars) /\ Slashes(r) /\ AuthorityText(r) = A /\ AuthorityRest(r) = R
<1> DEFINE o == <<"/">>
           c == "/"
           W == A \o R
           w == o \o A
<1>1. o \in Seq(UriChars) /\ Len(o) = 1 /\ c \in UriChars /\ o = <<c>>
  BY DEF UriChars
<1>2. r = o \o W
  OBVIOUS
<1>3. W \in Seq(UriChars)
  BY JoinedIs
<1>4. c = "/" /\ W = A \o R
  OBVIOUS
<1> HIDE DEF c, o, W
<1>5. r \in Seq(UriChars) /\ r # <<>> /\ r[1] = c
  BY <1>1, <1>2, <1>3, BehindMark
<1>6. Behind(r, 1) = W
  BY <1>1, <1>2, <1>3, BehindJoin
<1>7. AuthorityEnd(W) = FirstOf(W, AuthorityEnds)
  BY DEF AuthorityEnd, AuthorityEnds
<1>8. Before(W, FirstOf(W, AuthorityEnds)) = A
  BY <1>4, CutJoin
<1>9. AuthorityText(r) = A
  BY <1>6, <1>7, <1>8 DEF AuthorityText
<1>10. w \in Seq(UriChars) /\ Joined(o, A, w)
  BY <1>1, JoinedIs
<1>11. w \o R = r
  BY <1>1, <1>2, <1>4, ConcatAssociative
<1> HIDE DEF w
<1>12. Behind(w \o R, Len(w)) = R
  BY <1>10, BehindJoin
<1>13. Len(w) = 1 + Len(A)
  BY <1>1, <1>10 DEF Joined
<1>14. AuthorityRest(r) = R
  BY <1>9, <1>11, <1>12, <1>13 DEF AuthorityRest
<1> QED BY <1>4, <1>5, <1>9, <1>14 DEF Slashes

LEMMA SchemeAgain ==
  ASSUME NEW x \in Seq(UriChars), \A k \in 1..(Len(x) - 1) : ~ColonSlash(x, k),
         NEW W \in Seq(UriChars), NEW T, T = x \o (<<":", "/", "/">> \o W)
  PROVE  /\ SchemeEnd(T) = Len(x) + 1 /\ Before(T, Len(x) + 1) = x
         /\ Behind(T, (Len(x) + 1) + 1) = <<"/">> \o W
<1> DEFINE m == <<":", "/", "/">>
           d == <<":", "/">>
           o == <<"/">>
           y == m \o W
           r == o \o W
           w == x \o d
<1>1. /\ m \in Seq(UriChars) /\ Len(m) = 3 /\ m[1] = ":" /\ m[2] = "/"
      /\ d \in Seq(UriChars) /\ Len(d) = 2
      /\ o \in Seq(UriChars) /\ d \o o = m
  <2>1. m \in Seq(UriChars) /\ d \in Seq(UriChars) /\ o \in Seq(UriChars)
    BY DEF UriChars
  <2>2. Len(m) = 3 /\ m[1] = ":" /\ m[2] = "/" /\ Len(d) = 2
    OBVIOUS
  <2>3. d[1] = ":" /\ d[2] = "/" /\ o[1] = "/" /\ m[3] = "/" /\ Len(o) = 1
    OBVIOUS
  <2> DEFINE z == d \o o
  <2> HIDE DEF m, d, o
  <2>4. z \in Seq(UriChars) /\ Joined(d, o, z)
    BY <2>1, JoinedIs
  <2> HIDE DEF z
  <2>5. Len(z) = 3 /\ z[1] = ":" /\ z[2] = "/" /\ z[3] = "/"
    <3>1. 1 \in 1..2 /\ 2 \in 1..2 /\ 1 \in 1..1 /\ 2 + 1 = 3
      OBVIOUS
    <3> QED BY <2>2, <2>3, <2>4, <3>1 DEF Joined
  <2>6. \A k \in 1..3 : z[k] = m[k]
    <3>1. \A k \in 1..3 : k = 1 \/ k = 2 \/ k = 3
      OBVIOUS
    <3> QED BY Zenon, <2>2, <2>3, <2>5, <3>1
  <2>7. z = m
    <3> DEFINE n == 3
    <3>1. Len(z) = n /\ Len(m) = n /\ \A k \in 1..n : z[k] = m[k]
      BY <2>2, <2>5, <2>6
    <3> HIDE DEF n
    <3> QED BY <2>1, <2>4, <3>1, SameText
  <2> QED BY <2>1, <2>2, <2>7 DEF z
<1>2. T = x \o y
  OBVIOUS
<1> HIDE DEF m, d, o
<1>3. y \in Seq(UriChars) /\ Joined(m, W, y) /\ r \in Seq(UriChars) /\ w \in Seq(UriChars) /\ Joined(x, d, w)
  BY <1>1, JoinedIs
<1>4. y = d \o r
  <2>0. d \in Seq(UriChars) /\ o \in Seq(UriChars)
    BY <1>1
  <2>1. (d \o o) \o W = d \o (o \o W)
    BY ONLY <2>0, W \in Seq(UriChars), ConcatAssociative, SMTT(30)
  <2>2. y = m \o W /\ r = o \o W /\ d \o o = m
    BY <1>1
  <2> HIDE DEF y, r
  <2> QED BY Zenon, <2>1, <2>2
<1>5. w \o r = x \o (d \o r)
  <2>1. w = x \o d /\ d \in Seq(UriChars) /\ r \in Seq(UriChars)
    BY <1>1, <1>3
  <2> HIDE DEF r, w
  <2>2. (x \o d) \o r = x \o (d \o r)
    BY <2>1, ConcatAssociative, SMTT(30)
  <2> QED BY Zenon, <2>1, <2>2
<1> HIDE DEF y, r, w
<1>6. Len(y) >= 2 /\ y[1] = ":" /\ y[2] = "/" /\ Len(y) # 0
  <2>1. 1 \in 1..3 /\ 2 \in 1..3
    OBVIOUS
  <2> QED BY <1>1, <1>3, <2>1, SMTT(30) DEF Joined
<1>7. ColonSlash(y, 1)
  <2>1. 1 + 1 = 2
    OBVIOUS
  <2> QED BY <1>6, <2>1 DEF ColonSlash
<1>8. SchemeEnd(T) = Len(x) + 1
  BY <1>2, <1>3, <1>6, <1>7, EndJoin
<1>9. y # <<>>
  BY <1>6
<1>10. Before(T, Len(x) + 1) = x
  BY <1>2, <1>3, <1>9, BeforeJoin
<1>11. Behind(w \o r, Len(w)) = r
  BY <1>3, BehindJoin
<1>12. Len(w) = (Len(x) + 1) + 1
  BY <1>1, <1>3 DEF Joined
<1>13. Behind(T, (Len(x) + 1) + 1) = r
  BY <1>2, <1>4, <1>5, <1>11, <1>12
<1> QED BY <1>8, <1>10, <1>13 DEF r, o

(* Parsing what to_string wrote gives the same uri again.                    *)
LEMMA TextParsed ==
  ASSUME NEW u, UriParts(u), u.scheme # <<>>, u.auth # <<>> \/ Free(u.host, {"@"}),
         u.path = <<>> \/ u.path[1] = "/"
  PROVE  Parse(to_string(u)) = u
<1> DEFINE T == to_string(u)
           x == u.scheme
           auth == u.auth
           host == u.host
           port == u.port
           p == u.path
           q == u.query
           f == u.fragment
           A == Written(auth, host, port)
           R == RestText(p, q, f)
           W == A \o R
           o == <<"/">>
           r == o \o W
           c == Len(x) + 1
<1>1. /\ x \in Seq(UriChars) /\ \A k \in 1..(Len(x) - 1) : ~ColonSlash(x, k)
      /\ auth \in Seq(UriChars) /\ Free(auth, {"@"}) /\ HostPort(host, port)
      /\ Free(auth, AuthorityEnds) /\ Free(host, AuthorityEnds)
      /\ RestParts(p, q, f)
  BY DEF UriParts
<1>2. u = [fails |-> "", scheme |-> x, auth |-> auth, host |-> host, port |-> port,
           path |-> p, query |-> q, fragment |-> f]
  BY DEF UriParts
<1>3. T = x \o (<<":", "/", "/">> \o W)
  BY TextIs
<1>4. (auth # <<>> \/ Free(host, {"@"})) /\ (p = <<>> \/ p[1] = "/")
  OBVIOUS
<1>5. A = Written(auth, host, port) /\ R = RestText(p, q, f)
  OBVIOUS
<1> HIDE DEF T, x, auth, host, port, p, q, f
<1>6. A \in Seq(UriChars) /\ Authority(A) = [auth |-> auth, host |-> host, port |-> port, fails |-> ""]
  BY <1>1, <1>4, AuthorityAgain
<1>7. Free(A, AuthorityEnds)
  <2>1. "@" \notin AuthorityEnds /\ ":" \notin AuthorityEnds /\ Digit \notin AuthorityEnds
    BY DEF AuthorityEnds, Digit
  <2> QED BY <1>1, <2>1, WrittenFree
<1>8. /\ R \in Seq(UriChars) /\ (R = <<>> \/ R[1] \in AuthorityEnds)
      /\ PathOf(R) = p /\ QueryOf(R) = q /\ FragmentOf(R) = f
  BY <1>1, <1>4, RestAgain DEF AuthorityEnds
<1> HIDE DEF A, R
<1>9. W \in Seq(UriChars)
  BY <1>6, <1>8, JoinedIs
<1>10. r \in Seq(UriChars) /\ Slashes(r) /\ AuthorityText(r) = A /\ AuthorityRest(r) = R
  BY <1>6, <1>7, <1>8, SlashAgain
<1>11. r = <<"/">> \o W
  OBVIOUS
<1> HIDE DEF W, r, o
<1>12. SchemeEnd(T) = c /\ Before(T, c) = x /\ Behind(T, c + 1) = r
  BY <1>1, <1>3, <1>9, <1>11, SchemeAgain
<1>13. c # 0
  <2>1. Len(x) \in Nat
    BY <1>1
  <2> QED BY <2>1
<1> HIDE DEF c
<1>14. Parse(T) = Whole(Authority(A), x, R)
  BY <1>10, <1>12, <1>13, ParseSlashes
<1> DEFINE v == Authority(A)
<1>15. v.auth = auth /\ v.host = host /\ v.port = port /\ v.fails = ""
  <2>1. v = [auth |-> auth, host |-> host, port |-> port, fails |-> ""]
    BY <1>6
  <2> HIDE DEF v
  <2> QED BY ONLY <2>1
<1> HIDE DEF v
<1>16. Whole(v, x, R) = u
  BY Zenon, <1>2, <1>8, <1>15 DEF Whole
<1> QED BY <1>14, <1>16 DEF v, T

-------------------------------------------------------------------------------
(* The three promises.                                                       *)
LEMMA PartsHold ==
  ASSUME NEW s \in Seq(UriChars), NEW u, u = Parse(s), u.fails = ""
  PROVE  /\ Without(u.auth \o u.host, {"/", "?", "#"})
         /\ Without(u.path, {"?", "#"}) /\ Without(u.query, {"#"})
<1> DEFINE ends == {"/", "?", "#"}
           marks == {"?", "#"}
           hash == {"#"}
           auth == u.auth
           host == u.host
           p == u.path
           q == u.query
           b == auth \o host
<1>1. UriParts(u)
  BY ParsedParts
<1>2. /\ auth \in Seq(UriChars) /\ host \in Seq(UriChars)
      /\ Free(auth, ends) /\ Free(host, ends)
  BY <1>1 DEF UriParts, HostPort, AuthorityEnds
<1>3. p \in Seq(UriChars) /\ q \in Seq(UriChars) /\ Free(q, hash)
  BY <1>1 DEF UriParts, RestParts
<1>4. Free(p, marks)
  BY <1>1 DEF UriParts, RestParts, Free
<1> HIDE DEF ends, marks, hash, auth, host, p, q
<1>5. b \in Seq(UriChars) /\ Free(b, ends)
  BY <1>2, JoinedIs, FreeJoin
<1> HIDE DEF b
<1>6. Without(b, ends) /\ Without(p, marks) /\ Without(q, hash)
  BY <1>3, <1>4, <1>5, WithoutIs
<1> QED BY <1>6 DEF b, ends, marks, hash, auth, host, p, q

LEMMA ReversibleParsed ==
  ASSUME NEW s \in Seq(UriChars), Reversible(s)
  PROVE  Parse(to_string(Parse(s))) = Parse(s)
<1> DEFINE u == Parse(s)
           host == u.host
           at == {"@"}
<1>1. /\ u.fails = "" /\ u.scheme # <<>> /\ s[SchemeEnd(s) + 2] = "/"
      /\ ~(u.auth = <<>> /\ ~Without(host, at))
  BY DEF Reversible
<1>2. UriParts(u) /\ (u.path = <<>> \/ u.path[1] = "/")
  BY <1>1, ParsedParts
<1>3. host \in Seq(UriChars)
  BY <1>2 DEF UriParts, HostPort
<1> HIDE DEF u, host, at
<1>4. u.auth # <<>> \/ Free(host, at)
  BY <1>1, <1>3, WithoutIs
<1>5. Parse(to_string(u)) = u
  BY <1>1, <1>2, <1>4, TextParsed DEF host, at
<1> QED BY <1>5 DEF u

LEMMA PathHolds ==
  ASSUME NEW s \in Seq(UriChars)
  PROVE  split_path(merge_path(split_path(s))) = split_path(s)
<1> DEFINE q == split_path(s)
<1>1. q \in Seq(Seq(UriChars)) /\ Pieces(q, "/") /\ "/" \in UriChars
  BY SplitPieces DEF split_path, UriChars
<1> HIDE DEF q
<1>2. split_path(merge_path(q)) = q
  BY <1>1, PathAgain
<1> QED BY <1>2 DEF q

LEMMA FormHolds ==
  ASSUME NEW s \in Seq(UriChars), NEW form \in Orders(parse_formdata(s)),
         \A i \in DOMAIN form : form[i][2] # <<>>
  PROVE  parse_formdata(build_formdata(form)) = form
<1> DEFINE q == parse_formdata(s)
           N == Len(q)
<1>1. q \in Seq(Entries)
  BY ParsedEntries
<1>2. N \in Nat /\ DOMAIN q = 1..N /\ \A i \in 1..N : q[i] \in Entries
  BY <1>1, ElementOfSeq
<1> HIDE DEF q, N
<1>3. PICK p \in [1..N -> 1..N] : form = [i \in 1..N |-> q[p[i]]]
  BY <1>2 DEF Orders, Bijection, Injection, q
<1>4. \A i \in 1..N : form[i] \in Entries /\ form[i][2] # <<>>
  BY <1>2, <1>3
<1>5. \A i \in 1..N : form[i] \in Solid
  <2> SUFFICES ASSUME NEW i \in 1..N PROVE form[i] \in Solid
    OBVIOUS
  <2>1. PICK k \in Texts, v \in Seq(UriChars) : form[i] = <<k, v>>
    BY <1>4 DEF Entries
  <2>2. v # <<>>
    BY <2>1, <1>4
  <2> QED BY <2>1, <2>2 DEF Solid, Texts
<1>6. form \in Seq(Solid)
  <2>1. form \in [1..N -> Solid]
    BY <1>3, <1>5
  <2> QED BY <2>1, <1>2
<1> QED BY <1>6, FormAgain

LEMMA RoundTrip ==
  ASSUME uri_text \in Seq(UriChars)
  PROVE  UriRoundTrip
<1> DEFINE u == Parse(uri_text)
<1>1. u.fails = "" => /\ Without(u.auth \o u.host, {"/", "?", "#"})
                      /\ Without(u.path, {"?", "#"}) /\ Without(u.query, {"#"})
  BY PartsHold
<1>2. Reversible(uri_text) => Parse(to_string(u)) = u
  BY ReversibleParsed
<1> HIDE DEF u
<1>3. \A form \in Orders(parse_formdata(uri_text)) :
        (\A i \in DOMAIN form : form[i][2] # <<>>) => parse_formdata(build_formdata(form)) = form
  BY FormHolds
<1> QED BY Zenon, <1>1, <1>2, <1>3, PathHolds DEF UriRoundTrip, u

(* The text is made of the characters that parse tells apart.                *)
TextInv == uri_text \in Seq(UriChars)

LEMMA TextStays == TextInv /\ [UriNext]_uri_text => TextInv'
<1> SUFFICES ASSUME TextInv, [UriNext]_uri_text PROVE TextInv'
  OBVIOUS
<1>1. CASE UriNext
  <2>1. PICK p \in UriPieces : uri_text' = uri_text \o p
    BY <1>1 DEF UriNext
  <2>2. p \in Seq(UriChars)
    BY UriAssumption
  <2> QED BY <2>1, <2>2, JoinedIs DEF TextInv
<1>2. CASE UNCHANGED uri_text
  BY <1>2 DEF TextInv
<1> QED BY <1>1, <1>2

(* In every reachable text of any length: no part of a parsed uri holds what *)
(* would have ended it, what to_string writes of a reversible one is parsed  *)
(* to the same uri again, and the path survives being taken apart and put    *)
(* together, as does form data without an empty value (uri.cpp:7-117,        *)
(* uri.h:60-94).                                                             *)
THEOREM UriComesBack == UriSpec => []UriRoundTrip
<1>1. UriInit => TextInv
  BY UriAssumption DEF UriInit, TextInv
<1>2. TextInv => UriRoundTrip
  BY RoundTrip DEF TextInv
<1> QED BY <1>1, <1>2, TextStays, PTL DEF UriSpec
===============================================================================
