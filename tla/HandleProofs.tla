---------------------------- MODULE HandleProofs ----------------------------
(* What one caller sets up.  The lists of slist, for any number of lists and *)
(* nodes: following their pointers gives what the calls were to produce, and *)
(* nodes are owned once.  Then the options and lists that a handle keeps for *)
(* libcurl, the cookies, and a request with its response, for any constants. *)
EXTENDS Slist, Handle, Request, QueueLemmas, FiniteSetTheorems, FunctionTheorems

(* The nodes s, and nothing else, are passed on the way from n to the end.   *)
Links(nx, n, s) ==
  /\ \A i \in 1..Len(s) : s[i] \in Nodes /\ nx[s[i]] = IF i < Len(s) THEN s[i + 1] ELSE Null
  /\ \A i, j \in 1..Len(s) : s[i] = s[j] => i = j
  /\ n = IF Len(s) = 0 THEN Null ELSE s[1]

Has(s, n) == \E i \in 1..Len(s) : s[i] = n

EndNode(s) == IF Len(s) = 0 THEN Null ELSE s[Len(s)]

Owners == Lists \cup {"caller"}

First(o) == IF o = "caller" THEN raw ELSE m_first_node[o]

(* The nodes of every list, and of the caller's chain, are those of ch.      *)
Represents(ch) ==
  /\ ch \in [Owners -> Seq(Nodes)]
  /\ \A o \in Owners : Links(next, First(o), ch[o])
  /\ \A o, p \in Owners : o # p => \A i \in 1..Len(ch[o]) : ~Has(ch[p], ch[o][i])
  /\ \A n : n \in allocated <=> \E o \in Owners : Has(ch[o], n)
  /\ \A l \in Lists : m_last_node[l] = EndNode(ch[l])
  /\ \A l \in Lists : items[l] = [i \in 1..Len(ch[l]) |-> data[ch[l][i]]]

SlistTypes ==
  /\ next \in [Nodes -> Nodes \cup {Null}] /\ data \in [Nodes -> Data]
  /\ m_first_node \in [Lists -> Nodes \cup {Null}]
  /\ m_last_node \in [Lists -> Nodes \cup {Null}]
  /\ items \in [Lists -> Seq(Data)]

SlistInv == SlistTypes /\ \E ch : Represents(ch)

(* A walk from the first of the nodes s passes them one by one.              *)
LEMMA WalkAlong ==
  ASSUME NEW n, NEW s \in Seq(Nodes), Links(next, n, s), NEW i \in Nat
  PROVE  Walk(n, i) = IF i < Len(s) THEN s[i + 1] ELSE Null
<1> USE ListAssumption
<1> DEFINE step(f) == [k \in 0..i |-> IF k = 0 THEN n ELSE IF f[k - 1] = Null THEN Null ELSE next[f[k - 1]]]
           w == CHOOSE f : f = step(f)
           At(k) == IF k < Len(s) THEN s[k + 1] ELSE Null
           g == [k \in 0..i |-> At(k)]
<1>1. Walk(n, i) = w[i]
  BY DEF Walk
<1>2. g = step(g)
  <2>1. ASSUME NEW k \in 0..i
        PROVE  At(k) = IF k = 0 THEN n ELSE IF g[k - 1] = Null THEN Null ELSE next[g[k - 1]]
    <3>1. CASE k = 0
      BY <3>1 DEF Links
    <3>2. CASE k # 0
      <4>1. k - 1 \in 0..i /\ k = (k - 1) + 1
        BY <3>2
      <4>2. g[k - 1] = At(k - 1)
        BY <4>1
      <4>3. CASE k - 1 < Len(s)
        <5>1. /\ k \in 1..Len(s) /\ At(k - 1) = s[k] /\ s[k] # Null
              /\ next[s[k]] = IF k < Len(s) THEN s[k + 1] ELSE Null
          BY <4>1, <4>3, <3>2, SMTT(30) DEF Links
        <5> QED BY <5>1, <4>2, <3>2
      <4>4. CASE ~(k - 1 < Len(s))
        <5>1. At(k - 1) = Null /\ At(k) = Null
          BY <4>1, <4>4
        <5> QED BY <5>1, <4>2, <3>2
      <4> QED BY <4>3, <4>4
    <3> QED BY <3>1, <3>2
  <2> QED BY <2>1
<1>3. w = step(w)
  <2> HIDE DEF g
  <2> QED BY <1>2
<1>4. \A k \in 0..i : w[k] = At(k)
  <2> DEFINE T == {k \in 0..i : w[k] # At(k)}
  <2> SUFFICES ASSUME T # {} PROVE FALSE
    OBVIOUS
  <2> HIDE DEF w
  <2>1. T \in SUBSET Nat
    OBVIOUS
  <2>2. PICK k \in T : \A m \in T : k <= m
    <3> HIDE DEF T
    <3> QED BY <2>1, LeastNumber
  <2>3. w[k] = IF k = 0 THEN n ELSE IF w[k - 1] = Null THEN Null ELSE next[w[k - 1]]
    BY <1>3, <2>2
  <2>4. CASE k = 0
    BY <2>2, <2>3, <2>4 DEF Links
  <2>5. CASE k # 0
    <3>1. w[k - 1] = At(k - 1)
      BY <2>2, <2>5
    <3> QED BY <3>1, <2>2, <2>3, <2>5 DEF Links
  <2> QED BY <2>4, <2>5
<1> QED BY <1>1, <1>4

(* There are no more nodes on the way than there are nodes.                  *)
LEMMA LinksBounded ==
  ASSUME NEW n, NEW s \in Seq(Nodes), Links(next, n, s)
  PROVE  /\ Len(s) \in Nat /\ Cardinality(Nodes) \in Nat /\ Len(s) <= Cardinality(Nodes)
         /\ Cardinality({s[i] : i \in 1..Len(s)}) = Len(s)
<1> DEFINE R == {s[i] : i \in 1..Len(s)}
<1>1. Len(s) \in Nat /\ s \in [1..Len(s) -> R] /\ R \subseteq Nodes /\ IsFiniteSet(Nodes)
  BY ListAssumption DEF Links
<1>2. s \in Bijection(1..Len(s), R)
  <2>1. \A i, j \in 1..Len(s) : s[i] = s[j] => i = j
    BY DEF Links
  <2>2. \A r \in R : \E i \in 1..Len(s) : s[i] = r
    OBVIOUS
  <2> HIDE DEF R
  <2> QED BY <1>1, <2>1, <2>2 DEF Bijection, Injection, Surjection, IsInjective
<1>3. ExistsBijection(1..Len(s), R)
  <2> HIDE DEF R
  <2> QED BY <1>2 DEF ExistsBijection
<1>4. Cardinality(R) = Len(s)
  <2> HIDE DEF R
  <2> QED BY <1>1, <1>3, FS_CountingElements
<1>5. Cardinality(Nodes) \in Nat /\ Cardinality(R) <= Cardinality(Nodes)
  <2> HIDE DEF R
  <2> QED BY <1>1, FS_Subset, FS_CardinalityType
<1> QED BY <1>1, <1>4, <1>5

(* What the operators on pointers give for a chain of known nodes.           *)
LEMMA ChainOfLinks ==
  ASSUME NEW n, NEW s \in Seq(Nodes), Links(next, n, s)
  PROVE  /\ ChainOf(n) = {s[i] : i \in 1..Len(s)}
         /\ \A m : m \in ChainOf(n) <=> Has(s, m)
         /\ Contents(n) = [i \in 1..Len(s) |-> data[s[i]]]
         /\ Len(s) > 0 => EndOf(n) = EndNode(s)
<1> USE ListAssumption
<1> DEFINE C == Cardinality(Nodes)
<1>1. Len(s) \in Nat /\ C \in Nat /\ Len(s) <= C
  BY LinksBounded
<1>2. \A i \in Nat : Walk(n, i) = IF i < Len(s) THEN s[i + 1] ELSE Null
  BY WalkAlong
<1>3. ASSUME NEW m PROVE m \in ChainOf(n) <=> Has(s, m)
  <2>1. ASSUME m \in ChainOf(n) PROVE Has(s, m)
    <3>1. PICK i \in 0..C : m = Walk(n, i)
      BY <2>1 DEF ChainOf
    <3>2. i \in Nat /\ m # Null
      BY <1>1, <2>1 DEF ChainOf
    <3>3. i + 1 \in 1..Len(s) /\ s[i + 1] = m
      BY <3>1, <3>2, <1>1, <1>2
    <3> QED BY <3>3 DEF Has
  <2>2. ASSUME NEW i \in 1..Len(s), s[i] = m PROVE m \in ChainOf(n)
    <3>1. i - 1 \in 0..C /\ Walk(n, i - 1) = m /\ m # Null
      BY <2>2, <1>1, <1>2 DEF Links
    <3> QED BY <3>1 DEF ChainOf
  <2> QED BY <2>1, <2>2 DEF Has
<1>4. ChainOf(n) = {s[i] : i \in 1..Len(s)}
  BY <1>3 DEF Has
<1>5. Cardinality(ChainOf(n)) = Len(s)
  BY <1>4, LinksBounded
<1>6. \A i \in 1..Len(s) : Walk(n, i - 1) = s[i]
  BY <1>1, <1>2
<1>7. Contents(n) = [i \in 1..Len(s) |-> data[s[i]]]
  BY <1>5, <1>6 DEF Contents
<1>8. ASSUME Len(s) > 0 PROVE EndOf(n) = EndNode(s)
  <2>1. EndNode(s) \in ChainOf(n) /\ next[EndNode(s)] = Null
    BY <1>8, <1>1, <1>3 DEF Links, Has, EndNode
  <2>2. ASSUME NEW e \in ChainOf(n), next[e] = Null PROVE e = EndNode(s)
    BY <2>2, <1>1, <1>3 DEF Links, Has, EndNode
  <2> QED BY <2>1, <2>2 DEF EndOf
<1> QED BY <1>3, <1>4, <1>7, <1>8

-------------------------------------------------------------------------------
(* A sequence with an element more behind the first k, or without the k-th.  *)
With(s, k, e) == [i \in 1..(Len(s) + 1) |-> IF i <= k THEN s[i] ELSE IF i = k + 1 THEN e ELSE s[i - 1]]

Without(s, k) == [i \in 1..(Len(s) - 1) |-> IF i < k THEN s[i] ELSE s[i + 1]]

LEMMA WithInserts ==
  ASSUME NEW S, NEW s \in Seq(S), NEW k \in 0..Len(s), NEW e \in S
  PROVE  /\ With(s, k, e) \in Seq(S) /\ Len(With(s, k, e)) = Len(s) + 1 /\ Len(s) \in Nat
         /\ InsertAt(s, k + 1, e) = With(s, k, e)
<1> DEFINE a == SubSeq(s, 1, k)
           b == SubSeq(s, k + 1, Len(s))
<1>1. Len(s) \in Nat /\ k \in Int /\ \A i \in 1..Len(s) : s[i] \in S
  OBVIOUS
<1>2. a \in Seq(S) /\ Len(a) = k /\ \A i \in 1..k : a[i] = s[i]
  <2>1. \A i \in 1..k : s[i] \in S
    BY <1>1
  <2> QED BY <1>1, <2>1, SubSeqProperties
<1>3. b \in Seq(S) /\ Len(b) = Len(s) - k /\ \A i \in 1..(Len(s) - k) : b[i] = s[k + i]
  <2>1. \A i \in (k + 1)..Len(s) : s[i] \in S
    BY <1>1
  <2>2. /\ b \in Seq(S) /\ Len(b) = IF k + 1 <= Len(s) THEN Len(s) - (k + 1) + 1 ELSE 0
        /\ \A i \in 1..(Len(s) - (k + 1) + 1) : b[i] = s[k + 1 + i - 1]
    BY <1>1, <2>1, SubSeqProperties
  <2> QED BY <1>1, <2>2
<1>4. With(s, k, e) \in Seq(S) /\ Len(With(s, k, e)) = Len(s) + 1
  <2>1. \A i \in 1..(Len(s) + 1) :
          (IF i <= k THEN s[i] ELSE IF i = k + 1 THEN e ELSE s[i - 1]) \in S
    BY <1>1
  <2> QED BY <1>1, <2>1 DEF With
<1> HIDE DEF a, b
<1>5. a \o <<e>> \in Seq(S) /\ Len(a \o <<e>>) = k + 1
      /\ \A i \in 1..(k + 1) : (a \o <<e>>)[i] = IF i <= k THEN s[i] ELSE e
  BY <1>1, <1>2
<1> DEFINE c == a \o <<e>>
<1> HIDE DEF c
<1>6. c \o b \in Seq(S) /\ Len(c \o b) = Len(s) + 1
      /\ \A i \in 1..(Len(s) + 1) : (c \o b)[i] = IF i <= k + 1 THEN c[i] ELSE b[i - (k + 1)]
  BY <1>1, <1>3, <1>5, ConcatProperties DEF c
<1>7. ASSUME NEW i \in 1..(Len(s) + 1) PROVE (c \o b)[i] = With(s, k, e)[i]
  <2>1. With(s, k, e)[i] = IF i <= k THEN s[i] ELSE IF i = k + 1 THEN e ELSE s[i - 1]
    BY DEF With
  <2>2. CASE i <= k + 1
    BY <2>1, <2>2, <1>1, <1>5, <1>6 DEF c
  <2>3. CASE i > k + 1
    <3>1. i - (k + 1) \in 1..(Len(s) - k) /\ k + (i - (k + 1)) = i - 1
      BY <2>3, <1>1
    <3>2. b[i - (k + 1)] = s[i - 1]
      BY <3>1, <1>3
    <3> QED BY <3>2, <2>1, <2>3, <1>1, <1>6
  <2>4. i <= k + 1 \/ i > k + 1
    BY <1>1
  <2> QED BY <2>2, <2>3, <2>4
<1>8. c \o b = With(s, k, e)
  BY <1>4, <1>6, <1>7, SeqEqual
<1>9. InsertAt(s, k + 1, e) = c \o b
  <2>1. SubSeq(s, 1, (k + 1) - 1) = a
    <3>1. (k + 1) - 1 = k
      BY <1>1
    <3> QED BY <3>1 DEF a
  <2> QED BY <2>1 DEF InsertAt, b, c
<1> QED BY <1>1, <1>4, <1>8, <1>9

LEMMA WithoutRemoves ==
  ASSUME NEW S, NEW s \in Seq(S), NEW k \in 1..Len(s)
  PROVE  /\ Without(s, k) \in Seq(S) /\ Len(Without(s, k)) = Len(s) - 1 /\ Len(s) \in Nat \ {0}
         /\ RemoveAt(s, k) = Without(s, k)
<1> DEFINE a == SubSeq(s, 1, k - 1)
           b == SubSeq(s, k + 1, Len(s))
<1>1. Len(s) \in Nat \ {0} /\ k \in Int /\ \A i \in 1..Len(s) : s[i] \in S
  OBVIOUS
<1>2. a \in Seq(S) /\ Len(a) = k - 1 /\ \A i \in 1..(k - 1) : a[i] = s[i]
  <2>1. \A i \in 1..(k - 1) : s[i] \in S
    BY <1>1
  <2>2. /\ a \in Seq(S) /\ Len(a) = IF 1 <= k - 1 THEN (k - 1) - 1 + 1 ELSE 0
        /\ \A i \in 1..((k - 1) - 1 + 1) : a[i] = s[1 + i - 1]
    BY <1>1, <2>1, SubSeqProperties
  <2> QED BY <1>1, <2>2
<1>3. b \in Seq(S) /\ Len(b) = Len(s) - k /\ \A i \in 1..(Len(s) - k) : b[i] = s[k + i]
  <2>1. \A i \in (k + 1)..Len(s) : s[i] \in S
    BY <1>1
  <2>2. /\ b \in Seq(S) /\ Len(b) = IF k + 1 <= Len(s) THEN Len(s) - (k + 1) + 1 ELSE 0
        /\ \A i \in 1..(Len(s) - (k + 1) + 1) : b[i] = s[k + 1 + i - 1]
    BY <1>1, <2>1, SubSeqProperties
  <2> QED BY <1>1, <2>2
<1>4. Without(s, k) \in Seq(S) /\ Len(Without(s, k)) = Len(s) - 1
  <2>1. \A i \in 1..(Len(s) - 1) : (IF i < k THEN s[i] ELSE s[i + 1]) \in S
    BY <1>1
  <2> QED BY <1>1, <2>1 DEF Without
<1> HIDE DEF a, b
<1>5. a \o b \in Seq(S) /\ Len(a \o b) = Len(s) - 1
      /\ \A i \in 1..(Len(s) - 1) : (a \o b)[i] = IF i <= k - 1 THEN a[i] ELSE b[i - (k - 1)]
  <2>1. a \o b \in Seq(S) /\ Len(a \o b) = Len(a) + Len(b)
        /\ \A i \in 1..(Len(a) + Len(b)) : (a \o b)[i] = IF i <= Len(a) THEN a[i] ELSE b[i - Len(a)]
    BY <1>2, <1>3, ConcatProperties
  <2>2. Len(a) = k - 1 /\ Len(a) + Len(b) = Len(s) - 1
    BY <1>1, <1>2, <1>3
  <2> QED BY <2>1, <2>2
<1>6. \A i \in 1..(Len(s) - 1) : (a \o b)[i] = Without(s, k)[i]
  BY <1>1, <1>2, <1>3, <1>5 DEF Without
<1>7. a \o b = Without(s, k)
  BY <1>4, <1>5, <1>6, SeqEqual
<1> QED BY <1>1, <1>4, <1>7 DEF RemoveAt, a, b

(* A node linked into a chain, and one taken out of it.                      *)
LEMMA LinksWith ==
  ASSUME NEW nx, NEW m, NEW s \in Seq(Nodes), Links(nx, m, s),
         NEW k \in 0..Len(s), NEW n \in Nodes, ~Has(s, n), NEW nx2,
         nx2[n] = IF k < Len(s) THEN s[k + 1] ELSE Null,
         k > 0 => nx2[s[k]] = n,
         \A i \in 1..Len(s) : i # k => nx2[s[i]] = nx[s[i]]
  PROVE  Links(nx2, IF k = 0 THEN n ELSE m, With(s, k, n))
<1> DEFINE t == With(s, k, n)
<1>1. Len(t) = Len(s) + 1 /\ Len(s) \in Nat
  BY WithInserts
<1>2. \A i \in 1..(Len(s) + 1) : t[i] = IF i <= k THEN s[i] ELSE IF i = k + 1 THEN n ELSE s[i - 1]
  BY DEF With
<1>3. \A i \in 1..Len(s) : /\ s[i] \in Nodes /\ s[i] # n
                            /\ nx[s[i]] = IF i < Len(s) THEN s[i + 1] ELSE Null
  BY DEF Links, Has
<1> HIDE DEF t
<1>4. ASSUME NEW i \in 1..Len(t)
      PROVE  t[i] \in Nodes /\ nx2[t[i]] = IF i < Len(t) THEN t[i + 1] ELSE Null
  <2>1. CASE i < k
    <3>1. i \in 1..Len(s) /\ i < Len(s) /\ i # k /\ t[i] = s[i] /\ t[i + 1] = s[i + 1]
      BY <2>1, <1>1, <1>2
    <3> QED BY <3>1, <1>1, <1>3
  <2>2. CASE i = k
    <3>1. i \in 1..Len(s) /\ i < Len(t) /\ t[i] = s[k] /\ t[i + 1] = n
      BY <2>2, <1>1, <1>2
    <3> QED BY <3>1, <2>2, <1>3
  <2>3. CASE i = k + 1
    <3>1. t[i] = n /\ (k < Len(s) => t[i + 1] = s[k + 1]) /\ (k < Len(s) <=> i < Len(t))
      BY <2>3, <1>1, <1>2
    <3> QED BY <3>1
  <2>4. CASE i > k + 1
    <3>1. i - 1 \in 1..Len(s) /\ i - 1 # k /\ t[i] = s[i - 1]
      BY <2>4, <1>1, <1>2
    <3>2. nx2[s[i - 1]] = IF i - 1 < Len(s) THEN s[i] ELSE Null
      BY <3>1, <1>1, <1>3
    <3>3. i < Len(t) => t[i + 1] = s[i]
      BY <2>4, <1>1, <1>2
    <3> QED BY <3>1, <3>2, <3>3, <1>1, <1>3
  <2> QED BY <2>1, <2>2, <2>3, <2>4, <1>1
<1>5. ASSUME NEW i \in 1..Len(t), NEW j \in 1..Len(t), t[i] = t[j] PROVE i = j
  <2>1. \A a, b \in 1..Len(s) : s[a] = s[b] => a = b
    BY DEF Links
  <2>2. ASSUME NEW a \in 1..Len(t) PROVE a = k + 1 <=> t[a] = n
    <3>1. CASE a <= k
      BY <3>1, <1>1, <1>2, <1>3
    <3>2. CASE a = k + 1
      BY <3>2, <1>1, <1>2
    <3>3. CASE a > k + 1
      <4>1. a - 1 \in 1..Len(s) /\ t[a] = s[a - 1]
        BY <3>3, <1>1, <1>2
      <4> QED BY <4>1, <3>3, <1>3
    <3> QED BY <3>1, <3>2, <3>3
  <2>3. CASE i = k + 1 \/ j = k + 1
    BY <2>2, <2>3, <1>5
  <2>4. CASE i # k + 1 /\ j # k + 1
    <3> DEFINE p(a) == IF a <= k THEN a ELSE a - 1
    <3>1. \A a \in 1..Len(t) : a # k + 1 => p(a) \in 1..Len(s) /\ t[a] = s[p(a)]
      BY <1>1, <1>2
    <3>2. p(i) = p(j)
      BY <3>1, <2>1, <2>4, <1>5, SMTT(30)
    <3> QED BY <3>2, <2>4, <1>1
  <2> QED BY <2>3, <2>4
<1>6. (IF k = 0 THEN n ELSE m) = IF Len(t) = 0 THEN Null ELSE t[1]
  BY <1>1, <1>2 DEF Links
<1> QED BY <1>4, <1>5, <1>6 DEF Links, t

LEMMA LinksWithout ==
  ASSUME NEW nx, NEW m, NEW s \in Seq(Nodes), Links(nx, m, s),
         NEW k \in 1..Len(s), NEW nx2,
         k > 1 => nx2[s[k - 1]] = nx[s[k]],
         \A i \in 1..Len(s) : i # k /\ i # k - 1 => nx2[s[i]] = nx[s[i]]
  PROVE  Links(nx2, IF k = 1 THEN nx[m] ELSE m, Without(s, k))
<1> DEFINE t == Without(s, k)
<1>1. Len(t) = Len(s) - 1 /\ Len(s) \in Nat \ {0}
  BY WithoutRemoves
<1>2. \A i \in 1..(Len(s) - 1) : t[i] = IF i < k THEN s[i] ELSE s[i + 1]
  BY DEF Without
<1>3. \A i \in 1..Len(s) : s[i] \in Nodes /\ nx[s[i]] = IF i < Len(s) THEN s[i + 1] ELSE Null
  BY DEF Links
<1> HIDE DEF t
<1>4. ASSUME NEW i \in 1..Len(t)
      PROVE  t[i] \in Nodes /\ nx2[t[i]] = IF i < Len(t) THEN t[i + 1] ELSE Null
  <2>1. CASE i < k - 1
    BY <2>1, <1>1, <1>2, <1>3, SMTT(90)
  <2>2. CASE i = k - 1
    BY <2>2, <1>1, <1>2, <1>3, SMTT(90)
  <2>3. CASE i > k - 1
    BY <2>3, <1>1, <1>2, <1>3, SMTT(90)
  <2> QED BY <2>1, <2>2, <2>3, <1>1
<1>5. ASSUME NEW i \in 1..Len(t), NEW j \in 1..Len(t), t[i] = t[j] PROVE i = j
  <2>1. \A a, b \in 1..Len(s) : s[a] = s[b] => a = b
    BY DEF Links
  <2> QED BY <1>5, <2>1, <1>1, <1>2, <1>3, SMTT(30)
<1>6. (IF k = 1 THEN nx[m] ELSE m) = IF Len(t) = 0 THEN Null ELSE t[1]
  BY <1>1, <1>2, <1>3 DEF Links
<1> QED BY <1>4, <1>5, <1>6 DEF Links, t

-------------------------------------------------------------------------------
(* A call that gives list l the nodes t, and frees those it does not keep,   *)
(* leaves the other chains alone.                                            *)
LEMMA ChangedList ==
  ASSUME NEW ch, Represents(ch), NEW l \in Lists, NEW t \in Seq(Nodes), NEW f,
         m_first_node \in [Lists -> Nodes \cup {Null}],
         m_last_node \in [Lists -> Nodes \cup {Null}], items \in [Lists -> Seq(Data)],
         m_first_node' = [m_first_node EXCEPT ![l] = f],
         m_last_node' = [m_last_node EXCEPT ![l] = EndNode(t)],
         items' = [items EXCEPT ![l] = [i \in 1..Len(t) |-> data'[t[i]]]],
         raw' = raw,
         Links(next', f, t),
         \A n \in allocated : ~Has(ch[l], n) => next'[n] = next[n] /\ data'[n] = data[n],
         \A i \in 1..Len(t) : Has(ch[l], t[i]) \/ t[i] \notin allocated,
         \A n : n \in allocated' <=> Has(t, n) \/ (n \in allocated /\ ~Has(ch[l], n))
  PROVE  Represents([ch EXCEPT ![l] = t])'
<1> USE ListAssumption
<1> DEFINE c == [ch EXCEPT ![l] = t]
<1>1. ch \in [Owners -> Seq(Nodes)] /\ l \in Owners /\ l # "caller"
  BY DEF Represents, Owners
<1>2. c \in [Owners -> Seq(Nodes)] /\ c[l] = t /\ \A o \in Owners \ {l} : c[o] = ch[o]
  BY <1>1
<1> HIDE DEF c
<1>3. /\ \A o \in Owners : Links(next, First(o), ch[o])
      /\ \A o, p \in Owners : o # p => \A i \in 1..Len(ch[o]) : ~Has(ch[p], ch[o][i])
      /\ \A n : n \in allocated <=> \E o \in Owners : Has(ch[o], n)
      /\ \A k \in Lists : m_last_node[k] = EndNode(ch[k])
      /\ \A k \in Lists : items[k] = [i \in 1..Len(ch[k]) |-> data[ch[k][i]]]
  BY DEF Represents
<1>4. First(l)' = f /\ \A o \in Owners \ {l} : First(o)' = First(o)
  BY <1>1 DEF First, Owners
<1>5. ASSUME NEW o \in Owners \ {l}, NEW i \in 1..Len(ch[o])
      PROVE  /\ ch[o][i] \in allocated /\ ~Has(ch[l], ch[o][i]) /\ ~Has(t, ch[o][i])
             /\ next'[ch[o][i]] = next[ch[o][i]] /\ data'[ch[o][i]] = data[ch[o][i]]
  <2>1. Has(ch[o], ch[o][i])
    BY DEF Has
  <2>2. ch[o][i] \in allocated /\ ~Has(ch[l], ch[o][i])
    BY <2>1, <1>1, <1>3
  <2>3. ~Has(t, ch[o][i])
    BY <2>2 DEF Has
  <2> QED BY <2>2, <2>3
<1>6. ASSUME NEW o \in Owners PROVE Links(next', First(o)', c[o])
  <2>1. CASE o = l
    BY <2>1, <1>2, <1>4
  <2>2. CASE o # l
    <3>1. Links(next, First(o), ch[o]) /\ First(o)' = First(o) /\ c[o] = ch[o]
      BY <2>2, <1>2, <1>3, <1>4
    <3>2. \A i \in 1..Len(ch[o]) : next'[ch[o][i]] = next[ch[o][i]]
      BY <2>2, <1>5
    <3> QED BY <3>1, <3>2 DEF Links
  <2> QED BY <2>1, <2>2
<1>7. ASSUME NEW o \in Owners, NEW p \in Owners, o # p, NEW i \in 1..Len(c[o])
      PROVE  ~Has(c[p], c[o][i])
  <2>1. CASE p = l
    BY <2>1, <1>2, <1>5, <1>7
  <2>2. CASE o = l
    <3>1. c[o] = t /\ c[p] = ch[p] /\ p \in Owners \ {l}
      BY <2>2, <1>2, <1>7
    <3>2. ASSUME NEW j \in 1..Len(ch[p]), ch[p][j] = t[i] PROVE FALSE
      BY <3>1, <3>2, <1>5, <1>7 DEF Has
    <3> QED BY <3>1, <3>2 DEF Has
  <2>3. CASE o # l /\ p # l
    BY <2>3, <1>2, <1>3, <1>7
  <2> QED BY <2>1, <2>2, <2>3
<1>8. ASSUME NEW n PROVE n \in allocated' <=> \E o \in Owners : Has(c[o], n)
  <2>1. ASSUME n \in allocated, ~Has(ch[l], n) PROVE \E o \in Owners : Has(c[o], n)
    BY <2>1, <1>2, <1>3
  <2>2. ASSUME NEW o \in Owners, o # l, Has(c[o], n) PROVE n \in allocated /\ ~Has(ch[l], n)
    BY <2>2, <1>2, <1>5 DEF Has
  <2>3. Has(c[l], n) <=> Has(t, n)
    BY <1>2
  <2> QED BY <2>1, <2>2, <2>3, <1>1
<1>9. ASSUME NEW k \in Lists PROVE m_last_node'[k] = EndNode(c[k])
  <2>1. CASE k = l
    BY <2>1, <1>2
  <2>2. CASE k # l
    BY <2>2, <1>2, <1>3 DEF Owners
  <2> QED BY <2>1, <2>2
<1>10. ASSUME NEW k \in Lists PROVE items'[k] = [i \in 1..Len(c[k]) |-> data'[c[k][i]]]
  <2>1. CASE k = l
    BY <2>1, <1>2
  <2>2. CASE k # l
    <3>1. c[k] = ch[k] /\ items'[k] = items[k] /\ k \in Owners \ {l}
      BY <2>2, <1>2 DEF Owners
    <3>2. items[k] = [i \in 1..Len(ch[k]) |-> data[ch[k][i]]]
      BY <1>3
    <3>3. \A i \in 1..Len(ch[k]) : data'[ch[k][i]] = data[ch[k][i]]
      BY <3>1, <1>5
    <3> QED BY <3>1, <3>2, <3>3
  <2> QED BY <2>1, <2>2
<1> QED BY <1>2, <1>6, <1>7, <1>8, <1>9, <1>10 DEF Represents, c

LEMMA AllocatedNodes ==
  ASSUME NEW ch, Represents(ch)
  PROVE  allocated \subseteq Nodes
<1>1. ASSUME NEW n \in allocated PROVE n \in Nodes
  <2>1. PICK o \in Owners : Has(ch[o], n)
    BY DEF Represents
  <2>2. ch[o] \in Seq(Nodes)
    BY DEF Represents
  <2> QED BY <2>1, <2>2 DEF Has
<1> QED BY <1>1

(* What holds of every list that has the nodes s.                            *)
LEMMA ListFacts ==
  ASSUME SlistTypes, NEW ch, Represents(ch), NEW l \in Lists
  PROVE  /\ ch[l] \in Seq(Nodes) /\ Links(next, m_first_node[l], ch[l])
         /\ items[l] \in Seq(Data) /\ Len(items[l]) = Len(ch[l]) /\ Len(ch[l]) \in Nat
         /\ \A i \in 1..Len(ch[l]) : /\ ch[l][i] \in Nodes /\ ch[l][i] \in allocated
                                     /\ items[l][i] = data[ch[l][i]]
         /\ \A n : Has(ch[l], n) => n \in allocated
         /\ m_last_node[l] = EndNode(ch[l])
<1> USE ListAssumption
<1>1. l \in Owners /\ First(l) = m_first_node[l]
  BY DEF Owners, First
<1>2. ch[l] \in Seq(Nodes) /\ Links(next, m_first_node[l], ch[l]) /\ m_last_node[l] = EndNode(ch[l])
  BY <1>1 DEF Represents
<1>3. \A n : Has(ch[l], n) => n \in allocated
  BY <1>1 DEF Represents
<1>4. items[l] \in Seq(Data) /\ items[l] = [i \in 1..Len(ch[l]) |-> data[ch[l][i]]]
  BY DEF SlistTypes, Represents
<1>5. Len(ch[l]) \in Nat /\ Len(items[l]) = Len(ch[l])
  BY <1>2, <1>4
<1>6. \A i \in 1..Len(ch[l]) : ch[l][i] \in allocated
  BY <1>3 DEF Has
<1> QED BY <1>2, <1>3, <1>4, <1>5, <1>6

(* A new node behind the k-th: what every insertion comes down to.           *)
LEMMA InsertedList ==
  ASSUME SlistTypes, NEW ch, Represents(ch), NEW l \in Lists, NEW n \in Nodes, NEW d \in Data,
         NEW k \in 0..Len(ch[l]), Alloc(n, d),
         next' = IF k = 0 THEN [next EXCEPT ![n] = m_first_node[l]]
                          ELSE [next EXCEPT ![n] = next[ch[l][k]], ![ch[l][k]] = n],
         m_first_node' = IF k = 0 THEN [m_first_node EXCEPT ![l] = n] ELSE m_first_node,
         m_last_node' = IF k = Len(ch[l]) THEN [m_last_node EXCEPT ![l] = n] ELSE m_last_node,
         raw' = raw,
         Holds(l, InsertAt(items[l], k + 1, d))
  PROVE  SlistInv'
<1> USE ListAssumption
<1> DEFINE s == ch[l]
           t == With(s, k, n)
           f == IF k = 0 THEN n ELSE m_first_node[l]
<1>1. /\ s \in Seq(Nodes) /\ Links(next, m_first_node[l], s) /\ Len(s) \in Nat
      /\ items[l] \in Seq(Data) /\ Len(items[l]) = Len(s)
      /\ \A i \in 1..Len(s) : s[i] \in Nodes /\ s[i] \in allocated /\ items[l][i] = data[s[i]]
      /\ \A m : Has(s, m) => m \in allocated
      /\ m_last_node[l] = EndNode(s)
  BY ListFacts
<1>2. n \notin allocated /\ allocated' = allocated \cup {n} /\ data' = [data EXCEPT ![n] = d]
  BY DEF Alloc
<1>3. ~Has(s, n)
  BY <1>1, <1>2
<1>4. \A i \in 1..Len(s) : next[s[i]] = IF i < Len(s) THEN s[i + 1] ELSE Null
  BY <1>1 DEF Links
<1>5. m_first_node[l] = IF Len(s) = 0 THEN Null ELSE s[1]
  BY <1>1 DEF Links
<1>6. /\ next \in [Nodes -> Nodes \cup {Null}] /\ data \in [Nodes -> Data]
      /\ m_first_node \in [Lists -> Nodes \cup {Null}]
      /\ m_last_node \in [Lists -> Nodes \cup {Null}] /\ items \in [Lists -> Seq(Data)]
  BY DEF SlistTypes
<1>7. allocated \subseteq Nodes
  BY AllocatedNodes
<1>8. t \in Seq(Nodes) /\ Len(t) = Len(s) + 1
  BY <1>1, WithInserts
<1>9. \A i \in 1..(Len(s) + 1) : t[i] = IF i <= k THEN s[i] ELSE IF i = k + 1 THEN n ELSE s[i - 1]
  BY DEF With
<1>10. k \in 0..Len(s)
  OBVIOUS
<1>11. /\ next' = IF k = 0 THEN [next EXCEPT ![n] = m_first_node[l]]
                         ELSE [next EXCEPT ![n] = next[s[k]], ![s[k]] = n]
      /\ m_last_node' = IF k = Len(s) THEN [m_last_node EXCEPT ![l] = n] ELSE m_last_node
  OBVIOUS
<1> HIDE DEF t, s
<1>12. ASSUME NEW m \in Nodes
      PROVE  next'[m] = IF m = n THEN IF k = 0 THEN m_first_node[l] ELSE next[s[k]]
                        ELSE IF k > 0 /\ m = s[k] THEN n ELSE next[m]
  <2>1. CASE k = 0
    <3>1. next' = [next EXCEPT ![n] = m_first_node[l]]
      BY <2>1, <1>11
    <3> QED BY <3>1, <2>1, <1>6
  <2>2. CASE k # 0
    <3>1. k \in 1..Len(s) /\ k > 0 /\ s[k] \in Nodes /\ s[k] # n
      BY <2>2, <1>10, <1>1, <1>2
    <3>2. next' = [next EXCEPT ![n] = next[s[k]], ![s[k]] = n]
      BY <2>2, <1>11
    <3> QED BY <3>1, <3>2, <2>2, <1>6
  <2> QED BY <2>1, <2>2
<1>13. Links(next', f, t)
  <2>1. next'[n] = IF k < Len(s) THEN s[k + 1] ELSE Null
    <3>1. CASE k = 0
      BY <3>1, <1>12, <1>1, <1>5
    <3>2. CASE k # 0
      <4>1. k \in 1..Len(s)
        BY <3>2, <1>10, <1>1
      <4> QED BY <4>1, <3>2, <1>12, <1>4
    <3> QED BY <3>1, <3>2
  <2>2. ASSUME k > 0 PROVE next'[s[k]] = n
    <3>1. k \in 1..Len(s) /\ s[k] \in Nodes /\ s[k] # n
      BY <2>2, <1>10, <1>1, <1>2
    <3> QED BY <3>1, <2>2, <1>12
  <2>3. ASSUME NEW i \in 1..Len(s), i # k PROVE next'[s[i]] = next[s[i]]
    <3>1. s[i] # n /\ s[i] \in Nodes
      BY <1>1, <1>2
    <3>2. k > 0 => s[i] # s[k]
      BY <1>10, <2>3, <1>1 DEF Links
    <3> QED BY <3>1, <3>2, <1>12
  <2>4. \A i \in 1..Len(s) : i # k => next'[s[i]] = next[s[i]]
    BY <2>3
  <2>5. k > 0 => next'[s[k]] = n
    BY <2>2
  <2>6. s \in Seq(Nodes) /\ Links(next, m_first_node[l], s)
    BY <1>1
  <2>7. Links(next', IF k = 0 THEN n ELSE m_first_node[l], With(s, k, n))
    BY <1>10, <2>1, <2>4, <2>5, <2>6, <1>3, LinksWith, ZenonT(90)
  <2> QED BY <2>7 DEF t
<1>14. m_first_node' = [m_first_node EXCEPT ![l] = f]
  BY <1>6
<1>15. m_last_node' = [m_last_node EXCEPT ![l] = EndNode(t)]
  <2>1. CASE k = Len(s)
    <3>1. Len(t) \in 1..(Len(s) + 1) /\ Len(t) = k + 1 /\ Len(t) # 0
      BY <2>1, <1>1, <1>8
    <3>2. t[Len(t)] = n
      BY <3>1, <1>10, <1>9
    <3>3. EndNode(t) = n
      BY <3>1, <3>2 DEF EndNode
    <3> QED BY <3>3, <2>1, <1>11
  <2>2. CASE k # Len(s)
    <3>1. Len(s) # 0 /\ t[Len(t)] = s[Len(s)]
      BY <1>10, <1>11, <2>2, <1>1, <1>8, <1>9
    <3>2. EndNode(t) = m_last_node[l]
      BY <3>1, <1>1, <1>8 DEF EndNode
    <3> QED BY <1>10, <1>11, <3>2, <2>2, <1>6
  <2> QED BY <2>1, <2>2
<1>16. /\ InsertAt(items[l], k + 1, d) = With(items[l], k, d)
       /\ With(items[l], k, d) \in Seq(Data) /\ Len(With(items[l], k, d)) = Len(s) + 1
  BY <1>10, <1>11, <1>1, WithInserts
<1>17. With(items[l], k, d) = [i \in 1..Len(t) |-> data'[t[i]]]
  <2>1. ASSUME NEW i \in 1..(Len(s) + 1)
        PROVE  (IF i <= k THEN items[l][i] ELSE IF i = k + 1 THEN d ELSE items[l][i - 1]) = data'[t[i]]
    <3>1. CASE i <= k
      <4>1. i \in 1..Len(s) /\ t[i] = s[i] /\ s[i] # n
        BY <1>10, <1>11, <3>1, <1>1, <1>2, <1>9
      <4> QED BY <4>1, <3>1, <1>1, <1>2, <1>6
    <3>2. CASE i = k + 1
      <4>1. t[i] = n
        BY <3>2, <1>9
      <4> QED BY <4>1, <3>2, <1>2, <1>6
    <3>3. CASE i > k + 1
      <4>1. i - 1 \in 1..Len(s) /\ t[i] = s[i - 1] /\ s[i - 1] # n
        BY <1>10, <1>11, <3>3, <1>1, <1>2, <1>9
      <4> QED BY <4>1, <3>3, <1>1, <1>2, <1>6
    <3> QED BY <3>1, <3>2, <3>3, <1>1
  <2> QED BY <2>1, <1>1, <1>8 DEF With
<1>18. items' = [items EXCEPT ![l] = [i \in 1..Len(t) |-> data'[t[i]]]]
  BY <1>16, <1>17 DEF Holds
<1>19. \A m \in allocated : ~Has(s, m) => next'[m] = next[m] /\ data'[m] = data[m]
  <2>1. ASSUME NEW m \in allocated, ~Has(s, m) PROVE next'[m] = next[m] /\ data'[m] = data[m]
    <3>1. m # n /\ (k > 0 => m # s[k])
      BY <1>10, <2>1, <1>1, <1>2 DEF Has
    <3> QED BY <3>1, <1>12, <1>2, <1>6, <1>7
  <2> QED BY <2>1
<1>20. \A i \in 1..Len(t) : Has(s, t[i]) \/ t[i] \notin allocated
  <2>1. ASSUME NEW i \in 1..Len(t) PROVE t[i] = n \/ \E j \in 1..Len(s) : s[j] = t[i]
    <3>1. i \in 1..Len(s) \/ i - 1 \in 1..Len(s) \/ i = k + 1
      BY <1>10, <1>11, <1>1, <1>8
    <3> QED BY <1>10, <1>11, <3>1, <1>1, <1>8, <1>9, SMTT(30)
  <2> QED BY <2>1, <1>2 DEF Has
<1>21. \A m : m \in allocated' <=> Has(t, m) \/ (m \in allocated /\ ~Has(s, m))
  <2>1. Has(t, n)
    <3>1. k + 1 \in 1..Len(t) /\ t[k + 1] = n
      BY <1>10, <1>11, <1>1, <1>8, <1>9
    <3> QED BY <3>1 DEF Has
  <2>2. ASSUME NEW m, Has(s, m) PROVE Has(t, m)
    <3>1. PICK i \in 1..Len(s) : s[i] = m
      BY <2>2 DEF Has
    <3>2. CASE i <= k
      BY <1>10, <3>1, <3>2, <1>1, <1>8, <1>9, SMTT(30) DEF Has
    <3>3. CASE i > k
      <4>1. i + 1 \in 1..Len(t) /\ t[i + 1] = s[i]
        <5>1. i + 1 \in 1..(Len(s) + 1) /\ ~(i + 1 <= k) /\ i + 1 # k + 1 /\ (i + 1) - 1 = i
          BY <1>10, <3>3, <1>1
        <5> QED BY <5>1, <1>8, <1>9
      <4> QED BY <3>1, <4>1 DEF Has
    <3> QED BY <3>2, <3>3
  <2>3. ASSUME NEW m, Has(t, m) PROVE m = n \/ Has(s, m)
    <3>1. PICK i \in 1..Len(t) : t[i] = m
      BY <2>3 DEF Has
    <3>2. i \in 1..Len(s) \/ i - 1 \in 1..Len(s) \/ i = k + 1
      BY <1>10, <1>11, <1>1, <1>8
    <3> QED BY <1>10, <1>11, <3>1, <3>2, <1>1, <1>8, <1>9, SMTT(30) DEF Has
  <2> QED BY <2>1, <2>2, <2>3, <1>1, <1>2
<1>22. Represents([ch EXCEPT ![l] = t])'
  BY <1>6, <1>8, <1>13, <1>14, <1>15, <1>18, <1>19, <1>20, <1>21, ChangedList DEF s
<1>23. SlistTypes'
  <2>1. next' \in [Nodes -> Nodes \cup {Null}]
    <3>1. CASE k = 0
      <4>1. next' = [next EXCEPT ![n] = m_first_node[l]]
        BY <3>1, <1>11
      <4> QED BY <4>1, <1>6
    <3>2. CASE k # 0
      <4>1. next' = [next EXCEPT ![n] = next[s[k]], ![s[k]] = n]
        BY <3>2, <1>11, Zenon
      <4>2. next[s[k]] \in Nodes \cup {Null}
        BY <3>2, <1>10, <1>1, <1>6
      <4> QED BY ONLY <4>1, <4>2, <1>6, n \in Nodes
    <3> QED BY <3>1, <3>2
  <2>2. data' \in [Nodes -> Data]
    BY <1>2, <1>6
  <2>3. m_first_node' \in [Lists -> Nodes \cup {Null}] /\ m_last_node' \in [Lists -> Nodes \cup {Null}]
    BY <1>6
  <2>4. items' \in [Lists -> Seq(Data)]
    BY <1>6, <1>16 DEF Holds
  <2> QED BY <2>1, <2>2, <2>3, <2>4 DEF SlistTypes
<1> QED BY <1>22, <1>23 DEF SlistInv
(* The k-th node taken out and freed: what every removal comes down to.      *)
LEMMA RemovedList ==
  ASSUME SlistTypes, NEW ch, Represents(ch), NEW l \in Lists, NEW k \in 1..Len(ch[l]),
         next' = IF k = 1 THEN [next EXCEPT ![ch[l][k]] = Null]
                          ELSE [next EXCEPT ![ch[l][k - 1]] = next[ch[l][k]], ![ch[l][k]] = Null],
         m_first_node' = IF k = 1 THEN [m_first_node EXCEPT ![l] = next[ch[l][k]]] ELSE m_first_node,
         m_last_node' = IF k = Len(ch[l])
                          THEN [m_last_node EXCEPT ![l] = IF k = 1 THEN Null ELSE ch[l][k - 1]]
                          ELSE m_last_node,
         allocated' = allocated \ {ch[l][k]}, data' = data, raw' = raw,
         Holds(l, RemoveAt(items[l], k))
  PROVE  SlistInv'
<1> USE ListAssumption
<1> DEFINE s == ch[l]
           t == Without(s, k)
           n == s[k]
           f == IF k = 1 THEN next[m_first_node[l]] ELSE m_first_node[l]
<1>1. /\ s \in Seq(Nodes) /\ Links(next, m_first_node[l], s) /\ Len(s) \in Nat
      /\ items[l] \in Seq(Data) /\ Len(items[l]) = Len(s)
      /\ \A i \in 1..Len(s) : s[i] \in Nodes /\ s[i] \in allocated /\ items[l][i] = data[s[i]]
      /\ \A m : Has(s, m) => m \in allocated
      /\ m_last_node[l] = EndNode(s)
  BY ListFacts
<1>2. /\ next \in [Nodes -> Nodes \cup {Null}] /\ data \in [Nodes -> Data]
      /\ m_first_node \in [Lists -> Nodes \cup {Null}]
      /\ m_last_node \in [Lists -> Nodes \cup {Null}] /\ items \in [Lists -> Seq(Data)]
  BY DEF SlistTypes
<1>3. allocated \subseteq Nodes
  BY AllocatedNodes
<1>4. /\ k \in 1..Len(s) /\ n = s[k] /\ n \in Nodes
      /\ next' = IF k = 1 THEN [next EXCEPT ![n] = Null] ELSE [next EXCEPT ![s[k - 1]] = next[n], ![n] = Null]
      /\ m_first_node' = IF k = 1 THEN [m_first_node EXCEPT ![l] = next[n]] ELSE m_first_node
      /\ m_last_node' = IF k = Len(s)
                          THEN [m_last_node EXCEPT ![l] = IF k = 1 THEN Null ELSE s[k - 1]]
                          ELSE m_last_node
      /\ allocated' = allocated \ {n}
  BY <1>1
<1>5. t \in Seq(Nodes) /\ Len(t) = Len(s) - 1
  BY <1>1, WithoutRemoves
<1>6. \A i \in 1..(Len(s) - 1) : t[i] = IF i < k THEN s[i] ELSE s[i + 1]
  BY DEF Without
<1>7. \A i, j \in 1..Len(s) : s[i] = s[j] => i = j
  BY <1>1 DEF Links
<1> HIDE DEF t, s, n
<1>8. k > 1 => k - 1 \in 1..Len(s) /\ s[k - 1] \in Nodes /\ s[k - 1] # n
  <2>1. k > 1 => k - 1 \in 1..Len(s) /\ k - 1 # k
    BY <1>1, <1>4
  <2> QED BY <2>1, <1>1, <1>4, <1>7
<1>9. ASSUME NEW m \in Nodes, m # n
      PROVE  next'[m] = IF k > 1 /\ m = s[k - 1] THEN next[n] ELSE next[m]
  <2>1. CASE k = 1
    <3>1. next' = [next EXCEPT ![n] = Null]
      BY <2>1, <1>4
    <3> QED BY <3>1, <2>1, <1>2, <1>9
  <2>2. CASE k > 1
    <3>1. next' = [next EXCEPT ![s[k - 1]] = next[n], ![n] = Null]
      <4>1. k # 1
        BY <2>2
      <4> QED BY <4>1, <1>4, Zenon
    <3> QED BY <3>1, <2>2, <1>2, <1>4, <1>8, <1>9
  <2> QED BY <2>1, <2>2, <1>4
<1>10. Links(next', f, t)
  <2>1. k > 1 => next'[s[k - 1]] = next[s[k]]
    BY <1>4, <1>8, <1>9
  <2>2. ASSUME NEW i \in 1..Len(s), i # k, i # k - 1 PROVE next'[s[i]] = next[s[i]]
    <3>1. s[i] \in Nodes /\ s[i] # n
      BY <2>2, <1>1, <1>4, <1>7
    <3>2. k > 1 => s[i] # s[k - 1]
      BY <2>2, <1>7, <1>8
    <3> QED BY <3>1, <3>2, <1>9
  <2>3. \A i \in 1..Len(s) : i # k /\ i # k - 1 => next'[s[i]] = next[s[i]]
    BY <2>2
  <2>4. s \in Seq(Nodes) /\ Links(next, m_first_node[l], s) /\ k \in 1..Len(s)
    BY <1>1, <1>4
  <2>5. Links(next', IF k = 1 THEN next[m_first_node[l]] ELSE m_first_node[l], Without(s, k))
    BY <2>1, <2>3, <2>4, LinksWithout, ZenonT(90)
  <2> QED BY <2>5 DEF t
<1>11. m_first_node' = [m_first_node EXCEPT ![l] = f]
  <2>1. CASE k = 1
    <3>1. m_first_node[l] = n
      BY <2>1, <1>1, <1>4 DEF Links
    <3> QED BY <3>1, <2>1, <1>4
  <2>2. CASE k # 1
    BY <2>2, <1>2, <1>4
  <2> QED BY <2>1, <2>2
<1>12. m_last_node' = [m_last_node EXCEPT ![l] = EndNode(t)]
  <2>1. CASE k = Len(s) /\ k = 1
    <3>1. Len(t) = 0
      <4>1. Len(s) = 1
        BY <2>1
      <4>2. Len(t) = 1 - 1
        BY <4>1, <1>5, Zenon
      <4> QED BY <4>2
    <3> QED BY <3>1, <2>1, <1>4 DEF EndNode
  <2>2. CASE k = Len(s) /\ k # 1
    <3>1. Len(t) \in 1..(Len(s) - 1) /\ Len(t) < k /\ Len(t) # 0 /\ Len(t) = k - 1
      BY <2>2, <1>1, <1>4, <1>5
    <3>2. EndNode(t) = s[k - 1]
      BY <3>1, <1>6 DEF EndNode
    <3> QED BY <3>2, <2>2, <1>4
  <2>3. CASE k # Len(s)
    <3>1. Len(t) \in 1..(Len(s) - 1) /\ ~(Len(t) < k) /\ Len(t) # 0 /\ Len(t) + 1 = Len(s) /\ Len(s) # 0
      BY <2>3, <1>1, <1>4, <1>5
    <3>2. EndNode(t) = m_last_node[l]
      BY <3>1, <1>1, <1>6 DEF EndNode
    <3> QED BY <3>2, <2>3, <1>2, <1>4
  <2> QED BY <2>1, <2>2, <2>3
<1>13. /\ RemoveAt(items[l], k) = Without(items[l], k)
       /\ Without(items[l], k) \in Seq(Data) /\ Len(Without(items[l], k)) = Len(s) - 1
  BY <1>1, <1>4, WithoutRemoves
<1>14. Without(items[l], k) = [i \in 1..Len(t) |-> data'[t[i]]]
  <2>1. ASSUME NEW i \in 1..(Len(s) - 1)
        PROVE  (IF i < k THEN items[l][i] ELSE items[l][i + 1]) = data'[t[i]]
    <3>1. i \in 1..Len(s) /\ i + 1 \in 1..Len(s)
      BY <1>1
    <3> QED BY <3>1, <1>1, <1>6
  <2> QED BY <2>1, <1>1, <1>5 DEF Without
<1>15. items' = [items EXCEPT ![l] = [i \in 1..Len(t) |-> data'[t[i]]]]
  BY <1>13, <1>14 DEF Holds
<1>16. \A m \in allocated : ~Has(s, m) => next'[m] = next[m] /\ data'[m] = data[m]
  <2>1. ASSUME NEW m \in allocated, ~Has(s, m) PROVE next'[m] = next[m]
    <3>1. m # n /\ (k > 1 => m # s[k - 1])
      BY <2>1, <1>4, <1>8 DEF Has
    <3> QED BY <3>1, <1>3, <1>9
  <2> QED BY <2>1
<1>17. ASSUME NEW i \in 1..Len(t) PROVE Has(s, t[i]) /\ t[i] # n
  <2>1. CASE i < k
    <3>1. i \in 1..Len(s) /\ i # k /\ t[i] = s[i]
      BY <2>1, <1>1, <1>5, <1>6
    <3> QED BY <3>1, <1>4, <1>7 DEF Has
  <2>2. CASE ~(i < k)
    <3>1. i + 1 \in 1..Len(s) /\ i + 1 # k /\ t[i] = s[i + 1]
      BY <2>2, <1>1, <1>4, <1>5, <1>6, SMTT(30)
    <3> QED BY <3>1, <1>4, <1>7 DEF Has
  <2> QED BY <2>1, <2>2
<1>18. \A m : m \in allocated' <=> Has(t, m) \/ (m \in allocated /\ ~Has(s, m))
  <2>1. ASSUME NEW m, Has(s, m), m # n PROVE Has(t, m)
    <3>1. PICK i \in 1..Len(s) : s[i] = m
      BY <2>1 DEF Has
    <3>2. CASE i < k
      <4>1. i \in 1..Len(t) /\ t[i] = m
        BY <3>1, <3>2, <1>1, <1>4, <1>5, <1>6
      <4> QED BY <4>1 DEF Has
    <3>3. CASE i > k
      <4>1. i - 1 \in 1..(Len(s) - 1) /\ ~(i - 1 < k) /\ (i - 1) + 1 = i
        BY <3>3, <1>1, <1>4, SMTT(30)
      <4>2. i - 1 \in 1..Len(t) /\ t[i - 1] = m
        BY <4>1, <3>1, <1>5, <1>6
      <4> QED BY <4>2 DEF Has
    <3>4. i # k
      BY <2>1, <3>1, <1>4
    <3> QED BY <3>2, <3>3, <3>4, <1>4
  <2>2. ASSUME NEW m, Has(t, m) PROVE Has(s, m) /\ m # n
    BY <2>2, <1>17 DEF Has
  <2>3. Has(s, n)
    BY <1>4 DEF Has
  <2> QED BY <2>1, <2>2, <2>3, <1>1, <1>4
<1>19. \A i \in 1..Len(t) : Has(s, t[i]) \/ t[i] \notin allocated
  BY <1>17
<1>20. Represents([ch EXCEPT ![l] = t])'
  BY <1>2, <1>5, <1>10, <1>11, <1>12, <1>15, <1>16, <1>18, <1>19, ChangedList DEF s
<1>21. SlistTypes'
  <2>1. next' \in [Nodes -> Nodes \cup {Null}]
    <3>1. CASE k = 1
      BY <3>1, <1>2, <1>4
    <3>2. CASE k # 1
      <4>1. k > 1
        BY <3>2, <1>4
      <4>2. next' = [next EXCEPT ![s[k - 1]] = next[n], ![n] = Null]
        BY <3>2, <1>4, Zenon
      <4>3. next[n] \in Nodes \cup {Null}
        BY <1>2, <1>4
      <4> QED BY ONLY <4>2, <4>3, <1>2
    <3> QED BY <3>1, <3>2
  <2>2. m_first_node' \in [Lists -> Nodes \cup {Null}]
    BY <1>2, <1>4
  <2>3. m_last_node' \in [Lists -> Nodes \cup {Null}]
    BY <1>2, <1>4, <1>8
  <2>4. items' \in [Lists -> Seq(Data)]
    BY <1>2, <1>13 DEF Holds
  <2> QED BY <2>1, <2>2, <2>3, <2>4, <1>2 DEF SlistTypes
<1> QED BY <1>20, <1>21 DEF SlistInv
(* The end and the items of every list are those of its chain.               *)
Tells(c) ==
  /\ \A l \in Lists : m_last_node[l] = EndNode(c[l])
  /\ \A l \in Lists : items[l] = [i \in 1..Len(c[l]) |-> data[c[l][i]]]

(* Two owners exchange their chains.                                         *)
LEMMA ExchangedChains ==
  ASSUME NEW ch, Represents(ch), NEW a \in Owners, NEW b \in Owners, NEW c,
         c = [ch EXCEPT ![a] = ch[b], ![b] = ch[a]],
         next' = next, data' = data, allocated' = allocated,
         First(a)' = First(b), First(b)' = First(a),
         \A o \in Owners \ {a, b} : First(o)' = First(o),
         Tells(c)'
  PROVE  Represents(c)'
<1> DEFINE x(o) == IF o = a THEN b ELSE IF o = b THEN a ELSE o
<1>1. ch \in [Owners -> Seq(Nodes)]
  BY DEF Represents
<1>2. c \in [Owners -> Seq(Nodes)] /\ \A o \in Owners : c[o] = ch[x(o)]
  <2>1. DOMAIN c = Owners /\ c = [o \in Owners |-> c[o]]
    BY <1>1
  <2> SUFFICES ASSUME NEW o \in Owners PROVE c[o] = ch[x(o)] /\ ch[x(o)] \in Seq(Nodes)
    BY <2>1
  <2>2. x(o) \in Owners
    OBVIOUS
  <2>3. CASE o = b
    BY <2>3, <1>1
  <2>4. CASE o # b
    BY <2>4, <1>1
  <2> QED BY <2>3, <2>4
<1>3. \A o \in Owners : x(o) \in Owners /\ x(x(o)) = o /\ First(o)' = First(x(o))
  OBVIOUS
<1>4. \A o, p \in Owners : o # p => x(o) # x(p)
  OBVIOUS
<1> HIDE DEF x
<1>5. \A o \in Owners : Links(next', First(o)', c[o])
  <2>1. ASSUME NEW u \in Owners PROVE Links(next, First(u), ch[u])
    BY DEF Represents
  <2> SUFFICES ASSUME NEW o \in Owners PROVE Links(next', First(o)', c[o])
    OBVIOUS
  <2>2. Links(next, First(x(o)), ch[x(o)])
    BY <2>1, <1>3
  <2>3. next' = next /\ First(o)' = First(x(o)) /\ c[o] = ch[x(o)]
    BY <1>2, <1>3
  <2> QED BY <2>2, <2>3
<1>6. \A o, p \in Owners : o # p => \A i \in 1..Len(c[o]) : ~Has(c[p], c[o][i])
  <2>1. ASSUME NEW u \in Owners, NEW v \in Owners, u # v
        PROVE  \A i \in 1..Len(ch[u]) : ~Has(ch[v], ch[u][i])
    BY <2>1 DEF Represents
  <2> SUFFICES ASSUME NEW o \in Owners, NEW p \in Owners, o # p
               PROVE  \A i \in 1..Len(c[o]) : ~Has(c[p], c[o][i])
    OBVIOUS
  <2>2. x(o) \in Owners /\ x(p) \in Owners /\ x(o) # x(p)
    BY <1>3, <1>4
  <2>3. c[o] = ch[x(o)] /\ c[p] = ch[x(p)]
    BY <1>2
  <2>4. \A i \in 1..Len(ch[x(o)]) : ~Has(ch[x(p)], ch[x(o)][i])
    BY <2>1, <2>2
  <2> QED BY <2>3, <2>4
<1>7. ASSUME NEW n PROVE n \in allocated' <=> \E o \in Owners : Has(c[o], n)
  <2>1. n \in allocated <=> \E o \in Owners : Has(ch[o], n)
    BY DEF Represents
  <2>2. (\E o \in Owners : Has(ch[o], n)) => \E o \in Owners : Has(c[o], n)
    BY <1>2, <1>3
  <2>3. (\E o \in Owners : Has(c[o], n)) => \E o \in Owners : Has(ch[o], n)
    BY <1>2, <1>3
  <2> QED BY <2>1, <2>2, <2>3
<1>8. \A l \in Lists : items'[l] = [i \in 1..Len(c[l]) |-> data'[c[l][i]]]
  BY DEF Tells
<1>9. \A l \in Lists : m_last_node'[l] = EndNode(c[l])
  BY DEF Tells
<1>10. c \in [Owners -> Seq(Nodes)]
  BY <1>2
<1> QED BY <1>5, <1>6, <1>7, <1>8, <1>9, <1>10 DEF Represents

-------------------------------------------------------------------------------
(* The calls of slist.                                                       *)
LEMMA PrependNodeInv ==
  ASSUME SlistInv, NEW l \in Lists, NEW n \in Nodes, NEW d \in Data,
         PrependNode(l, n, d), Holds(l, InsertAt(items[l], 1, d))
  PROVE  SlistInv'
<1> USE ListAssumption
<1>1. PICK ch : Represents(ch)
  BY DEF SlistInv
<1>2. SlistTypes
  BY DEF SlistInv
<1>3. /\ Len(ch[l]) \in Nat /\ m_last_node[l] = EndNode(ch[l])
      /\ \A i \in 1..Len(ch[l]) : ch[l][i] \in Nodes
  BY <1>1, <1>2, ListFacts
<1>4. m_last_node[l] = Null <=> 0 = Len(ch[l])
  BY <1>3 DEF EndNode
<1>5. m_last_node' = IF 0 = Len(ch[l]) THEN [m_last_node EXCEPT ![l] = n] ELSE m_last_node
  BY <1>2, <1>4 DEF PrependNode, SlistTypes
<1>6. /\ Alloc(n, d) /\ next' = [next EXCEPT ![n] = m_first_node[l]]
      /\ m_first_node' = [m_first_node EXCEPT ![l] = n] /\ raw' = raw
  BY DEF PrependNode
<1>7. 0 \in 0..Len(ch[l]) /\ 0 + 1 = 1
  BY <1>3
<1> QED BY <1>1, <1>2, <1>5, <1>6, <1>7, InsertedList

LEMMA LinkAfterInv ==
  ASSUME SlistTypes, NEW ch, Represents(ch), NEW l \in Lists, NEW n \in Nodes, NEW d \in Data,
         NEW k \in 0..Len(ch[l]), NEW at,
         \/ at = Null /\ k = Len(ch[l])
         \/ k > 0 /\ at = ch[l][k],
         LinkAfter(l, at, n, d), Holds(l, InsertAt(items[l], k + 1, d))
  PROVE  SlistInv'
<1> USE ListAssumption
<1> DEFINE s == ch[l]
           p == IF at = Null THEN m_last_node[l] ELSE at
<1>1. /\ Len(s) \in Nat /\ m_last_node[l] = EndNode(s) /\ Links(next, m_first_node[l], s)
      /\ \A i \in 1..Len(s) : s[i] \in Nodes /\ s[i] \in allocated
  BY ListFacts
<1>2. /\ next \in [Nodes -> Nodes \cup {Null}]
      /\ m_last_node \in [Lists -> Nodes \cup {Null}]
  BY DEF SlistTypes
<1>3. Alloc(n, d) /\ n \notin allocated /\ raw' = raw
  BY DEF LinkAfter, Alloc
<1>4. /\ IF p # Null
            THEN next' = [next EXCEPT ![n] = next[p], ![p] = n] /\ m_first_node' = m_first_node
            ELSE /\ next' = [next EXCEPT ![n] = Null]
                 /\ m_first_node' = [m_first_node EXCEPT ![l] = n]
      /\ m_last_node' = IF next'[n] = Null THEN [m_last_node EXCEPT ![l] = n] ELSE m_last_node
  BY DEF LinkAfter
<1>5. CASE k = 0
  <2>1. Len(s) = 0 /\ p = Null /\ m_first_node[l] = Null
    BY <1>5, <1>1 DEF EndNode, Links
  <2>2. /\ next' = [next EXCEPT ![n] = m_first_node[l]]
        /\ m_first_node' = [m_first_node EXCEPT ![l] = n]
        /\ next'[n] = Null
    BY <2>1, <1>2, <1>4
  <2>3. m_last_node' = IF k = Len(s) THEN [m_last_node EXCEPT ![l] = n] ELSE m_last_node
    BY <2>1, <2>2, <1>4, <1>5
  <2> QED BY <2>2, <2>3, <1>3, <1>5, InsertedList
<1>6. CASE k # 0
  <2>1. k \in 1..Len(s) /\ Len(s) # 0
    BY <1>6, <1>1
  <2>2. p = s[k] /\ p \in Nodes /\ p # n /\ p # Null
    BY <2>1, <1>1, <1>3 DEF EndNode
  <2>3. next[p] = IF k < Len(s) THEN s[k + 1] ELSE Null
    BY <2>1, <2>2, <1>1 DEF Links
  <2>4. next[p] = Null <=> k = Len(s)
    <3>1. k < Len(s) => k + 1 \in 1..Len(s)
      BY <2>1, <1>1
    <3> QED BY <3>1, <2>1, <2>3, <1>1
  <2>5. next' = [next EXCEPT ![n] = next[s[k]], ![s[k]] = n] /\ m_first_node' = m_first_node
    BY <2>2, <1>4
  <2>6. next'[n] = next[p]
    BY <2>2, <2>5, <1>2
  <2>7. m_last_node' = IF k = Len(s) THEN [m_last_node EXCEPT ![l] = n] ELSE m_last_node
    BY <2>4, <2>6, <1>4
  <2> QED BY <2>5, <2>7, <1>3, <1>6, InsertedList
<1> QED BY <1>5, <1>6

LEMMA PrependInv ==
  ASSUME SlistInv, NEW l \in Lists, NEW n \in Nodes, NEW d \in Data, Prepend(l, n, d)
  PROVE  SlistInv'
<1>1. items[l] \in Seq(Data)
  BY DEF SlistInv, SlistTypes
<1>2. InsertAt(items[l], 1, d) = <<d>> \o items[l]
  <2>1. SubSeq(items[l], 1, 1 - 1) = <<>>
    BY SubSeqEmpty
  <2>2. SubSeq(items[l], 1, Len(items[l])) = items[l]
    BY <1>1, SubSeqFull
  <2>3. <<d>> \in Seq(Data)
    OBVIOUS
  <2>4. <<>> \o <<d>> = <<d>>
    BY <2>3, ConcatEmptySeq
  <2> QED BY <2>1, <2>2, <2>4, Zenon DEF InsertAt
<1> QED BY <1>2, PrependNodeInv DEF Prepend

(* Where an index leads.                                                     *)
LEMMA IndexOfNode ==
  ASSUME SlistTypes, NEW ch, Represents(ch), NEW l \in Lists, NEW i \in Nat
  PROVE  Index(l, i) = IF i < Len(ch[l]) THEN ch[l][i + 1] ELSE Null
BY ListFacts, WalkAlong DEF Index

LEMMA UptoNode ==
  ASSUME SlistTypes, NEW ch, Represents(ch), NEW l \in Lists, NEW k \in 1..Len(ch[l])
  PROVE  Upto(l, ch[l][k]) = k /\ ch[l][k] # Null /\ Upto(l, Null) = Len(ch[l])
<1> USE ListAssumption
<1>1. /\ Len(items[l]) = Len(ch[l]) /\ Len(ch[l]) \in Nat
      /\ \A i \in 1..Len(ch[l]) : ch[l][i] \in Nodes
      /\ Links(next, m_first_node[l], ch[l])
  BY ListFacts
<1>2. \A i \in 1..Len(ch[l]) : Index(l, i - 1) = ch[l][i]
  <2>1. ASSUME NEW i \in 1..Len(ch[l]) PROVE Index(l, i - 1) = ch[l][i]
    <3>1. i - 1 \in Nat /\ i - 1 < Len(ch[l]) /\ (i - 1) + 1 = i
      BY <1>1
    <3> QED BY <3>1, IndexOfNode
  <2> QED BY <2>1
<1>3. \A i \in 1..Len(items[l]) : Index(l, i - 1) = ch[l][k] <=> i = k
  BY <1>1, <1>2 DEF Links
<1>4. (CHOOSE i \in 1..Len(items[l]) : Index(l, i - 1) = ch[l][k]) = k
  BY <1>1, <1>3
<1> QED BY <1>1, <1>4 DEF Upto

LEMMA InsertAfterInv ==
  ASSUME SlistInv, NEW l \in Lists, NEW at, NEW n \in Nodes, NEW d \in Data,
         InsertAfter(l, at, n, d)
  PROVE  SlistInv'
<1>1. PICK ch : Represents(ch)
  BY DEF SlistInv
<1>2. SlistTypes
  BY DEF SlistInv
<1>3. /\ ch[l] \in Seq(Nodes) /\ Links(next, m_first_node[l], ch[l]) /\ Len(ch[l]) \in Nat
      /\ Len(items[l]) = Len(ch[l])
  BY <1>1, <1>2, ListFacts
<1>4. LinkAfter(l, at, n, d) /\ Holds(l, InsertAt(items[l], Upto(l, at) + 1, d))
  BY DEF InsertAfter
<1>5. CASE at = Null
  <2>1. Upto(l, at) = Len(ch[l]) /\ Len(ch[l]) \in 0..Len(ch[l])
    BY <1>3, <1>5 DEF Upto
  <2> QED BY <2>1, <1>1, <1>2, <1>4, <1>5, LinkAfterInv
<1>6. CASE at # Null
  <2>1. Has(ch[l], at)
    BY <1>3, <1>6, ChainOfLinks DEF InsertAfter
  <2>2. PICK k \in 1..Len(ch[l]) : ch[l][k] = at
    BY <2>1 DEF Has
  <2>3. Upto(l, at) = k /\ k \in 0..Len(ch[l]) /\ k > 0
    BY <2>2, <1>1, <1>2, UptoNode
  <2> QED BY <2>2, <2>3, <1>1, <1>2, <1>4, LinkAfterInv
<1> QED BY <1>5, <1>6

LEMMA InsertInv ==
  ASSUME SlistInv, NEW l \in Lists, NEW i \in Nat, NEW n \in Nodes, NEW d \in Data,
         Insert(l, i, n, d)
  PROVE  SlistInv'
<1>1. PICK ch : Represents(ch)
  BY DEF SlistInv
<1>2. SlistTypes
  BY DEF SlistInv
<1>3. Len(items[l]) = Len(ch[l]) /\ Len(ch[l]) \in Nat
  BY <1>1, <1>2, ListFacts
<1>4. /\ InsertNode(l, i, n, d)
      /\ Holds(l, InsertAt(items[l], 1 + (IF i < Len(ch[l]) THEN i ELSE Len(ch[l])), d))
  BY <1>3 DEF Insert
<1>5. CASE i = 0
  <2>1. 1 + (IF i < Len(ch[l]) THEN i ELSE Len(ch[l])) = 1
    BY <1>3, <1>5
  <2> QED BY <2>1, <1>4, <1>5, PrependNodeInv DEF InsertNode
<1>6. CASE i # 0
  <2> DEFINE k == IF i < Len(ch[l]) THEN i ELSE Len(ch[l])
  <2>1. k \in 0..Len(ch[l]) /\ 1 + k = k + 1
    BY <1>3
  <2>2. i - 1 \in Nat /\ (i - 1) + 1 = i
    BY <1>6
  <2>3. Index(l, i - 1) = IF i - 1 < Len(ch[l]) THEN ch[l][i] ELSE Null
    BY <2>2, <1>1, <1>2, IndexOfNode
  <2>4. \/ Index(l, i - 1) = Null /\ k = Len(ch[l])
        \/ k > 0 /\ Index(l, i - 1) = ch[l][k]
    <3>1. CASE i - 1 < Len(ch[l])
      BY <3>1, <2>3, <1>3, <1>6
    <3>2. CASE ~(i - 1 < Len(ch[l]))
      BY <3>2, <2>3, <1>3
    <3> QED BY <3>1, <3>2
  <2>5. LinkAfter(l, Index(l, i - 1), n, d) /\ Holds(l, InsertAt(items[l], k + 1, d))
    BY <2>1, <1>4, <1>6 DEF InsertNode
  <2> HIDE DEF k
  <2> QED BY <2>1, <2>4, <2>5, <1>1, <1>2, LinkAfterInv
<1> QED BY <1>5, <1>6
LEMMA RemoveIndexInv ==
  ASSUME SlistInv, NEW l \in Lists, NEW i \in Nat, RemoveIndex(l, i)
  PROVE  SlistInv'
<1>1. PICK ch : Represents(ch)
  BY DEF SlistInv
<1>2. SlistTypes
  BY DEF SlistInv
<1> DEFINE s == ch[l]
           n == Index(l, i)
           k == i + 1
<1>3. /\ Len(s) \in Nat /\ m_last_node[l] = EndNode(s) /\ Links(next, m_first_node[l], s)
      /\ \A j \in 1..Len(s) : s[j] \in Nodes
  BY <1>1, <1>2, ListFacts
<1>4. Index(l, i) = IF i < Len(s) THEN s[i + 1] ELSE Null
  BY <1>1, <1>2, IndexOfNode
<1>5. n # Null /\ k \in 1..Len(s) /\ n = s[k]
  BY <1>3, <1>4 DEF RemoveIndex
<1>6. m_last_node[l] = n <=> k = Len(s)
  BY <1>3, <1>5 DEF EndNode, Links
<1>7. m_last_node \in [Lists -> Nodes \cup {Null}]
  BY <1>2 DEF SlistTypes
<1>8. /\ Free({n}) /\ Holds(l, RemoveAt(items[l], k)) /\ data' = data /\ raw' = raw
  BY DEF RemoveIndex
<1>9. allocated' = allocated \ {n}
  BY <1>8 DEF Free
<1>10. CASE i = 0
  <2>1. k = 1
    BY <1>10
  <2>2. /\ m_last_node' = [m_last_node EXCEPT ![l] = IF @ = n THEN Null ELSE @]
        /\ m_first_node' = [m_first_node EXCEPT ![l] = next[n]]
        /\ next' = [next EXCEPT ![n] = Null]
    BY <1>10 DEF RemoveIndex
  <2>3. m_last_node' = IF k = Len(s) THEN [m_last_node EXCEPT ![l] = IF k = 1 THEN Null ELSE s[k - 1]]
                       ELSE m_last_node
    BY <2>1, <2>2, <1>6, <1>7
  <2> HIDE DEF n, k
  <2> QED BY <2>1, <2>2, <2>3, <1>1, <1>2, <1>5, <1>8, <1>9, RemovedList
<1>11. CASE i # 0
  <2> DEFINE p == Index(l, i - 1)
  <2>1. k # 1 /\ i - 1 \in Nat /\ (i - 1) + 1 = k - 1
    BY <1>11
  <2>2. p = s[k - 1]
    <3>1. Index(l, i - 1) = IF i - 1 < Len(s) THEN s[(i - 1) + 1] ELSE Null
      BY <2>1, <1>1, <1>2, IndexOfNode
    <3> QED BY <3>1, <2>1, <1>3, <1>5
  <2>3. /\ m_last_node' = [m_last_node EXCEPT ![l] = IF @ = n THEN p ELSE @]
        /\ next' = [next EXCEPT ![p] = next[n], ![n] = Null]
        /\ m_first_node' = m_first_node
    BY <1>11 DEF RemoveIndex
  <2>4. m_last_node' = IF k = Len(s) THEN [m_last_node EXCEPT ![l] = IF k = 1 THEN Null ELSE s[k - 1]]
                       ELSE m_last_node
    BY <2>1, <2>2, <2>3, <1>6, <1>7
  <2> HIDE DEF n, k, p
  <2> QED BY <2>1, <2>2, <2>3, <2>4, <1>1, <1>2, <1>5, <1>8, <1>9, RemovedList
<1> QED BY <1>10, <1>11

LEMMA RemoveIteratorInv ==
  ASSUME SlistInv, NEW l \in Lists, NEW at, RemoveIterator(l, at)
  PROVE  SlistInv'
<1>1. PICK ch : Represents(ch)
  BY DEF SlistInv
<1>2. SlistTypes
  BY DEF SlistInv
<1> DEFINE s == ch[l]
           n == IF at = Null THEN m_last_node[l] ELSE at
<1>3. /\ s \in Seq(Nodes) /\ Len(s) \in Nat /\ m_last_node[l] = EndNode(s)
      /\ Links(next, m_first_node[l], s)
      /\ \A j \in 1..Len(s) : s[j] \in Nodes
  BY <1>1, <1>2, ListFacts
<1>4. n \in ChainOf(m_first_node[l]) /\ n # Null
  BY DEF RemoveIterator
<1>5. \A m : m \in ChainOf(m_first_node[l]) <=> Has(s, m)
  BY <1>3, ChainOfLinks
<1>6. PICK k \in 1..Len(s) : s[k] = n
  BY <1>4, <1>5 DEF Has
<1>7. \A i, j \in 1..Len(s) : s[i] = s[j] => i = j
  BY <1>3 DEF Links
<1>8. Upto(l, at) = k
  <2>1. CASE at = Null
    <3>1. n = s[Len(s)] /\ Len(s) \in 1..Len(s)
      BY <2>1, <1>3, <1>6 DEF EndNode
    <3>2. k = Len(s)
      BY <3>1, <1>6, <1>7
    <3> QED BY <3>2, <2>1, <1>1, <1>2, <1>6, UptoNode
  <2>2. CASE at # Null
    BY <2>2, <1>1, <1>2, <1>6, UptoNode
  <2> QED BY <2>1, <2>2
<1>9. /\ Holds(l, RemoveAt(items[l], k)) /\ data' = data /\ raw' = raw /\ allocated' = allocated \ {s[k]}
  BY <1>6, <1>8 DEF RemoveIterator, Free
<1>10. m_first_node[l] = s[1] /\ 1 \in 1..Len(s)
  BY <1>3, <1>6 DEF Links
<1>11. next[s[k]] = IF k < Len(s) THEN s[k + 1] ELSE Null
  BY <1>3, <1>6 DEF Links
<1>12. next[s[k]] = Null <=> k = Len(s)
  <2>1. k < Len(s) => k + 1 \in 1..Len(s)
    BY <1>3, <1>6
  <2> QED BY <2>1, <1>3, <1>6, <1>11, ListAssumption
<1>13. CASE n = m_first_node[l]
  <2>1. k = 1
    BY <1>6, <1>7, <1>10, <1>13
  <2>2. /\ m_first_node' = [m_first_node EXCEPT ![l] = next[n]]
        /\ m_last_node' = IF next[n] = Null THEN [m_last_node EXCEPT ![l] = Null] ELSE m_last_node
        /\ next' = [next EXCEPT ![n] = Null]
    BY <1>13 DEF RemoveIterator
  <2>3. m_last_node' = IF k = Len(s) THEN [m_last_node EXCEPT ![l] = IF k = 1 THEN Null ELSE s[k - 1]]
                       ELSE m_last_node
    BY <2>1, <2>2, <1>6, <1>12
  <2> HIDE DEF n
  <2> QED BY <2>1, <2>2, <2>3, <1>1, <1>2, <1>6, <1>9, RemovedList
<1>14. CASE n # m_first_node[l]
  <2>1. k # 1 /\ k - 1 \in 1..Len(s) /\ k - 1 < Len(s) /\ (k - 1) + 1 = k
    BY <1>3, <1>6, <1>10, <1>14
  <2>2. PICK q \in {q \in ChainOf(m_first_node[l]) : next[q] = n} :
          /\ next' = [next EXCEPT ![q] = next[n], ![n] = Null]
          /\ m_last_node' = IF next[n] = Null THEN [m_last_node EXCEPT ![l] = q] ELSE m_last_node
          /\ m_first_node' = m_first_node
    BY <1>14 DEF RemoveIterator
  <2>3. q = s[k - 1]
    <3>1. PICK j \in 1..Len(s) : s[j] = q
      BY <2>2, <1>5 DEF Has
    <3>2. next[s[j]] = IF j < Len(s) THEN s[j + 1] ELSE Null
      BY <1>3 DEF Links
    <3>3. j < Len(s) /\ s[j + 1] = s[k]
      BY <3>1, <3>2, <2>2, <1>4, <1>6
    <3>4. j + 1 = k
      BY <3>3, <1>3, <1>6, <1>7
    <3> QED BY <3>1, <3>4
  <2>4. m_last_node' = IF k = Len(s) THEN [m_last_node EXCEPT ![l] = IF k = 1 THEN Null ELSE s[k - 1]]
                       ELSE m_last_node
    BY <2>1, <2>2, <2>3, <1>6, <1>12
  <2> HIDE DEF n
  <2> QED BY <2>1, <2>2, <2>3, <2>4, <1>1, <1>2, <1>6, <1>9, RemovedList
<1> QED BY <1>13, <1>14

LEMMA ClearInv ==
  ASSUME SlistInv, NEW l \in Lists, Clear(l)
  PROVE  SlistInv'
<1>1. PICK ch : Represents(ch)
  BY DEF SlistInv
<1>2. SlistTypes
  BY DEF SlistInv
<1> DEFINE t == <<>>
<1>3. /\ ch[l] \in Seq(Nodes) /\ Links(next, m_first_node[l], ch[l])
  BY <1>1, <1>2, ListFacts
<1>4. \A m : m \in ChainOf(m_first_node[l]) <=> Has(ch[l], m)
  BY <1>3, ChainOfLinks
<1>5. Len(t) = 0 /\ t \in Seq(Nodes) /\ t \in Seq(Data) /\ (\A m : ~Has(t, m)) /\ EndNode(t) = Null
  BY DEF Has, EndNode
<1>6. <<>> = [i \in 1..Len(t) |-> data'[t[i]]]
  OBVIOUS
<1>7. /\ m_first_node' = [m_first_node EXCEPT ![l] = Null]
      /\ m_last_node' = [m_last_node EXCEPT ![l] = EndNode(t)]
      /\ items' = [items EXCEPT ![l] = [i \in 1..Len(t) |-> data'[t[i]]]]
      /\ next' = next /\ data' = data /\ raw' = raw
      /\ allocated' = allocated \ ChainOf(m_first_node[l])
  BY <1>5, <1>6 DEF Clear, Holds, Free
<1>8. Links(next', Null, t)
  BY <1>5 DEF Links
<1>9. \A m : m \in allocated' <=> Has(t, m) \/ (m \in allocated /\ ~Has(ch[l], m))
  BY <1>4, <1>5, <1>7
<1>10. /\ m_first_node \in [Lists -> Nodes \cup {Null}] /\ m_last_node \in [Lists -> Nodes \cup {Null}]
       /\ items \in [Lists -> Seq(Data)]
  BY <1>2 DEF SlistTypes
<1>11. \A i \in 1..Len(t) : Has(ch[l], t[i]) \/ t[i] \notin allocated
  BY <1>5
<1>12. \A n \in allocated : ~Has(ch[l], n) => next'[n] = next[n] /\ data'[n] = data[n]
  BY <1>7
<1>13. items' = [items EXCEPT ![l] = <<>>]
  BY DEF Clear, Holds
<1>14. SlistTypes'
  BY <1>2, <1>5, <1>7, <1>10, <1>13 DEF SlistTypes
<1> HIDE DEF t
<1>15. Represents([ch EXCEPT ![l] = t])'
  BY <1>1, <1>5, <1>7, <1>8, <1>9, <1>10, <1>11, <1>12, ChangedList
<1> QED BY <1>14, <1>15 DEF SlistInv

(* A copy of at most one node has its last node where m_last_node says.      *)
LEMMA CopyFromInv ==
  ASSUME SlistInv, MaxCopied <= 1, NEW l \in Lists, NEW k \in Lists, CopyFrom(l, k)
  PROVE  SlistInv'
<1> USE ListAssumption
<1>1. PICK ch : Represents(ch)
  BY DEF SlistInv
<1>2. SlistTypes
  BY DEF SlistInv
<1> DEFINE size == Len(items[k])
<1>3. size \in Nat /\ size = Len(ch[k]) /\ items[k] \in Seq(Data)
  BY <1>1, <1>2, ListFacts
<1>4. size <= MaxCopied
  BY DEF CopyFrom
<1>5. size \in 0..1
  <2>1. size \in Nat
    BY <1>3
  <2> HIDE DEF size
  <2> QED BY <2>1, <1>4
<1>6. PICK t \in [1..size -> Nodes \ allocated] :
        /\ IsInjective(t)
        /\ next' = [n \in Nodes |->
                      IF \E i \in 1..size - 1 : t[i] = n THEN t[1 + CHOOSE i \in 1..size - 1 : t[i] = n]
                      ELSE IF size > 0 /\ t[size] = n THEN Null
                      ELSE next[n]]
        /\ data' = [n \in Nodes |->
                      IF \E i \in 1..size : t[i] = n
                        THEN data[Index(k, (CHOOSE i \in 1..size : t[i] = n) - 1)]
                        ELSE data[n]]
        /\ m_first_node' = [m_first_node EXCEPT ![l] = IF size = 0 THEN Null ELSE t[1]]
        /\ m_last_node' = [m_last_node EXCEPT ![l] = IF size = 0 THEN Null ELSE t[1]]
        /\ allocated' = (allocated \ ChainOf(m_first_node[l])) \cup {t[i] : i \in 1..size}
  BY DEF CopyFrom
<1> HIDE DEF size
<1>7. t \in Seq(Nodes) /\ Len(t) = size
  BY <1>5, <1>6
<1>8. /\ next \in [Nodes -> Nodes \cup {Null}] /\ data \in [Nodes -> Data]
      /\ m_first_node \in [Lists -> Nodes \cup {Null}]
      /\ m_last_node \in [Lists -> Nodes \cup {Null}] /\ items \in [Lists -> Seq(Data)]
  BY <1>2 DEF SlistTypes
<1>9. ASSUME NEW n \in Nodes PROVE next'[n] = IF size = 1 /\ t[1] = n THEN Null ELSE next[n]
  <2>1. ~\E i \in 1..size - 1 : t[i] = n
    BY <1>5
  <2>2. next'[n] = IF size > 0 /\ t[size] = n THEN Null ELSE next[n]
    BY <2>1, <1>6
  <2> QED BY <2>2, <1>5
<1>10. \A n \in Nodes : data'[n] = IF size = 1 /\ t[1] = n THEN items[k][1] ELSE data[n]
  <2>1. CASE size = 0
    BY <2>1, <1>6
  <2>2. CASE size = 1
    <3>1. Index(k, 0) = ch[k][1] /\ items[k][1] = data[ch[k][1]]
      <4>1. 0 \in Nat /\ 0 < Len(ch[k]) /\ 1 \in 1..Len(ch[k]) /\ 0 + 1 = 1
        <5>1. Len(ch[k]) = 1
          BY <2>2, <1>3
        <5> QED BY <5>1
      <4>2. Index(k, 0) = ch[k][1]
        BY <4>1, <1>1, <1>2, IndexOfNode
      <4>3. items[k][1] = data[ch[k][1]]
        BY <4>1, <1>1, <1>2, ListFacts
      <4> QED BY <4>2, <4>3
    <3>2. 1..size = {1}
      BY <2>2
    <3>3. ASSUME NEW n \in Nodes, t[1] = n PROVE data'[n] = data[Index(k, 0)]
      <4>1. (CHOOSE i \in 1..size : t[i] = n) = 1
        BY <3>2, <3>3
      <4> QED BY <4>1, <3>2, <3>3, <1>6
    <3>4. ASSUME NEW n \in Nodes, t[1] # n PROVE data'[n] = data[n]
      BY <3>2, <3>4, <1>6
    <3> QED BY <2>2, <3>1, <3>3, <3>4
  <2> QED BY <2>1, <2>2, <1>5
<1>11. /\ ch[l] \in Seq(Nodes) /\ Links(next, m_first_node[l], ch[l])
  BY <1>1, <1>2, ListFacts
<1>12. \A m : m \in ChainOf(m_first_node[l]) <=> Has(ch[l], m)
  BY <1>11, ChainOfLinks
<1>13. allocated \subseteq Nodes
  BY <1>1, AllocatedNodes
<1> DEFINE f == IF size = 0 THEN Null ELSE t[1]
<1>14. EndNode(t) = f
  <2>1. EndNode(t) = IF size = 0 THEN Null ELSE t[size]
    BY <1>7 DEF EndNode
  <2> QED BY <2>1, <1>5
<1>15. Links(next', f, t)
  <2>1. \A i \in 1..Len(t) : i = 1 /\ size = 1 /\ t[i] \in Nodes
    BY <1>5, <1>7
  <2> QED BY <2>1, <1>5, <1>7, <1>9 DEF Links
<1>16. items[k] = [i \in 1..Len(t) |-> data'[t[i]]]
  <2>1. \A i \in 1..size : items[k][i] = data'[t[i]]
    <3>1. \A i \in 1..size : i = 1 /\ size = 1 /\ t[i] \in Nodes
      BY <1>5, <1>7
    <3> QED BY <3>1, <1>10
  <2>2. items[k] = [i \in 1..size |-> items[k][i]]
    BY <1>3 DEF size
  <2> QED BY <2>1, <2>2, <1>7
<1>17. items' = [items EXCEPT ![l] = [i \in 1..Len(t) |-> data'[t[i]]]]
  BY <1>16 DEF CopyFrom, Holds
<1>18. \A n \in allocated : ~Has(ch[l], n) => next'[n] = next[n] /\ data'[n] = data[n]
  <2>1. \A n \in allocated : n \in Nodes /\ ~(size = 1 /\ t[1] = n)
    BY <1>6, <1>13
  <2> QED BY <2>1, <1>9, <1>10
<1>19. \A i \in 1..Len(t) : t[i] \notin allocated
  BY <1>6, <1>7
<1>20. \A m : m \in allocated' <=> Has(t, m) \/ (m \in allocated /\ ~Has(ch[l], m))
  BY <1>6, <1>7, <1>12 DEF Has
<1>21. /\ m_first_node' = [m_first_node EXCEPT ![l] = f]
       /\ m_last_node' = [m_last_node EXCEPT ![l] = EndNode(t)]
       /\ raw' = raw
  BY <1>6, <1>14 DEF CopyFrom
<1>22. Represents([ch EXCEPT ![l] = t])'
  <2> HIDE DEF f
  <2> QED BY <1>1, <1>7, <1>8, <1>15, <1>17, <1>18, <1>19, <1>20, <1>21, ChangedList
<1>23. SlistTypes'
  <2>1. next' \in [Nodes -> Nodes \cup {Null}]
    <3>1. \A n \in Nodes : next'[n] \in Nodes \cup {Null}
      BY <1>8, <1>9
    <3>2. next' = [n \in Nodes |-> next'[n]]
      BY <1>6
    <3> QED BY <3>1, <3>2
  <2>2. data' \in [Nodes -> Data]
    <3>1. \A n \in Nodes : data'[n] \in Data
      BY <1>3, <1>5, <1>8, <1>10 DEF size
    <3>2. data' = [n \in Nodes |-> data'[n]]
      BY <1>6
    <3> QED BY <3>1, <3>2
  <2>3. f \in Nodes \cup {Null}
    BY <1>5, <1>7
  <2>4. m_first_node' \in [Lists -> Nodes \cup {Null}] /\ m_last_node' \in [Lists -> Nodes \cup {Null}]
    BY <2>3, <1>8, <1>14, <1>21
  <2>5. items' \in [Lists -> Seq(Data)]
    BY <1>3, <1>8 DEF CopyFrom, Holds
  <2> QED BY <2>1, <2>2, <2>4, <2>5 DEF SlistTypes
<1> QED BY <1>22, <1>23 DEF SlistInv
LEMMA MoveFromInv ==
  ASSUME SlistInv, NEW l \in Lists, NEW k \in Lists, MoveFrom(l, k)
  PROVE  SlistInv'
<1> USE ListAssumption
<1>1. PICK ch : Represents(ch)
  BY DEF SlistInv
<1>2. /\ next \in [Nodes -> Nodes \cup {Null}] /\ data \in [Nodes -> Data]
      /\ m_first_node \in [Lists -> Nodes \cup {Null}]
      /\ m_last_node \in [Lists -> Nodes \cup {Null}] /\ items \in [Lists -> Seq(Data)]
  BY DEF SlistInv, SlistTypes
<1>3. /\ m_first_node' = [m_first_node EXCEPT ![l] = m_first_node[k], ![k] = m_first_node[l]]
      /\ m_last_node' = [m_last_node EXCEPT ![l] = m_last_node[k], ![k] = m_last_node[l]]
      /\ items' = [items EXCEPT ![l] = items[k], ![k] = items[l]]
      /\ next' = next /\ data' = data /\ allocated' = allocated /\ raw' = raw
  BY DEF MoveFrom
<1> DEFINE c == [ch EXCEPT ![l] = ch[k], ![k] = ch[l]]
<1>4. l \in Owners /\ k \in Owners /\ l # "caller" /\ k # "caller" /\ ch \in [Owners -> Seq(Nodes)]
  BY <1>1 DEF Owners, Represents
<1>5. \A m \in Lists : c[m] = ch[IF m = k THEN l ELSE IF m = l THEN k ELSE m]
  BY <1>4 DEF Owners
<1>6. /\ First(l)' = First(k) /\ First(k)' = First(l)
      /\ \A o \in Owners \ {l, k} : First(o)' = First(o)
  BY <1>2, <1>3, <1>4 DEF First, Owners
<1> HIDE DEF c
<1>7. \A m \in Lists : m_last_node'[m] = EndNode(c[m])
  BY <1>1, <1>2, <1>3, <1>5, ZenonT(60) DEF Represents
<1>8. ASSUME NEW m \in Lists PROVE items'[m] = [i \in 1..Len(c[m]) |-> data'[c[m][i]]]
  <2> DEFINE x == IF m = k THEN l ELSE IF m = l THEN k ELSE m
  <2>1. x \in Lists /\ items'[m] = items[x] /\ c[m] = ch[x]
    BY <1>2, <1>3, <1>5
  <2> HIDE DEF x
  <2>2. items[x] = [i \in 1..Len(ch[x]) |-> data[ch[x][i]]]
    BY <2>1, <1>1 DEF Represents
  <2> QED BY <2>1, <2>2, <1>3
<1>9. c = [ch EXCEPT ![l] = ch[k], ![k] = ch[l]]
  BY DEF c
<1>10. Represents(c)'
  <2>1. Tells(c)'
    BY <1>7, <1>8 DEF Tells
  <2> QED BY <2>1, <1>1, <1>3, <1>4, <1>6, <1>9, ExchangedChains
<1>11. SlistTypes'
  BY <1>2, <1>3 DEF SlistTypes
<1> QED BY <1>10, <1>11 DEF SlistInv

LEMMA ReleaseInv ==
  ASSUME SlistInv, NEW l \in Lists, Release(l)
  PROVE  SlistInv'
<1> USE ListAssumption
<1>1. PICK ch : Represents(ch)
  BY DEF SlistInv
<1>2. /\ next \in [Nodes -> Nodes \cup {Null}] /\ data \in [Nodes -> Data]
      /\ m_first_node \in [Lists -> Nodes \cup {Null}]
      /\ m_last_node \in [Lists -> Nodes \cup {Null}] /\ items \in [Lists -> Seq(Data)]
  BY DEF SlistInv, SlistTypes
<1>3. /\ raw = Null /\ raw' = m_first_node[l]
      /\ m_first_node' = [m_first_node EXCEPT ![l] = Null]
      /\ m_last_node' = [m_last_node EXCEPT ![l] = Null]
      /\ items' = [items EXCEPT ![l] = <<>>]
      /\ next' = next /\ data' = data /\ allocated' = allocated
  BY DEF Release, Holds
<1> DEFINE c == [ch EXCEPT ![l] = ch["caller"], !["caller"] = ch[l]]
<1>4. l \in Owners /\ "caller" \in Owners /\ l # "caller" /\ ch \in [Owners -> Seq(Nodes)]
  BY <1>1 DEF Owners, Represents
<1>5. \A m \in Lists : c[m] = IF m = l THEN ch["caller"] ELSE ch[m]
  BY <1>4 DEF Owners
<1>6. /\ First(l)' = First("caller") /\ First("caller")' = First(l)
      /\ \A o \in Owners \ {l, "caller"} : First(o)' = First(o)
  BY <1>2, <1>3, <1>4 DEF First, Owners
<1>7. Len(ch["caller"]) = 0
  <2>1. ch["caller"] \in Seq(Nodes) /\ Links(next, First("caller"), ch["caller"])
    BY <1>1, <1>4 DEF Represents
  <2>2. First("caller") = Null
    BY <1>3 DEF First
  <2>3. ASSUME Len(ch["caller"]) # 0 PROVE FALSE
    <3>1. 1 \in 1..Len(ch["caller"])
      BY <2>1, <2>3
    <3> QED BY <3>1, <2>1, <2>2, <2>3 DEF Links
  <2> QED BY <2>3
<1> HIDE DEF c
<1>8. \A m \in Lists : m_last_node'[m] = EndNode(c[m])
  <2>1. EndNode(ch["caller"]) = Null
    BY <1>7 DEF EndNode
  <2> QED BY <2>1, <1>1, <1>2, <1>3, <1>5 DEF Represents
<1>9. ASSUME NEW m \in Lists PROVE items'[m] = [i \in 1..Len(c[m]) |-> data'[c[m][i]]]
  <2>1. CASE m = l
    <3>1. items'[m] = <<>> /\ Len(c[m]) = 0
      BY <2>1, <1>2, <1>3, <1>5, <1>7
    <3> QED BY <3>1
  <2>2. CASE m # l
    <3>1. items'[m] = items[m] /\ c[m] = ch[m]
      BY <2>2, <1>2, <1>3, <1>5
    <3>2. items[m] = [i \in 1..Len(ch[m]) |-> data[ch[m][i]]]
      BY <1>1 DEF Represents
    <3> QED BY <3>1, <3>2, <1>3
  <2> QED BY <2>1, <2>2
<1>10. c = [ch EXCEPT ![l] = ch["caller"], !["caller"] = ch[l]]
  BY DEF c
<1>11. Represents(c)'
  <2>1. Tells(c)'
    BY <1>8, <1>9 DEF Tells
  <2> QED BY <2>1, <1>1, <1>3, <1>4, <1>6, <1>10, ExchangedChains
<1>12. SlistTypes'
  BY <1>2, <1>3 DEF SlistTypes
<1> QED BY <1>11, <1>12 DEF SlistInv

LEMMA TakeInv ==
  ASSUME SlistInv, NEW l \in Lists, Take(l)
  PROVE  SlistInv'
<1> USE ListAssumption
<1>1. PICK ch : Represents(ch)
  BY DEF SlistInv
<1>2. /\ next \in [Nodes -> Nodes \cup {Null}] /\ data \in [Nodes -> Data]
      /\ m_first_node \in [Lists -> Nodes \cup {Null}]
      /\ m_last_node \in [Lists -> Nodes \cup {Null}] /\ items \in [Lists -> Seq(Data)]
  BY DEF SlistInv, SlistTypes
<1>3. /\ raw # Null /\ m_first_node[l] = Null /\ raw' = Null
      /\ m_first_node' = [m_first_node EXCEPT ![l] = raw]
      /\ m_last_node' = [m_last_node EXCEPT ![l] = EndOf(raw)]
      /\ items' = [items EXCEPT ![l] = Contents(raw)]
      /\ next' = next /\ data' = data /\ allocated' = allocated
  BY DEF Take, Holds
<1> DEFINE s == ch["caller"]
           c == [ch EXCEPT ![l] = s, !["caller"] = ch[l]]
<1>4. l \in Owners /\ "caller" \in Owners /\ l # "caller" /\ ch \in [Owners -> Seq(Nodes)]
  BY <1>1 DEF Owners, Represents
<1>5. \A m \in Lists : c[m] = IF m = l THEN s ELSE ch[m]
  BY <1>4 DEF Owners
<1>6. /\ First(l)' = First("caller") /\ First("caller")' = First(l)
      /\ \A o \in Owners \ {l, "caller"} : First(o)' = First(o)
  BY <1>2, <1>3, <1>4 DEF First, Owners
<1>7. s \in Seq(Nodes) /\ Links(next, raw, s)
  BY <1>1, <1>4 DEF Represents, First
<1>8. Len(s) > 0
  BY <1>3, <1>7 DEF Links
<1>9. EndOf(raw) = EndNode(s) /\ Contents(raw) = [i \in 1..Len(s) |-> data[s[i]]]
  BY <1>7, <1>8, ChainOfLinks
<1>10. EndNode(s) \in Nodes
  <2>1. Len(s) \in 1..Len(s) /\ Len(s) # 0
    BY <1>7, <1>8
  <2> QED BY <2>1, <1>7 DEF EndNode
<1>11. Contents(raw) \in Seq(Data)
  <2>1. \A i \in 1..Len(s) : data[s[i]] \in Data
    BY <1>2, <1>7
  <2>2. Len(s) \in Nat
    BY <1>7
  <2> QED BY <2>1, <2>2, <1>9
<1> HIDE DEF c, s
<1>12. \A m \in Lists : m_last_node'[m] = EndNode(c[m])
  BY <1>1, <1>2, <1>3, <1>5, <1>9 DEF Represents
<1>13. ASSUME NEW m \in Lists PROVE items'[m] = [i \in 1..Len(c[m]) |-> data'[c[m][i]]]
  <2>1. CASE m = l
    <3>1. items'[m] = Contents(raw) /\ c[m] = s
      BY <2>1, <1>2, <1>3, <1>5
    <3> QED BY <3>1, <1>3, <1>9
  <2>2. CASE m # l
    <3>1. items'[m] = items[m] /\ c[m] = ch[m]
      BY <2>2, <1>2, <1>3, <1>5
    <3>2. items[m] = [i \in 1..Len(ch[m]) |-> data[ch[m][i]]]
      BY <1>1 DEF Represents
    <3> QED BY <3>1, <3>2, <1>3
  <2> QED BY <2>1, <2>2
<1>14. c = [ch EXCEPT ![l] = ch["caller"], !["caller"] = ch[l]]
  BY DEF c, s
<1>15. Represents(c)'
  <2>1. Tells(c)'
    BY <1>12, <1>13 DEF Tells
  <2> QED BY <2>1, <1>1, <1>3, <1>4, <1>6, <1>14, ExchangedChains
<1>16. raw \in Nodes
  <2>1. 1 \in 1..Len(s) /\ Len(s) # 0
    BY <1>7, <1>8
  <2> QED BY <2>1, <1>7 DEF Links
<1>17. SlistTypes'
  BY <1>2, <1>3, <1>9, <1>10, <1>11, <1>16 DEF SlistTypes
<1> QED BY <1>15, <1>17 DEF SlistInv

-------------------------------------------------------------------------------
LEMMA SlistInitInv == Init => SlistInv
<1> USE ListAssumption
<1> SUFFICES ASSUME Init PROVE SlistInv
  OBVIOUS
<1> DEFINE ch == [o \in Owners |-> <<>>]
<1>1. SlistTypes
  <2>1. (CHOOSE d \in Data : TRUE) \in Data
    OBVIOUS
  <2> QED BY <2>1 DEF Init, SlistTypes
<1>2. Represents(ch)
  <2>1. <<>> \in Seq(Nodes) /\ Len(<<>>) = 0 /\ \A n : ~Has(<<>>, n)
    BY DEF Has
  <2>2. \A o \in Owners : ch[o] = <<>> /\ First(o) = Null
    BY DEF Init, First, Owners
  <2>3. Links(next, Null, <<>>)
    BY <2>1 DEF Links
  <2>4. ch \in [Owners -> Seq(Nodes)]
    BY <2>1
  <2>5. \A l \in Lists : l \in Owners /\ m_last_node[l] = EndNode(<<>>) /\ items[l] = <<>>
    BY <2>1 DEF Init, EndNode, Owners
  <2>6. \A n : n \in allocated <=> \E o \in Owners : Has(ch[o], n)
    BY <2>1, <2>2 DEF Init
  <2>7. \A o, p \in Owners : o # p => \A i \in 1..Len(ch[o]) : ~Has(ch[p], ch[o][i])
    BY <2>1, <2>2
  <2>8. \A l \in Lists : items[l] = [i \in 1..Len(ch[l]) |-> data[ch[l][i]]]
    <3>1. <<>> = [i \in 1..Len(<<>>) |-> data[<<>>[i]]]
      OBVIOUS
    <3> QED BY <3>1, <2>2, <2>5
  <2>9. \A o \in Owners : Links(next, First(o), ch[o])
    BY <2>2, <2>3
  <2>10. \A l \in Lists : m_last_node[l] = EndNode(ch[l])
    BY <2>2, <2>5
  <2> HIDE DEF ch
  <2> QED BY <2>4, <2>6, <2>7, <2>8, <2>9, <2>10 DEF Represents
<1> QED BY <1>1, <1>2 DEF SlistInv

LEMMA SlistStepInv == MaxCopied <= 1 /\ SlistInv /\ [Next]_vars => SlistInv'
<1> SUFFICES ASSUME MaxCopied <= 1, SlistInv, [Next]_vars PROVE SlistInv'
  OBVIOUS
<1>1. Cardinality(Nodes) \in Nat
  BY ListAssumption, FS_CardinalityType
<1>2. CASE UNCHANGED vars
  <2>1. PICK ch : Represents(ch)
    BY DEF SlistInv
  <2>2. /\ next' = next /\ data' = data /\ allocated' = allocated /\ items' = items
        /\ m_first_node' = m_first_node /\ m_last_node' = m_last_node /\ raw' = raw
    BY <1>2 DEF vars
  <2>3. Represents(ch)'
    <3>1. \A o \in Owners : First(o)' = First(o)
      BY <2>2 DEF First
    <3>2. \A o \in Owners : Links(next', First(o)', ch[o])
      BY <2>1, <2>2, <3>1 DEF Represents
    <3>3. \A l \in Lists : items'[l] = [i \in 1..Len(ch[l]) |-> data'[ch[l][i]]]
      <4>1. \A l \in Lists : items[l] = [i \in 1..Len(ch[l]) |-> data[ch[l][i]]]
        BY <2>1 DEF Represents
      <4> QED BY <4>1, <2>2
    <3>4. \A n : n \in allocated' <=> \E o \in Owners : Has(ch[o], n)
      BY <2>1, <2>2 DEF Represents
    <3>5. \A l \in Lists : m_last_node'[l] = EndNode(ch[l])
      BY <2>1, <2>2 DEF Represents
    <3> QED BY <2>1, <3>2, <3>3, <3>4, <3>5 DEF Represents
  <2>4. SlistTypes'
    BY <2>2, Zenon DEF SlistInv, SlistTypes
  <2> QED BY <2>3, <2>4 DEF SlistInv
<1>3. CASE Next
  <2>1. PICK l \in Lists :
          \/ \E n \in Nodes, d \in Data :
               \/ Prepend(l, n, d)
               \/ \E i \in 0..Cardinality(Nodes) : Insert(l, i, n, d)
               \/ \E at \in Nodes \cup {Null} : InsertAfter(l, at, n, d)
          \/ \E i \in 0..Cardinality(Nodes) : RemoveIndex(l, i)
          \/ \E at \in Nodes \cup {Null} : RemoveIterator(l, at)
          \/ Clear(l) \/ Release(l) \/ Take(l)
          \/ \E k \in Lists : CopyFrom(l, k) \/ MoveFrom(l, k)
    BY <1>3, Zenon DEF Next
  <2>2. \A i \in 0..Cardinality(Nodes) : i \in Nat
    BY <1>1
  <2>3. CASE \E n \in Nodes, d \in Data :
               \/ Prepend(l, n, d)
               \/ \E i \in 0..Cardinality(Nodes) : Insert(l, i, n, d)
               \/ \E at \in Nodes \cup {Null} : InsertAfter(l, at, n, d)
    BY <2>2, <2>3, PrependInv, InsertInv, InsertAfterInv, Zenon
  <2>4. CASE \E i \in 0..Cardinality(Nodes) : RemoveIndex(l, i)
    BY <2>2, <2>4, RemoveIndexInv
  <2>5. CASE \E at \in Nodes \cup {Null} : RemoveIterator(l, at)
    BY <2>5, RemoveIteratorInv
  <2>6. CASE Clear(l) \/ Release(l) \/ Take(l)
    BY <2>6, ClearInv, ReleaseInv, TakeInv
  <2>7. CASE \E k \in Lists : CopyFrom(l, k) \/ MoveFrom(l, k)
    BY <2>7, CopyFromInv, MoveFromInv
  <2> QED BY <2>1, <2>3, <2>4, <2>5, <2>6, <2>7
<1> QED BY <1>2, <1>3

LEMMA SlistInvHoldsItems == SlistInv => HoldsItsItems
<1> SUFFICES ASSUME SlistInv, NEW l \in Lists PROVE Contents(m_first_node[l]) = items[l]
  BY DEF HoldsItsItems
<1>1. PICK ch : Represents(ch)
  BY DEF SlistInv
<1>2. ch[l] \in Seq(Nodes) /\ Links(next, m_first_node[l], ch[l])
  BY <1>1, ListFacts DEF SlistInv
<1>3. items[l] = [i \in 1..Len(ch[l]) |-> data[ch[l][i]]]
  BY <1>1 DEF Represents
<1> QED BY <1>2, <1>3, ChainOfLinks

LEMMA SlistInvOwnedOnce == SlistInv => OwnedOnce
<1> SUFFICES ASSUME SlistInv PROVE OwnedOnce
  OBVIOUS
<1>1. PICK ch : Represents(ch)
  BY DEF SlistInv
<1> DEFINE owned == [o \in Lists \cup {"caller"} |-> ChainOf(IF o = "caller" THEN raw ELSE m_first_node[o])]
<1>2. ASSUME NEW o \in Owners PROVE \A n : n \in owned[o] <=> Has(ch[o], n)
  <2>1. ch[o] \in Seq(Nodes) /\ Links(next, First(o), ch[o])
    BY <1>1 DEF Represents
  <2>2. owned[o] = ChainOf(First(o))
    BY DEF Owners, First
  <2> QED BY <2>1, <2>2, ChainOfLinks
<1>3. DOMAIN owned = Owners
  BY DEF Owners
<1> HIDE DEF owned
<1>4. UNION {owned[o] : o \in DOMAIN owned} = allocated
  <2>1. \A n : n \in allocated <=> \E o \in Owners : Has(ch[o], n)
    BY <1>1 DEF Represents
  <2> QED BY <2>1, <1>2, <1>3
<1>5. \A o, p \in DOMAIN owned : o # p => owned[o] \cap owned[p] = {}
  <2>1. \A o, p \in Owners : o # p => \A i \in 1..Len(ch[o]) : ~Has(ch[p], ch[o][i])
    BY <1>1 DEF Represents
  <2>2. \A o, p \in Owners : o # p => \A n : Has(ch[o], n) => ~Has(ch[p], n)
    BY <2>1 DEF Has
  <2> QED BY <2>2, <1>2, <1>3
<1> QED BY <1>4, <1>5 DEF OwnedOnce, owned

(* As long as no list of two or more is copied, which leaves m_last_node at  *)
(* the wrong node, the pointers of every list give what the calls were to    *)
(* produce (slist.cpp:99-261)...                                             *)
THEOREM ListsHoldTheirItems == MaxCopied <= 1 => (Spec => []HoldsItsItems)
<1> SUFFICES ASSUME MaxCopied <= 1 PROVE Spec => []HoldsItsItems
  OBVIOUS
<1>1. Init => SlistInv
  BY SlistInitInv
<1>2. SlistInv /\ [Next]_vars => SlistInv'
  BY SlistStepInv
<1>3. SlistInv => HoldsItsItems
  BY SlistInvHoldsItems
<1> QED BY <1>1, <1>2, <1>3, PTL DEF Spec

(* ...and every node that exists is in exactly one list, or the caller's.    *)
THEOREM NodesAreOwnedOnce == MaxCopied <= 1 => (Spec => []OwnedOnce)
<1> SUFFICES ASSUME MaxCopied <= 1 PROVE Spec => []OwnedOnce
  OBVIOUS
<1>1. Init => SlistInv
  BY SlistInitInv
<1>2. SlistInv /\ [Next]_vars => SlistInv'
  BY SlistStepInv
<1>3. SlistInv => OwnedOnce
  BY SlistInvOwnedOnce
<1> QED BY <1>1, <1>2, <1>3, PTL DEF Spec

-------------------------------------------------------------------------------
(* Two options do not share a list; freeing the one would take it from the   *)
(* other.                                                                    *)
OwnedByOne ==
  \A o, p \in SlistOptions :
    m_owned_slists[o] = m_owned_slists[p] /\ m_owned_slists[o] # NoSlist => o = p

HandleInv == HandleTypeOK /\ LibcurlAgrees /\ OwnedByOne

(* A list that replaces another one in its option: the owned lists are those *)
(* that exist, and each is owned once.                                       *)
LEMMA OwnsKeepsLists ==
  ASSUME HandleInv,
         NEW o \in SlistOptions, NEW l \in SlistIds, l \notin slists, Owns(o, l)
  PROVE  /\ slists' \subseteq SlistIds
         /\ m_owned_slists' \in [SlistOptions -> SlistIds \cup {NoSlist}]
         /\ slists' = {m_owned_slists'[p] : p \in SlistOptions} \ {NoSlist}
         /\ OwnedByOne'
<1> USE HandleAssumption
<1>1. m_owned_slists' = [m_owned_slists EXCEPT ![o] = l]
      /\ slists' = (slists \cup {l}) \ {m_owned_slists[o]}
  BY DEF Owns
<1>2. m_owned_slists \in [SlistOptions -> SlistIds \cup {NoSlist}]
      /\ slists \subseteq SlistIds
      /\ slists = {m_owned_slists[p] : p \in SlistOptions} \ {NoSlist}
      /\ OwnedByOne
  BY DEF HandleInv, HandleTypeOK, LibcurlAgrees
<1>3. \A p \in SlistOptions : m_owned_slists'[p] = IF p = o THEN l ELSE m_owned_slists[p]
  BY <1>1, <1>2
<1>4. l # NoSlist /\ \A p \in SlistOptions : m_owned_slists[p] # l
  BY <1>2
<1>5. slists' \subseteq SlistIds
      /\ m_owned_slists' \in [SlistOptions -> SlistIds \cup {NoSlist}]
  BY <1>1, <1>2
<1>6. ASSUME NEW x PROVE x \in slists' <=> x \in {m_owned_slists'[p] : p \in SlistOptions} \ {NoSlist}
  <2>1. CASE x = l
    BY <2>1, <1>1, <1>2, <1>3, <1>4
  <2>2. CASE x # l /\ x \in slists /\ x # m_owned_slists[o]
    <3>1. PICK p \in SlistOptions : m_owned_slists[p] = x
      BY <2>2, <1>2
    <3>2. p # o /\ m_owned_slists'[p] = x /\ x # NoSlist
      BY <3>1, <2>2, <1>2, <1>3
    <3> QED BY <3>2, <2>2, <1>1
  <2>3. CASE x # l /\ ~(x \in slists /\ x # m_owned_slists[o])
    <3>1. x \notin slists'
      BY <2>3, <1>1
    <3>2. ASSUME NEW p \in SlistOptions, m_owned_slists'[p] = x, x # NoSlist PROVE FALSE
      <4>1. p # o /\ m_owned_slists[p] = x /\ x \in slists
        BY <3>2, <2>3, <1>2, <1>3
      <4>2. m_owned_slists[o] = m_owned_slists[p]
        BY <4>1, <2>3
      <4> QED BY <4>1, <4>2, <1>2, <3>2 DEF OwnedByOne
    <3> QED BY <3>1, <3>2
  <2> QED BY <2>1, <2>2, <2>3
<1>7. OwnedByOne'
  BY <1>2, <1>3, <1>4 DEF OwnedByOne
<1> QED BY <1>5, <1>6, <1>7

LEMMA HandleInitInv == HandleInit => HandleInv
BY HandleAssumption
   DEF HandleInit, HandleInv, HandleTypeOK, LibcurlAgrees, OwnedByOne, None

LEMMA HandleStepInv == HandleInv /\ [HandleNext]_handleVars => HandleInv'
<1> SUFFICES ASSUME HandleInv, [HandleNext]_handleVars PROVE HandleInv'
  OBVIOUS
<1> USE DEF HandleInv
<1>1. ASSUME NEW o \in SlistOptions, NEW l \in SlistIds, NEW taken \in BOOLEAN,
             SetSlist(o, l, taken)
      PROVE  HandleInv'
  <2>1. CASE taken
    <3>1. Owns(o, l) /\ l \notin slists /\ curl_slists' = [curl_slists EXCEPT ![o] = l]
          /\ UNCHANGED <<handle_exists, attached, functions, curl_functions, m_flags, curl_flags>>
      BY <1>1, <2>1 DEF SetSlist
    <3>2. /\ slists' \subseteq SlistIds
          /\ m_owned_slists' \in [SlistOptions -> SlistIds \cup {NoSlist}]
          /\ slists' = {m_owned_slists'[p] : p \in SlistOptions} \ {NoSlist}
          /\ OwnedByOne'
      BY <3>1, OwnsKeepsLists
    <3>3. curl_slists' = m_owned_slists'
      BY <3>1 DEF Owns, LibcurlAgrees
    <3> QED BY <3>1, <3>2, <3>3 DEF HandleTypeOK, LibcurlAgrees
  <2>2. CASE ~taken
    BY <1>1, <2>2 DEF SetSlist, SetSlistFails, HandleTypeOK, LibcurlAgrees, OwnedByOne
  <2> QED BY <2>1, <2>2
<1>2. ASSUME NEW f \in Flags, NEW on \in BOOLEAN, NEW taken \in BOOLEAN, SetFlag(f, on, taken)
      PROVE  HandleInv'
  BY <1>2 DEF SetFlag, HandleTypeOK, LibcurlAgrees, OwnedByOne
<1>3. ASSUME NEW f \in CurlFunctions \cup {"done"}, SetFunction(f) PROVE HandleInv'
  BY <1>3 DEF SetFunction, HandleTypeOK, LibcurlAgrees, OwnedByOne
<1>4. CASE Attach
  BY <1>4 DEF Attach, HandleTypeOK, LibcurlAgrees, OwnedByOne
<1>5. CASE Detach
  BY <1>5 DEF Detach, HandleTypeOK, LibcurlAgrees, OwnedByOne
<1>6. CASE TakeDone
  BY <1>6 DEF TakeDone, HandleTypeOK, LibcurlAgrees, OwnedByOne, CurlFunctions
<1>7. CASE Reset
  BY <1>7 DEF Reset, HandleTypeOK, LibcurlAgrees, OwnedByOne, None
<1>8. CASE Destroy
  BY <1>8 DEF Destroy, HandleTypeOK, LibcurlAgrees, OwnedByOne, None
<1>9. CASE UNCHANGED handleVars
  BY <1>9 DEF handleVars, HandleTypeOK, LibcurlAgrees, OwnedByOne
<1> QED BY <1>1, <1>2, <1>3, <1>4, <1>5, <1>6, <1>7, <1>8, <1>9 DEF HandleNext

(* Whatever is set, refused, reset and destroyed, in whatever order: libcurl *)
(* points to exactly the lists that the handle has not freed and calls no    *)
(* function that is not set, and the handle's flags are libcurl's options.   *)
THEOREM HandleAgrees == HandleSpec => []LibcurlAgrees
<1>1. HandleInv => LibcurlAgrees
  BY DEF HandleInv
<1> QED BY <1>1, HandleInitInv, HandleStepInv, PTL DEF HandleSpec

-------------------------------------------------------------------------------
(* Where pull_part finds the first tab.                                      *)
TabIndex(str) ==
  LET I == {i \in 1..Len(str) : str[i] = TabChar} IN IF I # {} THEN Min(I) ELSE 0

LEMMA PullPartAtTab ==
  ASSUME NEW str
  PROVE  pull_part(str) = [part |-> trim(SubSeq(str, 1, TabIndex(str) - 1)),
                           rest |-> SubSeq(str, TabIndex(str) + 1, Len(str))]
<1>1. SelectInSeq(str, LAMBDA c : c = TabChar) = TabIndex(str)
  BY DEF SelectInSeq, TabIndex
<1> QED BY ONLY <1>1, Zenon DEF pull_part

LEMMA ConcatElements ==
  ASSUME NEW s \in Seq(Int), NEW t \in Seq(Int)
  PROVE  /\ s \o t \in Seq(Int) /\ Len(s \o t) = Len(s) + Len(t)
         /\ \A i \in 1..Len(s) : (s \o t)[i] = s[i]
         /\ \A i \in 1..Len(t) : (s \o t)[Len(s) + i] = t[i]
<1> DEFINE st == s \o t
           n == Len(s)
           m == Len(t)
<1>1. /\ st \in Seq(Int) /\ Len(st) = n + m
      /\ \A i \in 1..n + m : st[i] = IF i <= n THEN s[i] ELSE t[i - n]
  BY ConcatProperties
<1>2. n \in Nat /\ m \in Nat
  BY LenProperties
<1> HIDE DEF st, n, m
<1>3. ASSUME NEW i \in 1..n PROVE st[i] = s[i]
  <2>1. i \in 1..n + m /\ i <= n
    BY <1>2
  <2> QED BY <1>1, <2>1
<1>4. ASSUME NEW i \in 1..m PROVE st[n + i] = t[i]
  <2>1. n + i \in 1..n + m /\ ~(n + i <= n) /\ (n + i) - n = i
    BY <1>2
  <2> QED BY <1>1, <2>1
<1> QED BY ONLY <1>1, <1>3, <1>4, Zenon DEF st, n, m

(* The characters of a text, a tab and the rest behind it.                  *)
LEMMA TabbedElements ==
  ASSUME NEW a \in Seq(Int), NEW r \in Seq(Int)
  PROVE  LET line == (a \o <<TabChar>>) \o r IN
           /\ line \in Seq(Int) /\ Len(line) = Len(a) + 1 + Len(r)
           /\ \A i \in 1..Len(a) : line[i] = a[i]
           /\ line[Len(a) + 1] = TabChar
           /\ \A i \in 1..Len(r) : line[Len(a) + 1 + i] = r[i]
<1> DEFINE t == <<TabChar>>
           at == a \o t
           line == at \o r
           n == Len(a)
           m == Len(r)
<1>1. t \in Seq(Int) /\ Len(t) = 1 /\ t[1] = TabChar
  BY DEF TabChar
<1> HIDE DEF t
<1>2. /\ at \in Seq(Int) /\ Len(at) = n + Len(t) /\ \A i \in 1..n : at[i] = a[i]
      /\ \A i \in 1..Len(t) : at[n + i] = t[i]
  BY <1>1, ConcatElements
<1> HIDE DEF at
<1>3. /\ line \in Seq(Int) /\ Len(line) = Len(at) + m /\ \A i \in 1..Len(at) : line[i] = at[i]
      /\ \A i \in 1..m : line[Len(at) + i] = r[i]
  BY <1>2, ConcatElements
<1>4. n \in Nat /\ m \in Nat
  BY LenProperties
<1> HIDE DEF line, n, m
<1>5. Len(at) = n + 1 /\ at[n + 1] = TabChar
  BY <1>1, <1>2
<1>6. \A i \in 1..n : i \in 1..n + 1
  BY <1>4
<1>7. n + 1 \in 1..n + 1
  BY <1>4
<1>8. /\ Len(line) = n + 1 + m /\ \A i \in 1..n + 1 : line[i] = at[i]
      /\ \A i \in 1..m : line[n + 1 + i] = r[i]
  BY <1>3, <1>5
<1>9. \A i \in 1..n : line[i] = a[i]
  BY <1>2, <1>6, <1>8
<1>10. line[n + 1] = TabChar
  BY <1>5, <1>7, <1>8
<1> QED BY ONLY <1>3, <1>8, <1>9, <1>10, Zenon DEF line, at, t, n, m

(* A first tab behind a text without one is where the text ends.            *)
LEMMA FirstTab ==
  ASSUME NEW a \in Seq(Int), NEW r \in Seq(Int), \A i \in 1..Len(a) : a[i] # TabChar
  PROVE  TabIndex((a \o <<TabChar>>) \o r) = Len(a) + 1
<1> DEFINE line == (a \o <<TabChar>>) \o r
           n == Len(a)
           I == {i \in 1..Len(line) : line[i] = TabChar}
<1>1. /\ Len(line) = n + 1 + Len(r) /\ line[n + 1] = TabChar
      /\ \A i \in 1..n : line[i] = a[i] /\ a[i] # TabChar
  BY TabbedElements
<1>2. n \in Nat /\ Len(r) \in Nat
  BY LenProperties
<1>3. TabIndex(line) = IF I # {} THEN Min(I) ELSE 0
  BY DEF TabIndex
<1> HIDE DEF line, n
<1>4. n + 1 \in I
  BY <1>1, <1>2
<1>5. ASSUME NEW i \in I PROVE i \in Int /\ n + 1 <= i
  <2>1. i \in Int /\ 1 <= i /\ line[i] = TabChar
    OBVIOUS
  <2>2. i \notin 1..n
    BY <1>1, <2>1
  <2> QED BY <1>2, <2>1, <2>2
<1> HIDE DEF I
<1>6. \A x \in I : (\A y \in I : x <= y) => x = n + 1
  BY <1>2, <1>4, <1>5
<1>7. Min(I) = n + 1
  BY <1>4, <1>5, <1>6 DEF Min
<1> QED BY <1>3, <1>4, <1>7 DEF line, n

(* pull_part takes off the text before the first tab and leaves the rest.   *)
LEMMA PullPart ==
  ASSUME NEW a \in Seq(Int), NEW r \in Seq(Int), \A i \in 1..Len(a) : a[i] # TabChar
  PROVE  pull_part((a \o <<TabChar>>) \o r) = [part |-> trim(a), rest |-> r]
<1> DEFINE line == (a \o <<TabChar>>) \o r
           n == Len(a)
           m == Len(r)
<1>1. /\ line \in Seq(Int) /\ Len(line) = n + 1 + m
      /\ \A i \in 1..n : line[i] = a[i]
      /\ \A i \in 1..m : line[n + 1 + i] = r[i]
  BY TabbedElements
<1>2. n \in Nat /\ m \in Nat
  BY LenProperties
<1>3. TabIndex(line) = n + 1
  BY FirstTab
<1> HIDE DEF line, n, m
<1>4. \A i \in 1..Len(line) : line[i] \in Int
  BY <1>1, ElementOfSeq
<1>5. SubSeq(line, 1, n) = a
  <2> DEFINE part == SubSeq(line, 1, n)
  <2>1. /\ part \in Seq(Int)
        /\ Len(part) = IF 1 <= n THEN n - 1 + 1 ELSE 0
        /\ \A i \in 1..n - 1 + 1 : part[i] = line[1 + i - 1]
    <3>1. 1 \in Int /\ n \in Int /\ \A i \in 1..n : line[i] \in Int
      BY <1>1, <1>2, <1>4
    <3> QED BY <3>1, SubSeqProperties
  <2> HIDE DEF part
  <2>2. n - 1 + 1 = n /\ \A i \in 1..n : 1 + i - 1 = i
    BY <1>2
  <2>3. Len(part) = n
    BY <2>1, <2>2, <1>2
  <2>4. \A i \in 1..n : part[i] = line[i]
    BY <2>1, <2>2
  <2>5. Len(part) = Len(a) /\ \A i \in 1..Len(part) : part[i] = a[i]
    BY <1>1, <2>3, <2>4 DEF n
  <2>6. part = a
    BY <2>1, <2>5, SeqEqual
  <2> QED BY <2>6 DEF part
<1>6. SubSeq(line, n + 2, Len(line)) = r
  <2> DEFINE rest == SubSeq(line, n + 2, Len(line))
  <2>1. /\ rest \in Seq(Int)
        /\ Len(rest) = IF n + 2 <= Len(line) THEN Len(line) - (n + 2) + 1 ELSE 0
        /\ \A i \in 1..Len(line) - (n + 2) + 1 : rest[i] = line[n + 2 + i - 1]
    <3>1. n + 2 \in Int /\ Len(line) \in Int /\ \A i \in n + 2..Len(line) : line[i] \in Int
      BY <1>1, <1>2, <1>4
    <3> QED BY <3>1, SubSeqProperties
  <2> HIDE DEF rest
  <2>2. Len(line) - (n + 2) + 1 = m /\ \A i \in 1..m : n + 2 + i - 1 = n + 1 + i
    BY <1>1, <1>2
  <2>3. Len(rest) = m
    BY <2>1, <2>2, <1>1, <1>2
  <2>4. \A i \in 1..m : rest[i] = line[n + 1 + i]
    BY <2>1, <2>2
  <2>5. Len(rest) = Len(r) /\ \A i \in 1..Len(rest) : rest[i] = r[i]
    BY <1>1, <2>3, <2>4 DEF m
  <2>6. rest = r
    BY <2>1, <2>5, SeqEqual
  <2> QED BY <2>6 DEF rest
<1>7. (n + 1) - 1 = n /\ (n + 1) + 1 = n + 2
  BY <1>2
<1>8. pull_part(line) = [part |-> trim(SubSeq(line, 1, (n + 1) - 1)),
                         rest |-> SubSeq(line, (n + 1) + 1, Len(line))]
  <2>1. pull_part(line) = [part |-> trim(SubSeq(line, 1, TabIndex(line) - 1)),
                           rest |-> SubSeq(line, TabIndex(line) + 1, Len(line))]
    BY PullPartAtTab, Zenon
  <2> QED BY <2>1, <1>3
<1> QED BY <1>5, <1>6, <1>7, <1>8 DEF line

(* A word of one character has no blanks around it.                         *)
LEMMA TrimWord ==
  ASSUME NEW w \in Int, w \notin Blanks
  PROVE  trim(<<w>>) = <<w>>
<1>1. <<w>> \in Seq(Int) /\ Len(<<w>>) = 1 /\ <<w>>[1] = w
  OBVIOUS
<1>2. {i \in 1..Len(<<w>>) : <<w>>[i] \notin Blanks} = {1}
  BY <1>1
<1>3. Min({1}) = 1 /\ Max({1}) = 1
  BY DEF Min, Max
<1>4. SelectInSeq(<<w>>, LAMBDA c : c \notin Blanks) = 1
  BY <1>2, <1>3 DEF SelectInSeq
<1>5. SelectLastInSeq(<<w>>, LAMBDA c : c \notin Blanks) = 1
  BY <1>2, <1>3 DEF SelectLastInSeq
<1>6. SubSeq(<<w>>, 1, 1) = <<w>>
  BY <1>1, SubSeqFull
<1>7. 1 # 0
  OBVIOUS
<1> QED BY ONLY <1>4, <1>5, <1>6, <1>7, Zenon DEF trim

(* Texts and how they are put together, told apart from sequences so that   *)
(* only these laws are used.                                                *)
Text == Seq(Int)
Glue(x, y) == x \o y
Word1(w) == <<w>>
Tab == <<TabChar>>

LEMMA GlueText == ASSUME NEW x \in Text, NEW y \in Text PROVE Glue(x, y) \in Text
BY ConcatProperties, Zenon DEF Text, Glue

LEMMA GlueAssoc ==
  ASSUME NEW x \in Text, NEW y \in Text, NEW z \in Text
  PROVE  Glue(Glue(x, y), z) = Glue(x, Glue(y, z))
<1>1. x \in Seq(Int) /\ y \in Seq(Int) /\ z \in Seq(Int)
  BY DEF Text
<1>2. (x \o y) \o z = x \o (y \o z)
  BY ONLY <1>1, ConcatAssociative, SMTT(60)
<1> QED BY ONLY <1>2, Zenon DEF Glue

LEMMA WordText ==
  ASSUME NEW w \in Int
  PROVE  Word1(w) \in Text
BY DEF Word1, Text

LEMMA TabText == Tab \in Text /\ Tab = Word1(TabChar) /\ TabChar \in Int
BY DEF Tab, Word1, Text, TabChar

LEMMA GlueWord ==
  ASSUME NEW x \in Text, NEW w \in Int
  PROVE  Glue(x, Word1(w)) = Append(x, w)
BY AppendIsConcat, Zenon DEF Text, Glue, Word1

LEMMA AppendedWord ==
  ASSUME NEW s \in Seq(Int), NEW e \in Int, NEW t \in Seq(Int), Len(t) = Len(s) + 1,
         \A i \in 1..Len(s) : t[i] = s[i], t[Len(s) + 1] = e
  PROVE  Append(s, e) = t
<1> DEFINE a == Append(s, e)
<1>1. /\ a \in Seq(Int) /\ Len(a) = Len(s) + 1 /\ a[Len(s) + 1] = e
      /\ \A i \in 1..Len(s) : a[i] = s[i]
  BY AppendProperties
<1> HIDE DEF a
<1>2. \A i \in 1..Len(s) + 1 : a[i] = t[i]
  <2>1. \A i \in 1..Len(s) + 1 : i \in 1..Len(s) \/ i = Len(s) + 1
    BY LenProperties
  <2> QED BY <1>1, <2>1
<1>3. a = t
  BY <1>1, <1>2, SeqEqual
<1> QED BY <1>3 DEF a

LEMMA AppendedWords ==
  ASSUME NEW x \in Int, NEW y \in Int, NEW z \in Int
  PROVE  Append(<<x>>, y) = <<x, y>> /\ Append(<<x, y>>, z) = <<x, y, z>>
<1> DEFINE one == <<x>>
           two == <<x, y>>
           three == <<x, y, z>>
<1>1. one \in Seq(Int) /\ Len(one) = 1 /\ one[1] = x
  OBVIOUS
<1>2. two \in Seq(Int) /\ Len(two) = 2 /\ two[1] = x /\ two[2] = y
  OBVIOUS
<1>3. three \in Seq(Int) /\ Len(three) = 3 /\ three[1] = x /\ three[2] = y /\ three[3] = z
  OBVIOUS
<1> HIDE DEF one, two, three
<1>4. Append(one, y) = two
  <2>1. /\ Len(two) = Len(one) + 1 /\ two[Len(one) + 1] = y
        /\ \A i \in 1..Len(one) : two[i] = one[i]
    BY <1>1, <1>2
  <2> QED BY <1>1, <1>2, <2>1, AppendedWord
<1>5. Append(two, z) = three
  <2>1. /\ Len(three) = Len(two) + 1 /\ three[Len(two) + 1] = z
        /\ \A i \in 1..Len(two) : three[i] = two[i]
    BY <1>2, <1>3
  <2> QED BY <1>2, <1>3, <2>1, AppendedWord
<1> QED BY ONLY <1>4, <1>5, Zenon DEF one, two, three

LEMMA WordsOfLine ==
  ASSUME NEW w \in Int
  PROVE  /\ <<w, TabChar>> = Glue(Word1(w), Tab)
         /\ <<TabChar, w, TabChar>> = Glue(Tab, Glue(Word1(w), Tab))
<1>1. /\ Append(<<w>>, TabChar) = <<w, TabChar>>
      /\ Append(<<TabChar>>, w) = <<TabChar, w>>
      /\ Append(<<TabChar, w>>, TabChar) = <<TabChar, w, TabChar>>
  BY AppendedWords, TabText
<1>2. Glue(Word1(w), Tab) = <<w, TabChar>>
  <2>1. Glue(Word1(w), Word1(TabChar)) = Append(Word1(w), TabChar)
    BY WordText, TabText, GlueWord
  <2> QED BY ONLY <1>1, <2>1, TabText, Zenon DEF Word1
<1>3. Glue(Tab, Word1(w)) = <<TabChar, w>>
  <2>1. Glue(Tab, Word1(w)) = Append(Tab, w)
    BY TabText, GlueWord
  <2> QED BY ONLY <1>1, <2>1, Zenon DEF Tab
<1>4. Glue(Glue(Tab, Word1(w)), Tab) = <<TabChar, w, TabChar>>
  <2>1. Glue(Tab, Word1(w)) \in Text
    BY WordText, TabText, GlueText
  <2>2. Glue(Glue(Tab, Word1(w)), Word1(TabChar)) = Append(Glue(Tab, Word1(w)), TabChar)
    BY <2>1, TabText, GlueWord
  <2> QED BY ONLY <1>1, <1>3, <2>2, TabText, Zenon
<1>5. Glue(Glue(Tab, Word1(w)), Tab) = Glue(Tab, Glue(Word1(w), Tab))
  BY WordText, TabText, GlueAssoc
<1> QED BY ONLY <1>2, <1>4, <1>5, Zenon

(* A part of a line and the rest behind its tab.                            *)
Joined(a, r) == Glue(Glue(a, Tab), r)

LEMMA JoinedText ==
  ASSUME NEW a \in Text, NEW r \in Text
  PROVE  Joined(a, r) \in Text /\ Joined(a, r) = Glue(a, Glue(Tab, r))
BY TabText, GlueText, GlueAssoc DEF Joined

LEMMA AppendedPart ==
  ASSUME NEW l \in Text, NEW a \in Text, NEW r \in Text
  PROVE  Glue(Glue(Glue(l, a), Tab), r) = Glue(l, Joined(a, r))
<1>1. Glue(l, a) \in Text /\ Glue(Tab, r) \in Text
  BY TabText, GlueText
<1>2. Glue(Glue(Glue(l, a), Tab), r) = Glue(Glue(l, a), Glue(Tab, r))
  BY <1>1, TabText, GlueAssoc
<1>3. Glue(Glue(l, a), Glue(Tab, r)) = Glue(l, Glue(a, Glue(Tab, r)))
  BY <1>1, GlueAssoc
<1> QED BY <1>2, <1>3, JoinedText

(* The line of a cookie, taken apart from the left.                         *)
LEMMA TabbedWord ==
  ASSUME NEW a \in Text, NEW w \in Int, NEW r \in Text
  PROVE  /\ Glue(Glue(a, <<TabChar, w, TabChar>>), r) = Joined(a, Joined(Word1(w), r))
         /\ Glue(a, <<TabChar, w, TabChar>>) \in Text
<1> DEFINE W == Word1(w)
           WT == Glue(W, Tab)
<1>1. W \in Text /\ Tab \in Text
  BY WordText, TabText
<1> HIDE DEF W
<1>2. WT \in Text
  BY <1>1, GlueText
<1>3. <<TabChar, w, TabChar>> = Glue(Tab, WT)
  BY WordsOfLine, Zenon DEF W
<1> HIDE DEF WT
<1>4. Glue(Tab, WT) \in Text /\ Glue(a, Tab) \in Text
  BY <1>1, <1>2, GlueText
<1>5. Glue(a, Glue(Tab, WT)) = Glue(Glue(a, Tab), WT) /\ Glue(a, Glue(Tab, WT)) \in Text
  BY <1>1, <1>2, <1>4, GlueAssoc, GlueText
<1>6. Glue(Glue(Glue(a, Tab), WT), r) = Glue(Glue(a, Tab), Glue(WT, r))
  BY <1>2, <1>4, GlueAssoc
<1> QED BY ONLY <1>3, <1>5, <1>6, Zenon DEF Joined, W, WT

LineText(d, x, p, y, z, n, v) ==
  d \o <<TabChar, x, TabChar>> \o p \o <<TabChar, y, TabChar>>
    \o <<z, TabChar>> \o n \o <<TabChar>> \o v

JoinedLine(d, x, p, y, z, n, v) ==
  Joined(d, Joined(Word1(x), Joined(p, Joined(Word1(y), Joined(Word1(z), Joined(n, v))))))

LEMMA LineOf ==
  ASSUME NEW d \in Text, NEW x \in Int, NEW p \in Text, NEW y \in Int,
         NEW z \in Int, NEW n \in Text, NEW v \in Text
  PROVE  LineText(d, x, p, y, z, n, v) = JoinedLine(d, x, p, y, z, n, v)
<1> DEFINE r5 == Joined(n, v)
           r4 == Joined(Word1(z), r5)
           r3 == Joined(Word1(y), r4)
           r2 == Joined(p, r3)
           t1 == <<TabChar, x, TabChar>>
           t2 == <<TabChar, y, TabChar>>
           t3 == <<z, TabChar>>
           q1 == Glue(d, t1)
           q2 == Glue(q1, p)
           q3 == Glue(q2, t2)
           q4 == Glue(q3, t3)
<1>1. /\ Word1(x) \in Text /\ Word1(y) \in Text /\ Word1(z) \in Text /\ Tab \in Text
      /\ t3 = Glue(Word1(z), Tab)
  BY WordText, TabText, WordsOfLine
<1>2. r5 \in Text
  BY JoinedText
<1> HIDE DEF r5
<1>3. r4 \in Text
  BY <1>1, <1>2, JoinedText
<1> HIDE DEF r4
<1>4. r3 \in Text
  BY <1>1, <1>3, JoinedText
<1> HIDE DEF r3
<1>5. r2 \in Text
  BY <1>1, <1>4, JoinedText
<1> HIDE DEF r2
<1>6. q1 \in Text /\ Glue(q1, r2) = Joined(d, Joined(Word1(x), r2))
  BY <1>5, TabbedWord
<1> HIDE DEF t1, q1
<1>7. q2 \in Text
  BY <1>6, GlueText
<1>8. Glue(Glue(q2, Tab), r3) = Glue(q1, r2)
  BY <1>4, <1>6, AppendedPart DEF r2
<1> HIDE DEF q2
<1>9. q3 \in Text /\ Glue(q3, r4) = Joined(q2, r3)
  BY <1>3, <1>7, TabbedWord DEF r3
<1> HIDE DEF t2, q3
<1>10. t3 \in Text
  BY <1>1, GlueText
<1> HIDE DEF t3
<1>11. q4 \in Text /\ Glue(q4, r5) = Glue(q3, Glue(t3, r5))
  BY <1>2, <1>9, <1>10, GlueText, GlueAssoc
<1>12. Glue(t3, r5) = r4
  BY ONLY <1>1, Zenon DEF r4, Joined
<1> HIDE DEF q4
<1>13. Glue(Glue(Glue(q4, n), Tab), v) = Glue(q4, r5)
  BY <1>11, AppendedPart DEF r5
<1>14. Glue(Glue(Glue(q4, n), Tab), v) = Joined(d, Joined(Word1(x), r2))
  BY ONLY <1>6, <1>8, <1>9, <1>11, <1>12, <1>13, Zenon DEF Joined
<1>15. LineText(d, x, p, y, z, n, v) = Glue(Glue(Glue(q4, n), Tab), v)
  BY ONLY Zenon DEF LineText, Glue, Tab, q1, q2, q3, q4, t1, t2, t3
<1> QED BY ONLY <1>14, <1>15, Zenon DEF JoinedLine, r2, r3, r4, r5

LEMMA PullJoined ==
  ASSUME NEW a \in Text, NEW r \in Text, \A i \in 1..Len(a) : a[i] # TabChar
  PROVE  /\ Joined(a, r) \in Text
         /\ pull_part(Joined(a, r)) = [part |-> trim(a), rest |-> r]
<1>1. pull_part((a \o <<TabChar>>) \o r) = [part |-> trim(a), rest |-> r]
  BY PullPart DEF Text
<1> QED BY ONLY <1>1, JoinedText, Zenon DEF Joined, Glue, Tab

(* Reading the line of a cookie gives the cookie back, where the fields have *)
(* no blanks around them, no tab before the value, and the time is a whole   *)
(* second (cookie.h:13-39, 71-81).                                           *)
THEOREM CookieRoundTrip ==
  ASSUME NEW c \in CookieValues, Writable(c)
  PROVE  CookieOf(CookieLine(c)) = c
<1>1. /\ c.domain \in Text /\ c.path \in Text /\ c.name \in Text /\ c.value \in Text
      /\ c.include_subdomains \in BOOLEAN /\ c.secure \in BOOLEAN /\ c.expires \in Int
  <2>1. \A s : s \in Seq(Nat) => s \in Text
    BY DEF Text
  <2> QED BY <2>1 DEF CookieValues
<1>2. \A b \in BOOLEAN :
        /\ (IF b THEN TRUEWord ELSE FALSEWord) \in Int \ Blanks
        /\ ((IF b THEN TRUEWord ELSE FALSEWord) = TRUEWord) = b
  BY DEF TRUEWord, FALSEWord, Blanks, TabChar, SpaceChar
<1>3. PICK w1 \in Int \ Blanks :
         /\ w1 = IF c.include_subdomains THEN TRUEWord ELSE FALSEWord
         /\ (w1 = TRUEWord) = c.include_subdomains
  BY <1>1, <1>2
<1>4. PICK w2 \in Int \ Blanks :
         w2 = (IF c.secure THEN TRUEWord ELSE FALSEWord) /\ (w2 = TRUEWord) = c.secure
  BY <1>1, <1>2
<1>5. PICK w3 \in Int \ Blanks :
        w3 = Written(ToTime(c.expires)) /\ FromTime(stoull(w3)) = c.expires
  <2>1. c.expires % 2 = 0
    BY DEF Writable
  <2>2. PICK k \in Int : c.expires = 2 * k
    BY <1>1, <2>1
  <2>3. ToTime(c.expires) = k
    BY <2>2 DEF ToTime
  <2>4. Written(k) \in Int \ Blanks /\ FromTime(stoull(Written(k))) = c.expires
    BY <2>2 DEF Written, stoull, FromTime, Numeral, Blanks, TabChar, SpaceChar
  <2> QED BY <2>3, <2>4
<1> DEFINE r5 == Joined(c.name, c.value)
           r4 == Joined(Word1(w3), r5)
           r3 == Joined(Word1(w2), r4)
           r2 == Joined(c.path, r3)
           r1 == Joined(Word1(w1), r2)
           r0 == Joined(c.domain, r1)
<1>6. /\ \A i \in 1..Len(c.domain) : c.domain[i] # TabChar
      /\ \A i \in 1..Len(c.path) : c.path[i] # TabChar
      /\ \A i \in 1..Len(c.name) : c.name[i] # TabChar
      /\ trim(c.domain) = c.domain /\ trim(c.path) = c.path
      /\ trim(c.name) = c.name /\ trim(c.value) = c.value
  BY DEF Writable
<1>7. CookieLine(c) = r0
  <2>1. CookieLine(c) = LineText(c.domain, w1, c.path, w2, w3, c.name, c.value)
    BY ONLY <1>3, <1>4, <1>5, Zenon DEF CookieLine, LineText
  <2>2. LineText(c.domain, w1, c.path, w2, w3, c.name, c.value)
          = JoinedLine(c.domain, w1, c.path, w2, w3, c.name, c.value)
    <3>1. PICK d \in Text : d = c.domain
      BY <1>1
    <3>2. PICK p \in Text : p = c.path
      BY <1>1
    <3>3. PICK n \in Text : n = c.name
      BY <1>1
    <3>4. PICK v \in Text : v = c.value
      BY <1>1
    <3>5. LineText(d, w1, p, w2, w3, n, v) = JoinedLine(d, w1, p, w2, w3, n, v)
      BY LineOf
    <3> QED BY ONLY <3>1, <3>2, <3>3, <3>4, <3>5, Zenon
  <2> QED BY ONLY <2>1, <2>2, Zenon DEF JoinedLine
<1>8. /\ Word1(w1) \in Text /\ Word1(w2) \in Text /\ Word1(w3) \in Text
      /\ \A w \in {w1, w2, w3} : \A i \in 1..Len(Word1(w)) : Word1(w)[i] # TabChar
      /\ trim(Word1(w1)) = Word1(w1) /\ trim(Word1(w2)) = Word1(w2) /\ trim(Word1(w3)) = Word1(w3)
  <2>1. \A w \in Int \ Blanks : Word1(w) \in Text /\ \A i \in 1..Len(Word1(w)) : Word1(w)[i] # TabChar
    BY DEF Blanks, Word1, Text
  <2>2. \A w \in Int \ Blanks : trim(Word1(w)) = Word1(w)
    BY TrimWord DEF Word1
  <2> QED BY <2>1, <2>2
<1>9. r5 \in Text /\ pull_part(r5) = [part |-> c.name, rest |-> c.value]
  BY <1>1, <1>6, PullJoined
<1> HIDE DEF r5
<1>10. r4 \in Text /\ pull_part(r4) = [part |-> Word1(w3), rest |-> r5]
  BY <1>8, <1>9, PullJoined
<1> HIDE DEF r4
<1>11. r3 \in Text /\ pull_part(r3) = [part |-> Word1(w2), rest |-> r4]
  BY <1>8, <1>10, PullJoined
<1> HIDE DEF r3
<1>12. r2 \in Text /\ pull_part(r2) = [part |-> c.path, rest |-> r3]
  BY <1>1, <1>6, <1>11, PullJoined
<1> HIDE DEF r2
<1>13. r1 \in Text /\ pull_part(r1) = [part |-> Word1(w1), rest |-> r2]
  BY <1>8, <1>12, PullJoined
<1> HIDE DEF r1
<1>14. pull_part(r0) = [part |-> c.domain, rest |-> r1]
  BY <1>1, <1>6, <1>13, PullJoined
<1> HIDE DEF r0
<1>15. CookieOf(r0) =
         [domain |-> c.domain, include_subdomains |-> Word1(w1) = <<TRUEWord>>,
          path |-> c.path, secure |-> Word1(w2) = <<TRUEWord>>,
          expires |-> FromTime(stoull(Word1(w3)[1])), name |-> c.name, value |-> trim(c.value)]
  BY <1>9, <1>10, <1>11, <1>12, <1>13, <1>14 DEF CookieOf
<1>16. /\ (Word1(w1) = <<TRUEWord>>) = c.include_subdomains
       /\ (Word1(w2) = <<TRUEWord>>) = c.secure
       /\ FromTime(stoull(Word1(w3)[1])) = c.expires
  BY <1>1, <1>3, <1>4, <1>5 DEF Word1
<1>17. c = [domain |-> c.domain, include_subdomains |-> c.include_subdomains,
            path |-> c.path, secure |-> c.secure,
            expires |-> c.expires, name |-> c.name, value |-> c.value]
  BY DEF CookieValues
<1> QED BY <1>6, <1>7, <1>15, <1>16, <1>17

-------------------------------------------------------------------------------
Phases == {"new", "sending", "headers", "body", "done", "failed"}

RequestTypeOK ==
  /\ request \in [body : {"no_body", "string", "stream"}, store : {"ignore_body", "inline_body"},
                  sync : BOOLEAN, cookies : Seq(Cookies)]
  /\ pos \in 0..BodySize
  /\ phase \in Phases
  /\ DOMAIN response = DOMAIN NoResponse
  /\ server \in [responses : Nat, fields : Seq(Nat \X Nat), body : 0..MaxBody, early : BOOLEAN,
                 lines : 0..MaxLines, reasons : BOOLEAN]

(* Lines and the cookies they are written for.                               *)
Listings == {[line |-> CookieLine(c), is |-> c] : c \in CookieValues}

(* libcurl knows of the body what prepare_handle tells it, and lists cookies.*)
CurlFollowsRequest ==
  /\ DOMAIN curl = {"upload", "size", "jar"} /\ curl.jar \in Seq(Listings)
  /\ curl.upload = (request.body # "no_body")
  /\ curl.size = IF request.body = "string" THEN BodySize ELSE -1

(* Nothing is sent without a body, and a response that does not come early   *)
(* comes when all of it is sent.                                             *)
BodyIsSent ==
  /\ request.body = "no_body" \/ phase = "new" => pos = 0
  /\ request.body # "no_body" /\ phase \in {"headers", "body", "done"} /\ ~server.early => pos = BodySize

(* Headers and body of the response are those of the server's latest, which  *)
(* has a body only once its headers have ended.                              *)
ResponseFollowsServer ==
  /\ server.reasons => response.headers = server.fields /\ response.status_message = server.responses
  /\ phase \notin {"body", "done", "failed"} => server.body = 0
  /\ response.body = IF request.store = "ignore_body" THEN 0 ELSE server.body

CookiesAreRead ==
  response.cookies = IF phase = "done" /\ request.sync THEN ResponseCookies(curl.jar) ELSE <<>>

RequestInv ==
  RequestTypeOK /\ CurlFollowsRequest /\ BodyIsSent /\ ResponseFollowsServer /\ CookiesAreRead

(* A body has been read to its end when libcurl takes it for sent.           *)
LEMMA SentWhole ==
  ASSUME RequestInv, SentAll
  PROVE  request.body # "no_body" => pos = BodySize
<1> SUFFICES ASSUME request.body # "no_body" PROVE pos = BodySize
  OBVIOUS
<1>1. curl.upload /\ curl.size = IF request.body = "string" THEN BodySize ELSE -1
  BY DEF RequestInv, CurlFollowsRequest
<1>2. pos \in 0..BodySize /\ BodySize \in Nat
  BY RequestAssumption DEF RequestInv, RequestTypeOK
<1>3. CASE request.body = "string"
  <2>1. curl.size = BodySize /\ BodySize # -1
    <3>1. curl.size = BodySize
      BY <1>1, <1>3
    <3> QED BY <3>1, <1>2
  <2> QED BY <2>1, <1>1, Zenon DEF SentAll
<1>4. CASE request.body # "string"
  <2>1. ReadBytes(1) = 0
    BY <1>1, <1>4 DEF SentAll
  <2> QED BY <2>1, <1>2 DEF ReadBytes
<1> QED BY <1>3, <1>4

(* What the conjuncts say is what ResponseIsTheLast promises at the end.    *)
LEMMA RequestInvImplies == RequestInv => ResponseIsTheLast
<1> SUFFICES ASSUME RequestInv PROVE ResponseIsTheLast
  OBVIOUS
<1>1. SentAll => pos = WholeBody
  BY SentWhole DEF RequestInv, BodyIsSent, WholeBody
<1>2. ASSUME phase = "done" PROVE server.early \/ pos = WholeBody
  BY <1>2 DEF RequestInv, BodyIsSent, WholeBody
<1>3. ASSUME phase = "done", \A i \in 1..Len(curl.jar) : Writable(curl.jar[i].is)
      PROVE  response.cookies = IF request.sync THEN [i \in 1..Len(curl.jar) |-> curl.jar[i].is]
                                ELSE <<>>
  <2> DEFINE jar == curl.jar
             n == Len(jar)
             read == ResponseCookies(jar)
  <2>1. jar \in Seq(Listings)
    BY DEF RequestInv, CurlFollowsRequest
  <2>2. response.cookies = IF request.sync THEN read ELSE <<>>
    BY <1>3 DEF RequestInv, CookiesAreRead
  <2>3. read = [i \in 1..n |-> CookieOf(jar[i].line)]
    BY DEF ResponseCookies
  <2>4. \A i \in 1..n : Writable(jar[i].is)
    BY <1>3
  <2> HIDE DEF jar, n, read
  <2>5. ASSUME NEW i \in 1..n PROVE CookieOf(jar[i].line) = jar[i].is
    <3>1. jar[i] \in Listings
      BY <2>1, ElementOfSeq DEF n
    <3>2. PICK c \in CookieValues : jar[i] = [line |-> CookieLine(c), is |-> c]
      BY <3>1 DEF Listings
    <3>3. jar[i].line = CookieLine(c) /\ jar[i].is = c
      BY <3>2
    <3>4. Writable(c)
      BY <3>3, <2>4
    <3> QED BY <3>3, <3>4, CookieRoundTrip
  <2>6. read = [i \in 1..n |-> jar[i].is]
    BY <2>3, <2>5
  <2> QED BY <2>2, <2>6 DEF jar, n
<1> QED BY <1>1, <1>2, <1>3 DEF ResponseIsTheLast, ResponseFollowsServer, RequestInv

LEMMA RequestInitInv == RequestInit => RequestInv
<1> SUFFICES ASSUME RequestInit PROVE RequestInv
  OBVIOUS
<1> USE DEF RequestInit, NoResponse
<1>1. RequestTypeOK
  BY RequestAssumption DEF RequestTypeOK, Phases
<1>2. CurlFollowsRequest
  <2>1. curl.upload = FALSE /\ curl.size = -1 /\ curl.jar = <<>> /\ DOMAIN curl = {"upload", "size", "jar"}
    OBVIOUS
  <2>2. request.body = "no_body"
    OBVIOUS
  <2>3. <<>> \in Seq(Listings)
    OBVIOUS
  <2> QED BY <2>1, <2>2, <2>3 DEF CurlFollowsRequest
<1> QED BY <1>1, <1>2 DEF RequestInv, BodyIsSent, ResponseFollowsServer, CookiesAreRead

(* What libcurl lists for a cookie.                                          *)
LEMMA ListedIs ==
  ASSUME NEW c \in CookieValues, NEW h \in BOOLEAN
  PROVE  Listed(c, h) \in Listings
<1> DEFINE bare == IF c.domain # <<>> /\ c.domain[1] = DotChar THEN Tail(c.domain) ELSE c.domain
           x == IF h THEN <<HttpOnlyWord>> ELSE <<>>
           y == IF c.include_subdomains THEN <<DotChar>> ELSE <<>>
           d == x \o y \o bare
           m == Marked(c, h)
<1>1. c.domain \in Seq(Nat)
  BY DEF CookieValues
<1>2. bare \in Seq(Nat)
  BY <1>1
<1>3. x \in Seq(Nat) /\ y \in Seq(Nat)
  BY DEF HttpOnlyWord, DotChar
<1> HIDE DEF bare, x, y
<1>4. d \in Seq(Nat)
  <2>1. x \o y \in Seq(Nat)
    BY <1>3
  <2> QED BY <2>1, <1>2
<1>5. m = [c EXCEPT !.domain = d]
  BY DEF Marked, x, y, bare
<1> HIDE DEF d, m
<1>6. m \in CookieValues
  BY <1>4, <1>5 DEF CookieValues
<1> QED BY <1>6 DEF Listed, Listings, m

LEMMA RemoveAtIs ==
  ASSUME NEW S, NEW s \in Seq(S), NEW i \in 1..Len(s)
  PROVE  RemoveAt(s, i) \in Seq(S)
<1>1. SubSeq(s, 1, i - 1) \in Seq(S) /\ SubSeq(s, i + 1, Len(s)) \in Seq(S)
  BY SubSeqProperties, ElementOfSeq
<1> QED BY <1>1, ConcatProperties DEF RemoveAt

(* libcurl's cookies change while the transfer is under way.                 *)
LEMMA NewJar ==
  ASSUME RequestInv, UNCHANGED <<request, pos, response, phase, server>>, phase # "done",
         NEW jar \in Seq(Listings), curl' = [curl EXCEPT !.jar = jar]
  PROVE  RequestInv'
<1>1. RequestTypeOK'
  BY DEF RequestInv, RequestTypeOK, NoResponse
<1>2. CurlFollowsRequest'
  <2>1. DOMAIN curl = {"upload", "size", "jar"}
    BY DEF RequestInv, CurlFollowsRequest
  <2>2. /\ DOMAIN curl' = {"upload", "size", "jar"} /\ curl'.jar = jar
        /\ curl'.upload = curl.upload /\ curl'.size = curl.size
    BY <2>1
  <2> QED BY <2>2 DEF RequestInv, CurlFollowsRequest
<1> QED BY <1>1, <1>2 DEF RequestInv, BodyIsSent, ResponseFollowsServer, CookiesAreRead

LEMMA RequestStepInv == RequestInv /\ [RequestNext]_requestVars => RequestInv'
<1> SUFFICES ASSUME RequestInv, [RequestNext]_requestVars PROVE RequestInv'
  OBVIOUS
<1> USE RequestAssumption DEF RequestInv
<1>1. ASSUME NEW b \in {"no_body", "string", "stream"}, NEW s \in {"ignore_body", "inline_body"},
             NEW y \in BOOLEAN, NEW c \in Cookies, Prepare(b, s, y, <<c>>)
      PROVE  RequestInv'
  <2>1. /\ phase = "new" /\ phase' = "sending" /\ UNCHANGED <<pos, response, server>>
        /\ request' = [body |-> b, store |-> s, sync |-> y, cookies |-> <<c>>]
    BY <1>1 DEF Prepare
  <2>2. RequestTypeOK'
    BY <2>1 DEF RequestTypeOK, Phases
  <2>3. CurlFollowsRequest'
    <3> DEFINE cs == <<c>>
               jar == [i \in 1..Len(cs) |-> Listed(cs[i], FALSE)]
    <3>1. jar \in Seq(Listings)
      <4>1. Listed(c, FALSE) \in Listings
        BY ListedIs
      <4> DEFINE one == 1
      <4>2. Len(cs) = one /\ one \in Nat /\ \A i \in 1..one : cs[i] = c
        OBVIOUS
      <4> HIDE DEF one, cs
      <4>3. jar \in [1..one -> Listings]
        BY <4>1, <4>2
      <4> HIDE DEF jar
      <4> QED BY <4>2, <4>3
    <3>2. curl' = [upload |-> b # "no_body", size |-> IF b = "string" THEN BodySize ELSE -1, jar |-> jar]
      BY <1>1 DEF Prepare
    <3> HIDE DEF jar
    <3>3. /\ DOMAIN curl' = {"upload", "size", "jar"} /\ curl'.jar = jar
          /\ curl'.upload = (b # "no_body") /\ curl'.size = IF b = "string" THEN BodySize ELSE -1
      BY <3>2
    <3> QED BY <3>1, <3>2, <3>3, <2>1 DEF CurlFollowsRequest
  <2>4. BodyIsSent'
    BY <2>1 DEF BodyIsSent
  <2>5. server.body = 0 /\ response.body = 0
    BY <2>1 DEF ResponseFollowsServer
  <2> QED BY <2>1, <2>2, <2>3, <2>4, <2>5 DEF ResponseFollowsServer, CookiesAreRead
<1>2. ASSUME NEW n \in 1..BodySize, SendsBody(n)
      PROVE  RequestInv'
  <2>1. /\ phase # "new" /\ curl.upload /\ pos' = pos + ReadBytes(n)
        /\ UNCHANGED <<request, curl, response, phase, server>>
    BY <1>2 DEF SendsBody
  <2>2. pos + ReadBytes(n) \in 0..BodySize /\ (pos = BodySize => pos + ReadBytes(n) = BodySize)
    BY DEF RequestTypeOK, ReadBytes
  <2>3. request.body # "no_body"
    BY <2>1 DEF CurlFollowsRequest
  <2> QED BY <2>1, <2>2, <2>3
          DEF RequestTypeOK, CurlFollowsRequest, BodyIsSent, ResponseFollowsServer, CookiesAreRead
<1>3. ASSUME NEW r \in BOOLEAN, ServerResponds(r)
      PROVE  RequestInv'
  <2>1. /\ phase = "sending" /\ phase' = "headers" /\ UNCHANGED <<request, curl, pos>>
        /\ server.lines < MaxLines
        /\ server' = [responses |-> server.responses + 1, fields |-> <<>>, body |-> 0, early |-> ~SentAll,
                      lines |-> server.lines + 1, reasons |-> server.reasons /\ r]
        /\ response' = StatusLine(response, r, server.responses + 1)
    BY <1>3 DEF ServerResponds
  <2>2. /\ DOMAIN response' = DOMAIN response /\ response'.body = response.body
        /\ response'.cookies = response.cookies
        /\ r => response'.headers = <<>> /\ response'.status_message = server.responses + 1
    <3>1. DOMAIN response = {"status_code", "status_message", "headers", "cookies", "body"}
      BY DEF RequestTypeOK, NoResponse
    <3>2. CASE r
      <4>1. response' = [response EXCEPT !.status_message = server.responses + 1, !.headers = <<>>]
        BY <2>1, <3>2 DEF StatusLine
      <4> QED BY <3>1, <3>2, <4>1
    <3>3. CASE ~r
      BY <2>1, <3>3 DEF StatusLine
    <3> QED BY <3>2, <3>3
  <2>3. RequestTypeOK'
    <3>1. server' \in [responses : Nat, fields : Seq(Nat \X Nat), body : 0..MaxBody, early : BOOLEAN,
                       lines : 0..MaxLines, reasons : BOOLEAN]
      BY <2>1 DEF RequestTypeOK
    <3> QED BY <2>1, <2>2, <3>1 DEF RequestTypeOK, Phases, NoResponse
  <2>4. BodyIsSent'
    <3>1. SentAll /\ request.body # "no_body" => pos = BodySize
      BY SentWhole
    <3>2. ~server'.early => SentAll
      BY <2>1
    <3> QED BY <2>1, <3>1, <3>2 DEF BodyIsSent
  <2>5. ResponseFollowsServer'
    <3>1. server.body = 0 /\ response.body = 0
      BY <2>1 DEF ResponseFollowsServer
    <3>2. server'.reasons => r
      BY <2>1
    <3> QED BY <2>1, <2>2, <3>1, <3>2 DEF ResponseFollowsServer
  <2> QED BY <2>1, <2>2, <2>3, <2>4, <2>5 DEF CurlFollowsRequest, CookiesAreRead
<1>4. CASE ServerField
  <2> DEFINE field == <<server.responses, Len(server.fields)>>
  <2>1. /\ phase \in {"headers", "body"} /\ server.lines < MaxLines
        /\ server' = [server EXCEPT !.fields = Append(@, field), !.lines = @ + 1]
        /\ response' = [response EXCEPT !.headers = Append(@, field)]
        /\ UNCHANGED <<request, curl, pos, phase>>
    BY <1>4 DEF ServerField
  <2>2. field \in Nat \X Nat /\ Append(server.fields, field) \in Seq(Nat \X Nat)
    BY AppendProperties DEF RequestTypeOK
  <2> HIDE DEF field
  <2>3. /\ server' \in [responses : Nat, fields : Seq(Nat \X Nat), body : 0..MaxBody, early : BOOLEAN,
                        lines : 0..MaxLines, reasons : BOOLEAN]
        /\ server'.fields = Append(server.fields, field) /\ server'.responses = server.responses
        /\ server'.body = server.body /\ server'.reasons = server.reasons /\ server'.early = server.early
    <3>1. server' = [responses |-> server.responses, fields |-> Append(server.fields, field),
                     body |-> server.body, early |-> server.early,
                     lines |-> server.lines + 1, reasons |-> server.reasons]
      BY <2>1 DEF RequestTypeOK
    <3>2. server.lines + 1 \in 0..MaxLines
      BY <2>1 DEF RequestTypeOK
    <3> QED BY <2>2, <3>1, <3>2 DEF RequestTypeOK
  <2>4. /\ DOMAIN response' = DOMAIN response /\ response'.body = response.body
        /\ response'.headers = Append(response.headers, field) /\ response'.cookies = response.cookies
        /\ response'.status_message = response.status_message
    BY <2>1 DEF RequestTypeOK, NoResponse
  <2>5. RequestTypeOK'
    BY <2>1, <2>3, <2>4 DEF RequestTypeOK, NoResponse
  <2>6. ResponseFollowsServer'
    BY <2>1, <2>3, <2>4 DEF ResponseFollowsServer
  <2> QED BY <2>1, <2>3, <2>4, <2>5, <2>6 DEF CurlFollowsRequest, BodyIsSent, CookiesAreRead
<1>10. ASSUME NEW c \in Cookies, NEW h \in BOOLEAN, ServerSetsCookie(c, h)
       PROVE  RequestInv'
  <2>1. /\ phase = "headers" /\ UNCHANGED <<request, pos, response, phase, server>>
        /\ curl' = [curl EXCEPT !.jar = Append(@, Listed(c, h))]
    BY <1>10 DEF ServerSetsCookie
  <2>2. Listed(c, h) \in Listings
    BY ListedIs
  <2>3. Append(curl.jar, Listed(c, h)) \in Seq(Listings)
    BY <2>2 DEF CurlFollowsRequest
  <2> QED BY <2>1, <2>3, NewJar
<1>11. ASSUME NEW i \in 1..MaxCookies, CookieGoes(i)
       PROVE  RequestInv'
  <2>1. /\ phase \in {"sending", "headers"} /\ UNCHANGED <<request, pos, response, phase, server>>
        /\ i \in 1..Len(curl.jar) /\ curl' = [curl EXCEPT !.jar = RemoveAt(@, i)]
    BY <1>11 DEF CookieGoes
  <2>2. RemoveAt(curl.jar, i) \in Seq(Listings)
    BY <2>1, RemoveAtIs DEF CurlFollowsRequest
  <2> QED BY <2>1, <2>2, NewJar
<1>5. ASSUME NEW following \in {"body", "sending", "failed"}, HeadersEnd(following)
      PROVE  RequestInv'
  BY <1>5 DEF HeadersEnd, RequestTypeOK, CurlFollowsRequest, BodyIsSent,
              ResponseFollowsServer, CookiesAreRead, Phases, NoResponse
<1>6. CASE ServerBody(1)
  <2>1. /\ phase = "body" /\ server.body + 1 <= MaxBody
        /\ server' = [server EXCEPT !.body = @ + 1]
        /\ response' = [response EXCEPT !.body = IF request.store = "ignore_body" THEN @ ELSE @ + 1]
        /\ UNCHANGED <<request, curl, pos, phase>>
    BY <1>6 DEF ServerBody
  <2>2. /\ server' \in [responses : Nat, fields : Seq(Nat \X Nat), body : 0..MaxBody, early : BOOLEAN,
                        lines : 0..MaxLines, reasons : BOOLEAN]
        /\ server'.fields = server.fields /\ server'.responses = server.responses
        /\ server'.body = server.body + 1 /\ server'.reasons = server.reasons
        /\ server'.early = server.early
    <3>1. server' = [responses |-> server.responses, fields |-> server.fields,
                     body |-> server.body + 1, early |-> server.early, lines |-> server.lines, reasons |-> server.reasons]
      BY <2>1 DEF RequestTypeOK
    <3>2. server.body + 1 \in 0..MaxBody
      BY <2>1 DEF RequestTypeOK
    <3> QED BY <3>1, <3>2 DEF RequestTypeOK
  <2>3. /\ DOMAIN response' = DOMAIN response
        /\ response'.body = IF request.store = "ignore_body" THEN response.body ELSE response.body + 1
        /\ response'.headers = response.headers /\ response'.status_message = response.status_message
        /\ response'.cookies = response.cookies
    BY <2>1 DEF RequestTypeOK, NoResponse
  <2>4. RequestTypeOK'
    BY <2>1, <2>2, <2>3 DEF RequestTypeOK, NoResponse
  <2>5. ResponseFollowsServer'
    BY <2>1, <2>2, <2>3 DEF ResponseFollowsServer
  <2> QED BY <2>1, <2>2, <2>3, <2>4, <2>5 DEF CurlFollowsRequest, BodyIsSent, CookiesAreRead
<1>7. CASE Completes
  <2> DEFINE read == ResponseCookies(curl.jar)
  <2>1. /\ phase = "body" /\ phase' = "done" /\ UNCHANGED <<request, curl, pos, server>>
        /\ response' = [response EXCEPT
             !.status_code = server.responses,
             !.cookies = IF request.sync THEN read ELSE @]
    BY <1>7 DEF Completes
  <2>0. response.cookies = <<>>
    BY <2>1 DEF CookiesAreRead
  <2> HIDE DEF read
  <2>2. /\ DOMAIN response' = DOMAIN response /\ response'.body = response.body
        /\ response'.headers = response.headers /\ response'.status_message = response.status_message
        /\ response'.cookies = IF request.sync THEN read ELSE <<>>
    BY <2>0, <2>1 DEF RequestTypeOK, NoResponse
  <2>3. RequestTypeOK'
    BY <2>1, <2>2 DEF RequestTypeOK, NoResponse, Phases
  <2>4. CurlFollowsRequest' /\ BodyIsSent'
    BY <2>1 DEF CurlFollowsRequest, BodyIsSent
  <2>5. ResponseFollowsServer'
    BY <2>1, <2>2 DEF ResponseFollowsServer
  <2>6. read' = read
    BY <2>1 DEF read, ResponseCookies
  <2>7. CookiesAreRead'
    BY <2>1, <2>2, <2>6 DEF CookiesAreRead, read
  <2> QED BY <2>3, <2>4, <2>5, <2>7
<1>8. CASE Fails
  BY <1>8 DEF Fails, RequestTypeOK, CurlFollowsRequest, BodyIsSent,
              ResponseFollowsServer, CookiesAreRead, Phases, NoResponse
<1>9. CASE UNCHANGED requestVars
  <2>1. UNCHANGED request /\ UNCHANGED curl /\ UNCHANGED pos /\ UNCHANGED response
        /\ UNCHANGED phase /\ UNCHANGED server
    BY <1>9 DEF requestVars
  <2>2. RequestTypeOK'
    BY <2>1 DEF RequestTypeOK, NoResponse
  <2>3. CurlFollowsRequest'
    BY <2>1, Zenon DEF CurlFollowsRequest
  <2> QED BY <2>1, <2>2, <2>3
          DEF BodyIsSent, ResponseFollowsServer, CookiesAreRead, ResponseCookies
<1> QED BY <1>1, <1>2, <1>3, <1>4, <1>5, <1>6, <1>7, <1>8, <1>9, <1>10, <1>11 DEF RequestNext

(* For bodies of any size, any cookies and any run of responses, early ones  *)
(* too, a request that succeeds reports the last response and the cookies    *)
(* that libcurl has then, and libcurl never takes a part of the body for all *)
(* of it (webclient.cpp:42-158).                                             *)
THEOREM LastResponseIsReported == RequestSpec => []ResponseIsTheLast
<1> QED BY RequestInitInv, RequestStepInv, RequestInvImplies, PTL DEF RequestSpec
===============================================================================
