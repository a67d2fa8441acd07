----------------------------- MODULE QueueLemmas -----------------------------
(* What emplace and pop do to the elements of the executor's queue, and the  *)
(* least number of a set, by which proofs about walks and searches proceed.  *)
EXTENDS Integers, SequenceTheorems, WellFoundedInduction, TLAPS

(* The elements of a queue after emplace, after pop, and when it is empty.   *)
LEMMA AppendElements ==
  ASSUME NEW S, NEW q \in Seq(S), NEW f \in S
  PROVE  LET r == Append(q, f) IN
           /\ r \in Seq(S)
           /\ {r[i] : i \in 1..Len(r)} = {q[i] : i \in 1..Len(q)} \cup {f}
<1>1. /\ Append(q, f) \in Seq(S)
      /\ Len(Append(q, f)) = Len(q) + 1
      /\ \A i \in 1..Len(q) : Append(q, f)[i] = q[i]
      /\ Append(q, f)[Len(q) + 1] = f
  BY AppendProperties
<1>2. Len(q) \in Nat /\ 1..(Len(q) + 1) = 1..Len(q) \cup {Len(q) + 1}
  BY LenProperties
<1> QED
  BY <1>1, <1>2

LEMMA TailElements ==
  ASSUME NEW S, NEW q \in Seq(S), q # <<>>
  PROVE  LET r == Tail(q) IN
           /\ r \in Seq(S) /\ Head(q) \in S
           /\ {q[i] : i \in 1..Len(q)} = {r[i] : i \in 1..Len(r)} \cup {Head(q)}
<1>1. /\ Head(q) \in S /\ Tail(q) \in Seq(S)
      /\ Len(Tail(q)) = Len(q) - 1
      /\ \A i \in 1..Len(Tail(q)) : Tail(q)[i] = q[i + 1]
  BY HeadTailProperties
<1>2. Head(q) = q[1] /\ Len(q) \in Nat \ {0}
  BY LenProperties, EmptySeq
<1>3. ASSUME NEW i \in 1..Len(q), i # 1
      PROVE  i - 1 \in 1..Len(Tail(q)) /\ Tail(q)[i - 1] = q[i]
  BY <1>1, <1>2, <1>3
<1>4. ASSUME NEW i \in 1..Len(Tail(q))
      PROVE  i + 1 \in 1..Len(q) /\ Tail(q)[i] = q[i + 1]
  BY <1>1, <1>2, <1>4
<1> DEFINE r == Tail(q)
<1> HIDE DEF r
<1>5. ASSUME NEW i \in 1..Len(q) PROVE q[i] = Head(q) \/ \E j \in 1..Len(r) : q[i] = r[j]
  BY <1>2, <1>3 DEF r
<1>6. \A j \in 1..Len(r) : \E i \in 1..Len(q) : q[i] = r[j]
  BY <1>4 DEF r
<1>7. \E i \in 1..Len(q) : q[i] = Head(q)
  BY <1>2
<1>8. {q[i] : i \in 1..Len(q)} = {r[i] : i \in 1..Len(r)} \cup {Head(q)}
  BY <1>5, <1>6, <1>7, SMTT(30)
<1> QED
  BY <1>1, <1>8 DEF r

(* Elements that were in a certain order stay in it: of any two elements the *)
(* earlier one still comes first after emplace and after pop.                *)
LEMMA AppendOrder ==
  ASSUME NEW S, NEW q \in Seq(S), NEW f \in S
  PROVE  /\ Len(Append(q, f)) = Len(q) + 1 /\ Len(q) \in Nat
         /\ \A i \in 1..Len(q) : Append(q, f)[i] = q[i]
         /\ Append(q, f)[Len(q) + 1] = f
  BY AppendProperties, LenProperties

LEMMA TailOrder ==
  ASSUME NEW S, NEW q \in Seq(S), q # <<>>
  PROVE  /\ Head(q) = q[1] /\ 1 \in 1..Len(q)
         /\ \A i \in 1..Len(Tail(q)) :
              i \in Nat /\ i + 1 \in 1..Len(q) /\ i + 1 > 1 /\ Tail(q)[i] = q[i + 1]
<1>1. Head(q) = q[1] /\ Len(q) \in Nat \ {0} /\ Len(Tail(q)) = Len(q) - 1
  BY HeadTailProperties, LenProperties, EmptySeq
<1>2. \A i \in 1..Len(Tail(q)) : Tail(q)[i] = q[i + 1]
  BY HeadTailProperties
<1> QED
  BY <1>1, <1>2

(* Every set of natural numbers has a least one.  Taken for the numbers that *)
(* lack a property, it serves for induction.                                 *)
LEMMA LeastNumber ==
  ASSUME NEW T \in SUBSET Nat, T # {}
  PROVE  \E n \in T : \A m \in T : n <= m
<1> DEFINE R == {ss \in Nat \X Nat : ss[1] < ss[2]}
<1>1. IsWellFoundedOn(OpToRel(<, Nat), Nat)
  BY NatLessThanWellFounded
<1>2. OpToRel(<, Nat) = R
  BY DEF OpToRel
<1>3. IsWellFoundedOn(R, Nat)
  BY <1>1, <1>2
<1>4. \A m, n \in Nat : ~(<<m, n>> \in R) => n <= m
  OBVIOUS
<1> HIDE DEF R
<1>5. \E n \in T : \A m \in T : ~(<<m, n>> \in R)
  BY <1>3, WFMin
<1> QED BY <1>4, <1>5

(* What holds at 0 and is handed on from place to place holds everywhere.    *)
LEMMA FromTheLeft ==
  ASSUME NEW N \in Nat, NEW S, 0 \in S, \A i \in 1..N : i - 1 \in S => i \in S
  PROVE  \A i \in 0..N : i \in S
<1> DEFINE T == {k \in Nat : k <= N /\ k \notin S}
<1>1. T = {}
  <2> SUFFICES ASSUME T # {} PROVE FALSE
    OBVIOUS
  <2>1. PICK k \in T : \A j \in T : k <= j
    BY LeastNumber
  <2>2. k \in Nat /\ k <= N /\ k \notin S /\ k # 0
    OBVIOUS
  <2>3. k - 1 \in Nat /\ k - 1 <= N /\ k - 1 < k /\ k \in 1..N
    BY <2>2
  <2>4. k - 1 \notin T
    BY <2>1, <2>2, <2>3
  <2>5. k - 1 \in S
    BY <2>3, <2>4
  <2> QED BY <2>2, <2>3, <2>5
<1> QED BY <1>1

(* A function that is defined place by place from the one before exists.     *)
Iterates(N, base, step, f) == f[0] = base /\ \A i \in 1..N : f[i] = step[i][f[i - 1]]

LEMMA StepRecursion ==
  ASSUME NEW N \in Nat, NEW D, NEW base \in D, NEW step \in [1..N -> [D -> D]]
  PROVE  \E f \in [0..N -> D] : Iterates(N, base, step, f)
<1> DEFINE Solved(k) == \E g \in [0..N -> D] : g[0] = base /\ \A i \in 1..N : i <= k => g[i] = step[i][g[i - 1]]
           S == {k \in 0..N : Solved(k)}
<1>1. Solved(0)
  <2> DEFINE g == [i \in 0..N |-> base]
  <2>1. g \in [0..N -> D] /\ g[0] = base
    OBVIOUS
  <2>2. \A i \in 1..N : ~(i <= 0)
    OBVIOUS
  <2> QED BY <2>1, <2>2
<1>2. ASSUME NEW k \in 1..N, Solved(k - 1) PROVE Solved(k)
  <2>1. PICK g \in [0..N -> D] : g[0] = base /\ \A i \in 1..N : i <= k - 1 => g[i] = step[i][g[i - 1]]
    BY <1>2
  <2> DEFINE v == step[k][g[k - 1]]
             h == [i \in 0..N |-> IF i = k THEN v ELSE g[i]]
  <2>2. k - 1 \in 0..N /\ k # 0 /\ k - 1 # k
    OBVIOUS
  <2>3. v \in D
    <3>1. g[k - 1] \in D /\ step[k] \in [D -> D]
      BY <2>2
    <3> QED BY <3>1
  <2>4. h \in [0..N -> D] /\ \A i \in 0..N : h[i] = IF i = k THEN v ELSE g[i]
    BY <2>3
  <2> HIDE DEF h
  <2>5. h[0] = base
    BY <2>1, <2>2, <2>4
  <2>6. ASSUME NEW i \in 1..N, i <= k PROVE h[i] = step[i][h[i - 1]]
    <3>1. i - 1 \in 0..N /\ i - 1 # k /\ i \in 0..N
      BY <2>6
    <3>2. h[i - 1] = g[i - 1]
      BY <3>1, <2>4
    <3>3. CASE i = k
      BY <3>1, <3>2, <3>3, <2>4
    <3>4. CASE i # k
      <4>1. i <= k - 1
        BY <2>6, <3>4
      <4> QED BY <4>1, <3>1, <3>2, <3>4, <2>1, <2>4
    <3> QED BY <3>3, <3>4
  <2> QED BY <2>4, <2>5, <2>6
<1>3. 0 \in S
  BY <1>1
<1>4. \A k \in 1..N : k - 1 \in S => k \in S
  <2> HIDE DEF Solved
  <2> QED BY <1>2
<1>5. N \in S
  <2> HIDE DEF S
  <2>1. \A i \in 0..N : i \in S
    BY <1>3, <1>4, FromTheLeft
  <2> QED BY <2>1
<1>6. Solved(N)
  <2> HIDE DEF Solved
  <2> QED BY <1>5
<1>7. PICK g \in [0..N -> D] : g[0] = base /\ \A i \in 1..N : i <= N => g[i] = step[i][g[i - 1]]
  BY <1>6
<1>8. \A i \in 1..N : i <= N
  OBVIOUS
<1> QED BY <1>7, <1>8 DEF Iterates
===============================================================================
