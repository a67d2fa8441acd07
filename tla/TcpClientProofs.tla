--------------------------- MODULE TcpClientProofs ---------------------------
(***************************************************************************)
(* For any number of threads, calls, sizes and bytes: an operation of        *)
(* tcp_client has one owner, which knows the bytes it moved, so it calls     *)
(* back once with the right number, unless the destructor takes its handler  *)
(* between its result and its clearing; and the protocol of connect(),       *)
(* disconnect() and the destructor with the worker keeps the client driven   *)
(* while it is connected and unused when it has been destroyed.              *)
(***************************************************************************)
EXTENDS TcpClient, QueueLemmas, TLAPS

(* The closure c stands for the operation in d.                              *)
Stands(c, d) ==
  \/ c.what = "result" /\ c.dir = d
  \/ c.what = "cancel" /\ Operation(c.held[d])

Free(q, d) == \A i \in 1..Len(q) : ~Stands(q[i], d)

Single(q, d) == \E i \in 1..Len(q) : \A j \in 1..Len(q) : Stands(q[j], d) <=> j = i

(* What a closure that stands for d must know.                               *)
Knows(c, d) ==
  /\ c.what = "result" => c.n = owed[d] /\ (c.n < c.want => d \in cut)
  /\ c.what = "cancel" => c.held[d].got = owed[d] /\ d \in cut

(* The operation in d has one owner: the handler or a closure.               *)
Owned(d) ==
  /\ Armed(d) => d \in busy /\ Free(m_queue, d) /\ handler[d].got = owed[d] /\ m_is_connected
  /\ Armed(d) /\ handler[d].kind = "all" => handler[d].got < handler[d].size
  /\ d \in busy /\ ~Armed(d) => Single(m_queue, d)
  /\ d \notin busy => Free(m_queue, d) /\ owed[d] = 0
  /\ \A i \in 1..Len(m_queue) : Stands(m_queue[i], d) => Knows(m_queue[i], d)

EndOfStream == peer = "closed" /\ "recv" \in busy => "recv" \in cut

(* A thread is inside connect(), disconnect() or the destructor alone, and   *)
(* the closure it waits for is the only one of its kind.                     *)
Waits(c) == c.what \in {"add", "remove"}

Turns ==
  /\ \A t, u \in Threads : tpc[t] # "idle" /\ tpc[u] # "idle" => t = u
  /\ \A i, j \in 1..Len(m_queue) : Waits(m_queue[i]) /\ Waits(m_queue[j]) => i = j
  /\ \A i \in 1..Len(m_queue) :
       /\ m_queue[i].what = "add" => tpc[m_queue[i].by] = "adding"
       /\ m_queue[i].what = "remove" => tpc[m_queue[i].by] \in {"removing", "undoing", "destroying"}

(* The worker looks at what poll() was asked for, or reported.               *)
Watching == {"poll", "callback", "called", "clearing", "pausing"}

(* The destructor has returned, or runs for a client without a connection.   *)
Departed == (\E t \in Threads : tpc[t] = "gone") \/ (~InUse /\ ~attached)

(* What the progress of those calls says of the handle and the connection.   *)
Phases ==
  /\ \A t \in Threads :
       /\ tpc[t] \in {"added", "performing", "undoing", "removing", "destroying"} => attached
       /\ tpc[t] \in {"adding", "undone", "removed", "gone"} => ~attached
       /\ tpc[t] \in {"adding", "added", "performing", "undoing", "undone"} => ~m_is_connected
  /\ m_is_connected => attached \/ \E t \in Threads : tpc[t] \in {"removed", "gone"}
  /\ wpc \in Watching => attached \/ interest = {}

(* A handler that has run is in its place only until the worker clears it,   *)
(* and a closure cancels one only if the destructor came between.            *)
Spending ==
  /\ \A d \in Dirs : Spent(handler[d]) => wpc = "clearing" /\ Side = d
  /\ wpc = "clearing" => ~Armed(Side)
  /\ \A i \in 1..Len(m_queue), d \in Dirs :
       m_queue[i].what = "cancel" /\ Spent(m_queue[i].held[d]) => d \in torn
  /\ torn # {} => ~InUse
  /\ \A d \in torn : handler[d] = NoHandler

(* The destructor's closures come in their order, and are the last.          *)
Ordered ==
  \A i, j \in 1..Len(m_queue) : m_queue[i].what = "cancel" /\ m_queue[j].what = "remove" => i < j

Ending ==
  /\ Ordered
  /\ \A t \in Threads :
       /\ tpc[t] = "taking" => handler["recv"] = NoHandler
       /\ tpc[t] \in {"taken", "destroying", "gone"} => \A d \in Dirs : handler[d] = NoHandler
  /\ ~InUse => busy \subseteq cut
  /\ Departed =>
       \A i \in 1..Len(m_queue), d \in Dirs :
         m_queue[i].what = "cancel" => ~Operation(m_queue[i].held[d]) /\ ~Spent(m_queue[i].held[d])

IInv ==
  /\ TypeOK
  /\ \A d \in Dirs \ torn : Owned(d)
  /\ EndOfStream /\ Turns /\ Phases /\ Spending /\ Ending

-------------------------------------------------------------------------------
(* Every change of the queue adds closures at its end, takes one from its    *)
(* front, or both.                                                           *)

(* As far as d is concerned, nothing of q was lost and nothing added.        *)
Spares(q, r, d) ==
  /\ Free(q, d) => Free(r, d)
  /\ Single(q, d) => Single(r, d)
  /\ \A i \in 1..Len(r) : Stands(r[i], d) => \E j \in 1..Len(q) : r[i] = q[j]

LEMMA Concatenated ==
  ASSUME NEW q \in Seq(Closure), NEW s \in Seq(Closure)
  PROVE  /\ q \o s \in Seq(Closure)
         /\ Len(q \o s) = Len(q) + Len(s) /\ Len(q) \in Nat /\ Len(s) \in Nat
         /\ \A i \in 1..Len(q) : i \in 1..Len(q \o s) /\ (q \o s)[i] = q[i]
         /\ \A i \in 1..Len(s) : Len(q) + i \in 1..Len(q \o s) /\ (q \o s)[Len(q) + i] = s[i]
         /\ \A i \in 1..Len(q \o s) : i \in 1..Len(q) \/ \E j \in 1..Len(s) : i = Len(q) + j
<1>1. /\ q \o s \in Seq(Closure) /\ Len(q \o s) = Len(q) + Len(s)
      /\ \A i \in 1..Len(q) + Len(s) : (q \o s)[i] = IF i <= Len(q) THEN q[i] ELSE s[i - Len(q)]
  BY ConcatProperties
<1>2. Len(q) \in Nat /\ Len(s) \in Nat
  BY LenProperties
<1>3. ASSUME NEW i \in 1..Len(q) PROVE i \in 1..Len(q \o s) /\ (q \o s)[i] = q[i]
  BY <1>1, <1>2
<1>4. ASSUME NEW i \in 1..Len(s)
      PROVE  Len(q) + i \in 1..Len(q \o s) /\ (q \o s)[Len(q) + i] = s[i]
  <2>1. Len(q) + i \in 1..Len(q) + Len(s) /\ ~(Len(q) + i <= Len(q)) /\ (Len(q) + i) - Len(q) = i
    BY <1>2
  <2> QED
    BY <1>1, <2>1
<1>5. ASSUME NEW i \in 1..Len(q \o s), i \notin 1..Len(q)
      PROVE  \E j \in 1..Len(s) : i = Len(q) + j
  <2>1. i - Len(q) \in 1..Len(s) /\ i = Len(q) + (i - Len(q))
    BY <1>1, <1>2, <1>5
  <2> QED
    BY <2>1
<1> QED
  BY <1>1, <1>2, <1>3, <1>4, <1>5

LEMMA AppendedIs ==
  ASSUME NEW q \in Seq(Closure), NEW c \in Closure
  PROVE  /\ Append(q, c) = q \o <<c>>
         /\ <<c>> \in Seq(Closure) /\ Len(<<c>>) = 1 /\ <<c>>[1] = c
<1>1. Append(q, c) = q \o <<c>>
  BY AppendIsConcat
<1>2. <<c>> \in Seq(Closure) /\ Len(<<c>>) = 1 /\ <<c>>[1] = c
  OBVIOUS
<1> QED
  BY <1>1, <1>2

(* Closures that do not stand for d may be added.                            *)
LEMMA AddedSpares ==
  ASSUME NEW q \in Seq(Closure), NEW s \in Seq(Closure), NEW d, Free(s, d)
  PROVE  Spares(q, q \o s, d)
<1> DEFINE r == q \o s
<1>1. /\ Len(r) = Len(q) + Len(s) /\ Len(q) \in Nat /\ Len(s) \in Nat
      /\ \A i \in 1..Len(q) : i \in 1..Len(r) /\ r[i] = q[i]
      /\ \A i \in 1..Len(s) : Len(q) + i \in 1..Len(r) /\ r[Len(q) + i] = s[i]
      /\ \A i \in 1..Len(r) : i \in 1..Len(q) \/ \E j \in 1..Len(s) : i = Len(q) + j
  BY Concatenated
<1> HIDE DEF r
<1>2. ASSUME NEW i \in 1..Len(r), Stands(r[i], d) PROVE i \in 1..Len(q) /\ r[i] = q[i]
  BY <1>1, <1>2 DEF Free
<1>3. Free(q, d) => Free(r, d)
  BY <1>2 DEF Free
<1>4. ASSUME NEW i \in 1..Len(q), \A j \in 1..Len(q) : Stands(q[j], d) <=> j = i
      PROVE  Single(r, d)
  <2>1. \A j \in 1..Len(r) : Stands(r[j], d) <=> j = i
    BY <1>1, <1>2, <1>4
  <2>2. i \in 1..Len(r)
    BY <1>1
  <2> QED
    BY <2>1, <2>2 DEF Single
<1>5. Single(q, d) => Single(r, d)
  BY <1>4 DEF Single
<1> QED
  BY <1>2, <1>3, <1>5 DEF Spares, r

(* One that does becomes the only one, if there was none.                    *)
LEMMA AddedStands ==
  ASSUME NEW q \in Seq(Closure), NEW s \in Seq(Closure), NEW d, Free(q, d), Single(s, d)
  PROVE  /\ Single(q \o s, d)
         /\ \A i \in 1..Len(q \o s) : Stands((q \o s)[i], d) => \E j \in 1..Len(s) : (q \o s)[i] = s[j]
<1> DEFINE r == q \o s
<1>1. /\ Len(r) = Len(q) + Len(s) /\ Len(q) \in Nat /\ Len(s) \in Nat
      /\ \A i \in 1..Len(q) : i \in 1..Len(r) /\ r[i] = q[i]
      /\ \A i \in 1..Len(s) : Len(q) + i \in 1..Len(r) /\ r[Len(q) + i] = s[i]
      /\ \A i \in 1..Len(r) : i \in 1..Len(q) \/ \E j \in 1..Len(s) : i = Len(q) + j
  BY Concatenated
<1> HIDE DEF r
<1>2. ASSUME NEW i \in 1..Len(r), Stands(r[i], d)
      PROVE  \E j \in 1..Len(s) : i = Len(q) + j /\ r[i] = s[j]
  BY <1>1, <1>2 DEF Free
<1>3. PICK k \in 1..Len(s) : \A j \in 1..Len(s) : Stands(s[j], d) <=> j = k
  BY DEF Single
<1>4. Len(q) + k \in 1..Len(r) /\ Stands(r[Len(q) + k], d)
  BY <1>1, <1>3
<1>5. \A j \in 1..Len(r) : Stands(r[j], d) <=> j = Len(q) + k
  <2> TAKE j \in 1..Len(r)
  <2>1. ASSUME Stands(r[j], d) PROVE j = Len(q) + k
    <3>1. PICK i \in 1..Len(s) : j = Len(q) + i /\ r[j] = s[i]
      BY <1>2, <2>1
    <3>2. Stands(s[i], d)
      BY <2>1, <3>1
    <3>3. i = k
      BY <1>3, <3>2
    <3> QED
      BY <3>1, <3>3
  <2>2. ASSUME j = Len(q) + k PROVE Stands(r[j], d)
    BY <1>4, <2>2
  <2> QED
    BY <2>1, <2>2
<1> QED
  BY <1>2, <1>4, <1>5 DEF Single, r

LEMMA QueueStands ==
  ASSUME NEW q \in Seq(Closure), NEW s \in Seq(Closure), m_queue' = q \o s,
         NEW d, Free(q, d), Single(s, d)
  PROVE  /\ Single(m_queue', d)
         /\ \A i \in 1..Len(m_queue') : Stands(m_queue'[i], d) => \E j \in 1..Len(s) : m_queue'[i] = s[j]
  BY AddedStands

LEMMA PoppedSpares ==
  ASSUME NEW q \in Seq(Closure), q # <<>>, NEW d, ~Stands(Head(q), d)
  PROVE  Spares(q, Tail(q), d)
<1> DEFINE r == Tail(q)
<1>1. /\ Head(q) = q[1] /\ 1 \in 1..Len(q)
      /\ \A i \in 1..Len(r) : i \in Nat /\ i + 1 \in 1..Len(q) /\ i + 1 > 1 /\ r[i] = q[i + 1]
  BY TailOrder
<1>2. Len(r) = Len(q) - 1 /\ Len(q) \in Nat
  BY HeadTailProperties, LenProperties
<1> HIDE DEF r
<1>3. Free(q, d) => Free(r, d)
  BY <1>1 DEF Free
<1>4. ASSUME NEW i \in 1..Len(q), \A j \in 1..Len(q) : Stands(q[j], d) <=> j = i
      PROVE  Single(r, d)
  <2>1. i # 1
    BY <1>1, <1>4
  <2>2. i - 1 \in 1..Len(r)
    BY <1>2, <2>1
  <2>3. \A j \in 1..Len(r) : Stands(r[j], d) <=> j = i - 1
    BY <1>1, <1>4, <2>2
  <2> QED
    BY <2>2, <2>3 DEF Single
<1>5. Single(q, d) => Single(r, d)
  BY <1>4 DEF Single
<1> QED
  BY <1>1, <1>3, <1>5 DEF Spares, r

LEMMA PoppedStands ==
  ASSUME NEW q \in Seq(Closure), q # <<>>, NEW d, Stands(Head(q), d), Single(q, d)
  PROVE  Free(Tail(q), d)
<1>1. /\ Head(q) = q[1] /\ 1 \in 1..Len(q)
      /\ \A i \in 1..Len(Tail(q)) :
           i \in Nat /\ i + 1 \in 1..Len(q) /\ i + 1 > 1 /\ Tail(q)[i] = q[i + 1]
  BY TailOrder
<1>2. PICK k \in 1..Len(q) : \A j \in 1..Len(q) : Stands(q[j], d) <=> j = k
  BY DEF Single
<1>3. k = 1
  BY <1>1, <1>2
<1> QED
  BY <1>1, <1>2, <1>3 DEF Free

LEMMA SparesTransitive ==
  ASSUME NEW q, NEW r, NEW s, NEW d, Spares(q, r, d), Spares(r, s, d)
  PROVE  Spares(q, s, d)
  BY DEF Spares

LEMMA SparesItself == \A q, d : Spares(q, q, d)
  BY DEF Spares

-------------------------------------------------------------------------------
LEMMA Handlers ==
  /\ NoHandler \in Handler /\ ~Operation(NoHandler) /\ ~Spent(NoHandler)
  /\ \A h \in Handler :
       /\ h.got \in Nat /\ h.size \in Nat
       /\ Operation(h) => h.size \in Sizes /\ Want(h.kind, h.size) \in Nat /\ ~Spent(h)
       /\ Operation(h) => Ran(h) \in Handler /\ Spent(Ran(h)) /\ ~Operation(Ran(h))
  /\ \A kind \in {"one", "all"}, size \in Sizes, got \in Nat :
       LET h == [kind |-> kind, size |-> size, got |-> got] IN
       h \in Handler /\ Operation(h)
<1>1. Sizes \subseteq Nat
  BY ClientAssumption
<1>2. NoHandler \in Handler /\ NoHandler.kind = "none" /\ NoHandler.size = 0 /\ NoHandler.got = 0
  BY DEF Handler, NoHandler
<1>3. ASSUME NEW h \in Handler
      PROVE  /\ h.got \in Nat /\ h.size \in Nat
             /\ Operation(h) => h.size \in Sizes /\ Want(h.kind, h.size) \in Nat /\ ~Spent(h)
             /\ Operation(h) => Ran(h) \in Handler /\ Spent(Ran(h)) /\ ~Operation(Ran(h))
  <2>1. CASE h = NoHandler
    BY <1>2, <2>1 DEF Operation
  <2>2. CASE h \in [kind : {"one", "all", "copied", "moved"}, size : Sizes, got : Nat]
    <3>1. h.kind \in {"one", "all", "copied", "moved"} /\ h.size \in Sizes /\ h.got \in Nat
      BY <2>2
    <3>2. /\ Ran(h) \in [kind : {"copied", "moved"}, size : Sizes, got : Nat]
          /\ Ran(h).kind \in {"copied", "moved"}
      BY <2>2 DEF Ran
    <3>3. Ran(h) \in [kind : {"one", "all", "copied", "moved"}, size : Sizes, got : Nat]
      BY <3>2
    <3> QED
      BY <1>1, <3>1, <3>2, <3>3 DEF Operation, Spent, Want, Handler
  <2>3. CASE h \in [kind : {"user"}, size : {0}, got : {0}]
    <3>1. h.kind = "user" /\ h.size = 0 /\ h.got = 0
      BY <2>3
    <3> QED
      BY <3>1 DEF Operation
  <2> QED
    BY <1>3, <2>1, <2>2, <2>3 DEF Handler
<1>4. ~Operation(NoHandler) /\ ~Spent(NoHandler)
  BY <1>2 DEF Operation, Spent
<1>5. \A kind \in {"one", "all"}, size \in Sizes, got \in Nat :
        LET h == [kind |-> kind, size |-> size, got |-> got] IN
        h \in Handler /\ Operation(h)
  BY DEF Handler, Operation
<1> QED
  BY <1>2, <1>3, <1>4, <1>5

LEMMA HandlerGains ==
  ASSUME NEW h \in Handler, Operation(h), NEW n \in Nat
  PROVE  /\ [h EXCEPT !.got = @ + n] \in Handler
         /\ [h EXCEPT !.got = @ + n].got = h.got + n /\ Operation([h EXCEPT !.got = @ + n])
         /\ [h EXCEPT !.got = @ + n].kind = h.kind /\ [h EXCEPT !.got = @ + n].size = h.size
<1>1. h \in [kind : {"one", "all"}, size : Sizes, got : Nat]
  BY DEF Handler, NoHandler, Operation
<1>2. [h EXCEPT !.got = @ + n] \in [kind : {"one", "all", "copied", "moved"}, size : Sizes, got : Nat]
  BY <1>1
<1>3. /\ [h EXCEPT !.got = @ + n].got = h.got + n
      /\ [h EXCEPT !.got = @ + n].kind = h.kind /\ [h EXCEPT !.got = @ + n].size = h.size
  BY <1>1
<1> QED
  BY <1>2, <1>3 DEF Handler, Operation

LEMMA ResultTyped ==
  ASSUME NEW d \in Dirs, NEW n \in Nat, NEW want \in Nat
  PROVE  Result(d, n, want) \in Closure
  BY DEF Result, Closure

(* One closure, or none, for the operation in c.                             *)
LEMMA OneFor ==
  ASSUME NEW x, NEW b \in BOOLEAN, b => x \in Closure,
         NEW s, s = IF b THEN <<x>> ELSE <<>>
  PROVE  /\ s \in Seq(Closure)
         /\ \A i \in 1..Len(s) : b /\ i = 1 /\ s[i] = x
         /\ b => Len(s) = 1
         /\ \A d : ~b \/ ~Stands(x, d) => Free(s, d)
         /\ \A d : b /\ Stands(x, d) => Single(s, d)
<1>1. CASE b
  <2>1. s = <<x>> /\ s \in Seq(Closure) /\ Len(s) = 1 /\ s[1] = x
    BY <1>1
  <2> QED
    BY <1>1, <2>1 DEF Free, Single
<1>2. CASE ~b
  <2>1. s = <<>> /\ s \in Seq(Closure) /\ Len(s) = 0
    BY <1>2
  <2> QED
    BY <1>2, <2>1 DEF Free
<1> QED
  BY <1>1, <1>2

(* A closure for each direction.                                             *)
LEMMA OneEach ==
  ASSUME NEW a \in Seq(Closure), NEW b \in Seq(Closure), NEW d \in Dirs
  PROVE  /\ a \o b \in Seq(Closure)
         /\ \A i \in 1..Len(a \o b) : (\E j \in 1..Len(a) : (a \o b)[i] = a[j])
                                        \/ \E j \in 1..Len(b) : (a \o b)[i] = b[j]
         /\ Free(a, d) /\ Free(b, d) => Free(a \o b, d)
         /\ Free(a, d) /\ Single(b, d) => Single(a \o b, d)
         /\ Single(a, d) /\ Free(b, d) => Single(a \o b, d)
<1>1. a \o b \in Seq(Closure)
  BY Concatenated
<1>2. \A i \in 1..Len(a \o b) : (\E j \in 1..Len(a) : (a \o b)[i] = a[j])
                                  \/ \E j \in 1..Len(b) : (a \o b)[i] = b[j]
  <2> TAKE i \in 1..Len(a \o b)
  <2>1. CASE i \in 1..Len(a)
    BY <2>1, Concatenated
  <2>2. ASSUME NEW j \in 1..Len(b), i = Len(a) + j
        PROVE  (a \o b)[i] = b[j]
    BY <2>2, Concatenated
  <2> QED
    BY <2>1, <2>2, Concatenated
<1>3. Free(b, d) => Spares(a, a \o b, d)
  BY AddedSpares
<1>4. Free(a, d) /\ Single(b, d) => Single(a \o b, d)
  BY AddedStands
<1> QED
  BY <1>1, <1>2, <1>3, <1>4 DEF Spares

(* The results of cancelled handlers: one for each operation.                *)
LEMMA Cancelled ==
  ASSUME NEW held \in [Dirs -> Handler], NEW d \in Dirs
  PROVE  /\ CancelResults(held) \in Seq(Closure)
         /\ \A i \in 1..Len(CancelResults(held)) : CancelResults(held)[i].what \in {"result", "empty"}
         /\ ~Operation(held[d]) /\ ~Spent(held[d]) => Free(CancelResults(held), d)
         /\ Operation(held[d]) =>
              /\ Single(CancelResults(held), d)
              /\ \A i \in 1..Len(CancelResults(held)) : Stands(CancelResults(held)[i], d) =>
                   CancelResults(held)[i].what = "result" /\ CancelResults(held)[i].n = held[d].got
<1> DEFINE Of(c) == IF Operation(held[c]) THEN Result(c, held[c].got, Want(held[c].kind, held[c].size))
                    ELSE IF held[c].kind = "copied" THEN Result(c, 0, 1)
                    ELSE [what |-> "empty"]
           Part(c) == CancelResult(c, held[c])
           Some(c) == Operation(held[c]) \/ Spent(held[c])
<1>1. ASSUME NEW c \in Dirs, Some(c)
      PROVE  /\ Of(c) \in Closure /\ Of(c).what \in {"result", "empty"}
             /\ \A e \in Dirs : Stands(Of(c), e) => e = c
             /\ Operation(held[c]) => Of(c).what = "result" /\ Of(c).n = held[c].got /\ Stands(Of(c), c)
  <2>1. CASE Operation(held[c])
    <3>1. Of(c) = Result(c, held[c].got, Want(held[c].kind, held[c].size))
      BY <2>1
    <3>2. /\ Of(c) \in Closure
          /\ Of(c).what = "result" /\ Of(c).dir = c /\ Of(c).n = held[c].got
      BY <2>1, <3>1, Handlers, ResultTyped DEF Result
    <3> QED
      BY <3>2 DEF Stands
  <2>2. CASE ~Operation(held[c]) /\ held[c].kind = "copied"
    <3>1. Of(c) = Result(c, 0, 1)
      BY <2>2
    <3>2. Of(c) \in Closure /\ Of(c).what = "result" /\ Of(c).dir = c
      BY <3>1, ResultTyped DEF Result
    <3> QED
      BY <2>2, <3>2 DEF Stands
  <2>3. CASE ~Operation(held[c]) /\ held[c].kind = "moved"
    <3>1. Of(c) = [what |-> "empty"]
      BY <2>3
    <3>2. Of(c) \in Closure /\ Of(c).what = "empty"
      BY <3>1 DEF Closure
    <3> QED
      BY <2>3, <3>2 DEF Stands
  <2> QED
    BY <1>1, <2>1, <2>2, <2>3 DEF Spent
<1>2. ASSUME NEW c \in Dirs PROVE Part(c) = IF Some(c) THEN <<Of(c)>> ELSE <<>>
  <2>1. CASE Operation(held[c])
    BY <2>1 DEF CancelResult, Spent, Operation
  <2>2. CASE held[c].kind = "copied"
    BY <2>2 DEF CancelResult, Spent, Operation
  <2>3. CASE held[c].kind = "moved"
    BY <2>3 DEF CancelResult, Spent, Operation
  <2>4. CASE ~Operation(held[c]) /\ held[c].kind # "copied" /\ held[c].kind # "moved"
    BY <2>4 DEF CancelResult, Spent
  <2> QED
    BY <2>1, <2>2, <2>3, <2>4
<1>3. \A c \in Dirs : Some(c) \in BOOLEAN
  BY DEF Operation, Spent
<1>4. "recv" \in Dirs /\ "send" \in Dirs /\ (d = "recv" \/ d = "send")
  BY DEF Dirs
<1>5. CancelResults(held) = Part("recv") \o Part("send")
  BY DEF CancelResults
<1>a. \A c \in Dirs : Operation(held[c]) => Some(c)
  OBVIOUS
<1>b. ~Operation(held[d]) /\ ~Spent(held[d]) => ~Some(d)
  OBVIOUS
<1> HIDE DEF Of, Part, Some
<1>6. ASSUME NEW c \in Dirs
      PROVE  /\ Part(c) \in Seq(Closure)
             /\ \A i \in 1..Len(Part(c)) : Some(c) /\ Part(c)[i] = Of(c)
             /\ \A e \in Dirs : ~Some(c) \/ c # e => Free(Part(c), e)
             /\ Operation(held[c]) => Single(Part(c), c)
  <2>1. Some(c) \in BOOLEAN /\ (Some(c) => Of(c) \in Closure) /\ Part(c) = IF Some(c) THEN <<Of(c)>> ELSE <<>>
    BY <1>1, <1>2, <1>3
  <2>2. /\ Part(c) \in Seq(Closure)
        /\ \A i \in 1..Len(Part(c)) : Some(c) /\ i = 1 /\ Part(c)[i] = Of(c)
        /\ \A e : ~Some(c) \/ ~Stands(Of(c), e) => Free(Part(c), e)
        /\ \A e : Some(c) /\ Stands(Of(c), e) => Single(Part(c), e)
    BY <2>1, OneFor
  <2> QED
    BY <1>1, <1>a, <2>2
<1>7. Part("recv") \in Seq(Closure) /\ Part("send") \in Seq(Closure)
  BY <1>4, <1>6
<1>8. \A i \in 1..Len(CancelResults(held)) : \E c \in Dirs : Some(c) /\ CancelResults(held)[i] = Of(c)
  <2>1. \A i \in 1..Len(CancelResults(held)) :
          \/ \E j \in 1..Len(Part("recv")) : CancelResults(held)[i] = Part("recv")[j]
          \/ \E j \in 1..Len(Part("send")) : CancelResults(held)[i] = Part("send")[j]
    <3>1. PICK a, b : a = Part("recv") /\ b = Part("send")
      OBVIOUS
    <3>2. \A i \in 1..Len(a \o b) : (\E j \in 1..Len(a) : (a \o b)[i] = a[j])
                                      \/ \E j \in 1..Len(b) : (a \o b)[i] = b[j]
      BY <1>7, <3>1, OneEach
    <3> QED
      BY <1>5, <3>1, <3>2
  <2> QED
    BY <1>4, <1>6, <2>1
<1>9. /\ CancelResults(held) \in Seq(Closure)
      /\ ~Some(d) => Free(CancelResults(held), d)
      /\ Operation(held[d]) => Single(CancelResults(held), d)
  BY <1>4, <1>5, <1>6, <1>7, OneEach
<1> QED
  BY <1>1, <1>8, <1>9, <1>b

(* What the destructor queues for the handler of c.                          *)
LEMMA CancelOneIs ==
  ASSUME NEW c \in Dirs, handler \in [Dirs -> Handler]
  PROVE  /\ CancelOne(c) \in Seq(Closure)
         /\ \A i \in 1..Len(CancelOne(c)) :
              /\ CancelOne(c)[i].what = "cancel"
              /\ \A e \in Dirs : CancelOne(c)[i].held[e] = IF e = c THEN handler[c] ELSE NoHandler
         /\ \A e \in Dirs : ~Armed(c) \/ c # e => Free(CancelOne(c), e)
         /\ Armed(c) => Single(CancelOne(c), c)
<1> DEFINE x == [what |-> "cancel", held |-> [e \in Dirs |-> IF e = c THEN handler[c] ELSE NoHandler]]
           b == handler[c] # NoHandler
<1>1. x.held \in [Dirs -> Handler] /\ x.what = "cancel"
  BY Handlers
<1>2. x \in Closure
  BY <1>1 DEF Closure
<1>3. \A e \in Dirs : x.held[e] = IF e = c THEN handler[c] ELSE NoHandler
  OBVIOUS
<1>4. b \in BOOLEAN /\ CancelOne(c) = IF b THEN <<x>> ELSE <<>>
  BY DEF CancelOne
<1>5. Armed(c) => b
  BY Handlers DEF Armed
<1> HIDE DEF x, b
<1>6. \A e \in Dirs : Stands(x, e) <=> c = e /\ Armed(e)
  BY <1>1, <1>3, Handlers DEF Stands, Armed
<1>7. /\ CancelOne(c) \in Seq(Closure)
      /\ \A i \in 1..Len(CancelOne(c)) : b /\ i = 1 /\ CancelOne(c)[i] = x
      /\ \A e : ~b \/ ~Stands(x, e) => Free(CancelOne(c), e)
      /\ \A e : b /\ Stands(x, e) => Single(CancelOne(c), e)
  BY <1>2, <1>4, OneFor
<1> QED
  BY <1>1, <1>3, <1>5, <1>6, <1>7

-------------------------------------------------------------------------------
(* Every action keeps the types.                                             *)

LEMMA PushTyped ==
  ASSUME NEW a, NEW c \in Closure, TypeOK, Push(a, c)
  PROVE  m_queue' \in Seq(Closure) /\ wake' \in BOOLEAN
<1>1. m_queue' \in Seq(Closure)
  BY AppendedIs, Concatenated DEF Push, TypeOK
<1> QED
  BY <1>1 DEF Push, TypeOK

LEMMA Outcome ==
  ASSUME TypeOK, NEW d \in Dirs, NEW size \in Int, NEW n \in Outcomes(d, size)
  PROVE  /\ n \in Int /\ n >= -1
         /\ Bytes(n) \in Nat /\ socket[d] - Bytes(n) \in Nat /\ owed[d] + Bytes(n) \in Int
         /\ Moved(n) = Bytes(n)
         /\ n = 0 => d = "recv" /\ peer = "closed"
         /\ n # -1 => n \in Nat /\ Bytes(n) = n
         /\ n > 0 => n <= size
<1>1. socket[d] \in Nat /\ owed[d] \in Int
  BY DEF TypeOK
<1>2. CASE socket[d] > 0
  BY <1>1, <1>2 DEF Outcomes, Bytes, Moved
<1>3. CASE ~(socket[d] > 0)
  BY <1>1, <1>3 DEF Outcomes, Bytes, Moved
<1> QED
  BY <1>2, <1>3

LEMMA MovesTyped ==
  ASSUME TypeOK, NEW d \in Dirs, NEW size \in Int, NEW n \in Outcomes(d, size), Moves(d, n)
  PROVE  /\ socket' \in [Dirs -> Nat] /\ owed' \in [Dirs -> Int]
         /\ owed'[d] = owed[d] + Bytes(n)
         /\ \A e \in Dirs : e # d => owed'[e] = owed[e]
         /\ UNCHANGED <<coming, peer>>
  BY Outcome DEF Moves, TypeOK

LEMMA Nobody == None \notin Threads /\ None # Worker /\ Worker \notin Threads
  BY ClientAssumption DEF Actors

LEMMA TypeInit == Init => TypeOK
<1> SUFFICES ASSUME Init PROVE TypeOK
  OBVIOUS
<1>1. m_queue \in Seq(Closure) /\ handler \in [Dirs -> Handler]
  BY Handlers DEF Init
<1>2. MaxCalls \in Nat /\ Stream \in Nat /\ None \notin Threads /\ None # Worker
  BY ClientAssumption, Nobody
<1>3. /\ tpc \in [Threads -> {"idle", "adding", "added", "performing", "undoing", "undone",
                               "removing", "removed", "taking", "taken", "destroying", "gone"}]
      /\ \A t \in Threads : tpc[t] = "idle" /\ m_mtx # t
      /\ m_mtx \in Actors \cup {None} /\ m_mtx # Worker
  BY <1>2 DEF Init
<1>4. wake \in BOOLEAN /\ attached \in BOOLEAN /\ m_is_connected \in BOOLEAN
  BY DEF Init
<1> QED
  BY <1>1, <1>2, <1>3, <1>4 DEF Init, TypeOK

LEMMA TypeStarts ==
  ASSUME TypeOK, NEW a \in Callers, NEW d \in Dirs, NEW kind \in {"one", "all"}, NEW size \in Sizes,
         StartDisconnected(a, d, kind, size) \/ StartInline(a, d, kind, size) \/ StartArmed(a, d, kind, size)
  PROVE  TypeOK'
<1>1. size \in Nat /\ Want(kind, size) \in Nat /\ MaxCalls \in Nat /\ None # Worker
  BY ClientAssumption, Nobody DEF Want
<1>2. CASE StartDisconnected(a, d, kind, size)
  <2>1. m_queue' \in Seq(Closure) /\ wake' \in BOOLEAN
    BY <1>1, <1>2, PushTyped, ResultTyped DEF StartDisconnected
  <2> QED
    BY <1>1, <1>2, <2>1 DEF StartDisconnected, Starts, Call, TypeOK, watch, easy, network
<1>3. CASE StartInline(a, d, kind, size)
  <2>1. PICK n \in Outcomes(d, size) : /\ Satisfied(kind, size, 0, n) /\ Moves(d, n)
                                       /\ Push(a, Result(d, n, Want(kind, size)))
    BY <1>3 DEF StartInline
  <2>2. n \in Nat
    BY <1>1, <2>1, Outcome DEF Satisfied
  <2>3. m_queue' \in Seq(Closure) /\ wake' \in BOOLEAN
    BY <1>1, <2>1, <2>2, PushTyped, ResultTyped
  <2>4. socket' \in [Dirs -> Nat] /\ owed' \in [Dirs -> Int] /\ UNCHANGED <<coming, peer>>
    BY <1>1, <2>1, MovesTyped
  <2> QED
    BY <1>1, <1>3, <2>3, <2>4 DEF StartInline, Starts, Call, TypeOK, watch, easy
<1>4. CASE StartArmed(a, d, kind, size)
  <2>1. PICK n \in Outcomes(d, size) : /\ Moves(d, n)
          /\ handler' = [handler EXCEPT ![d] = [kind |-> kind, size |-> size, got |-> Moved(n)]]
    BY <1>4 DEF StartArmed
  <2>2. Moved(n) \in Nat
    BY <1>1, Outcome
  <2>3. handler' \in [Dirs -> Handler]
    BY <2>1, <2>2, Handlers DEF TypeOK
  <2>4. socket' \in [Dirs -> Nat] /\ owed' \in [Dirs -> Int] /\ UNCHANGED <<coming, peer>>
    BY <1>1, <2>1, MovesTyped
  <2>5. wake' \in BOOLEAN /\ paused' \subseteq Dirs /\ wanted' \subseteq Dirs
    BY <1>4 DEF StartArmed, Unpause, TypeOK
  <2> QED
    BY <1>1, <1>4, <2>3, <2>4, <2>5 DEF StartArmed, Starts, Call, TypeOK, watch
<1> QED
  BY <1>2, <1>3, <1>4

LEMMA TypeObserver ==
  ASSUME TypeOK, NEW a \in Observers,
         SetOnDataAvailable(a) \/ RecvRaw(a) \/ \E pause \in BOOLEAN : PauseReceive(a, pause)
  PROVE  TypeOK'
<1>1. MaxCalls \in Nat /\ "recv" \in Dirs /\ None # Worker
  BY ClientAssumption, Nobody DEF Dirs
<1>2. CASE SetOnDataAvailable(a)
  <2>1. handler' \in [Dirs -> Handler]
    BY <1>2 DEF SetOnDataAvailable, TypeOK, Handler
  <2> QED
    BY <1>1, <1>2, <2>1 DEF SetOnDataAvailable, Call, TypeOK, watch, executor, easy, network, history
<1>3. CASE RecvRaw(a)
  <2>1. PICK size \in Sizes : \E n \in Outcomes("recv", size) :
          socket' = [socket EXCEPT !["recv"] = @ - Bytes(n)]
    BY <1>3 DEF RecvRaw
  <2>2. size \in Nat
    BY ClientAssumption
  <2>3. socket' \in [Dirs -> Nat]
    BY <1>1, <2>1, <2>2, Outcome DEF TypeOK
  <2> QED
    BY <1>1, <1>3, <2>3 DEF RecvRaw, Call, TypeOK, watch, executor, easy, history
<1>4. ASSUME NEW pause \in BOOLEAN, PauseReceive(a, pause) PROVE TypeOK'
  <2>1. wake' \in BOOLEAN /\ paused' \subseteq Dirs /\ wanted' \subseteq Dirs
    BY <1>1, <1>4 DEF PauseReceive, Pause, Unpause, TypeOK
  <2> QED
    BY <1>1, <1>4, <2>1 DEF PauseReceive, Call, TypeOK, watch, network
<1> QED
  BY <1>2, <1>3, <1>4

LEMMA TypeConnect ==
  ASSUME TypeOK,
         \/ \E ok \in BOOLEAN : ConnectOnWorker(ok)
         \/ \E t \in Threads : \/ Connect(t) \/ ConnectPerform(t) \/ ConnectDone(t)
                               \/ ConnectFails(t) \/ ConnectUndone(t)
  PROVE  TypeOK'
<1>1. /\ MaxCalls \in Nat /\ Stream \in Nat /\ Window \in Nat
      /\ None \notin Threads /\ None # Worker /\ Worker \notin Threads
      /\ \A t \in Threads : /\ [what |-> "add", by |-> t] \in Closure
                            /\ [what |-> "remove", by |-> t] \in Closure
  BY ClientAssumption, Nobody DEF Closure
<1>2. Established => socket' \in [Dirs -> Nat] /\ coming' \in 0..Stream /\ peer' = "open"
  BY <1>1 DEF Established
<1>3. ASSUME NEW ok \in BOOLEAN, ConnectOnWorker(ok) PROVE TypeOK'
  <2>1. socket' \in [Dirs -> Nat] /\ coming' \in 0..Stream /\ peer' \in {"open", "closed", "reset"}
    BY <1>2, <1>3 DEF ConnectOnWorker, TypeOK, network
  <2>2. attached' \in BOOLEAN /\ m_is_connected' \in BOOLEAN
    BY <1>3 DEF ConnectOnWorker
  <2> QED
    BY <1>1, <1>3, <2>1, <2>2 DEF ConnectOnWorker, Call, TypeOK, watch, executor
<1>4. ASSUME NEW t \in Threads, Connect(t) PROVE TypeOK'
  <2>1. m_queue' \in Seq(Closure) /\ wake' \in BOOLEAN
    BY <1>1, <1>4, PushTyped DEF Connect
  <2> QED
    BY <1>1, <1>4, <2>1 DEF Connect, Settled, TypeOK, Actors, watch, network
<1>5. ASSUME NEW t \in Threads, ConnectPerform(t) PROVE TypeOK'
  BY <1>1, <1>5 DEF ConnectPerform, Unlocks, TypeOK, watch, executor, easy, network, history
<1>6. ASSUME NEW t \in Threads, ConnectDone(t) PROVE TypeOK'
  BY <1>1, <1>2, <1>6 DEF ConnectDone, TypeOK, watch, executor, easy, history
<1>7. ASSUME NEW t \in Threads, ConnectFails(t) PROVE TypeOK'
  <2>1. m_queue' \in Seq(Closure) /\ wake' \in BOOLEAN
    BY <1>1, <1>7, PushTyped DEF ConnectFails
  <2> QED
    BY <1>7, <2>1 DEF ConnectFails, TypeOK, watch, easy, client, network, history
<1>8. ASSUME NEW t \in Threads, ConnectUndone(t) PROVE TypeOK'
  BY <1>8 DEF ConnectUndone, TypeOK, watch, executor, easy, client, network, history
<1> QED
  BY <1>3, <1>4, <1>5, <1>6, <1>7, <1>8

LEMMA TypeDisconnect ==
  ASSUME TypeOK,
         \/ \E a \in Closers : DisconnectInline(a)
         \/ \E t \in Threads : Disconnect(t) \/ DisconnectEnd(t)
  PROVE  TypeOK'
<1>1. /\ MaxCalls \in Nat /\ None \notin Threads /\ None # Worker /\ Worker \notin Threads
      /\ \A t \in Threads : [what |-> "remove", by |-> t] \in Closure
  BY ClientAssumption, Nobody DEF Closure
<1>2. Cancel \in Closure
  BY DEF Cancel, Closure, TypeOK
<1>3. TakesHandlers => handler' \in [Dirs -> Handler]
  BY Handlers DEF TakesHandlers
<1>4. Reset => paused' = {} /\ wanted' = {} /\ m_is_connected' \in BOOLEAN /\ cut' \subseteq Dirs
  BY DEF Reset, TypeOK
<1>5. ASSUME NEW a \in Closers, DisconnectInline(a) PROVE TypeOK'
  <2>1. m_queue' \in Seq(Closure) /\ wake' \in BOOLEAN
    BY <1>2, <1>5, PushTyped DEF DisconnectInline
  <2>2. /\ handler' \in [Dirs -> Handler] /\ attached' \in BOOLEAN
        /\ paused' \subseteq Dirs /\ wanted' \subseteq Dirs
        /\ m_is_connected' \in BOOLEAN /\ cut' \subseteq Dirs
        /\ UNCHANGED <<network, busy, owed, torn>>
    BY <1>3, <1>4, <1>5 DEF DisconnectInline
  <2>3. /\ calls' \in 0..MaxCalls /\ UNCHANGED <<watch, m_mtx, tpc>>
        /\ m_mtx = None /\ wpc' \in {wpc, "run"}
    BY <1>1, <1>5 DEF DisconnectInline, Call, TypeOK
  <2> QED
    BY <1>1, <2>1, <2>2, <2>3 DEF TypeOK, watch, network
<1>6. ASSUME NEW t \in Threads, Disconnect(t) PROVE TypeOK'
  <2>1. m_queue' \in Seq(Closure) /\ wake' \in BOOLEAN
    BY <1>1, <1>6, PushTyped DEF Disconnect
  <2> QED
    BY <1>1, <1>6, <2>1 DEF Disconnect, Settled, TypeOK, Actors, watch, easy, network, history
<1>7. ASSUME NEW t \in Threads, DisconnectEnd(t) PROVE TypeOK'
  <2>1. m_queue' \in Seq(Closure) /\ wake' \in BOOLEAN
    BY <1>2, <1>7, PushTyped DEF DisconnectEnd
  <2> QED
    BY <1>1, <1>3, <1>4, <1>7, <2>1 DEF DisconnectEnd, Unlocks, TypeOK, watch, network
<1> QED
  BY <1>5, <1>6, <1>7

LEMMA TakesTyped ==
  ASSUME TypeOK, NEW d \in Dirs, Takes(d)
  PROVE  /\ m_queue' \in Seq(Closure) /\ wake' \in BOOLEAN
         /\ handler' \in [Dirs -> Handler] /\ torn' \subseteq Dirs
<1>1. m_queue' \in Seq(Closure)
  <2>1. CancelOne(d) \in Seq(Closure)
    BY CancelOneIs DEF TypeOK
  <2> QED
    BY <2>1, Concatenated DEF Takes, TypeOK
<1>2. wake' \in BOOLEAN /\ torn' \subseteq Dirs
  BY DEF Takes, TypeOK
<1>3. handler' \in [Dirs -> Handler]
  BY Handlers DEF Takes, TypeOK
<1> QED
  BY <1>1, <1>2, <1>3

LEMMA TypeDestroy ==
  ASSUME TypeOK, NEW t \in Threads, Destroy(t) \/ DestroyTakesSend(t) \/ DestroyEnd(t)
  PROVE  TypeOK'
<1> DEFINE Held == {"adding", "added", "removing", "removed"}
<1>1. ASSUME NEW pc \in {"taking", "taken", "destroying", "gone"}, tpc[t] \notin Held,
             tpc' = [tpc EXCEPT ![t] = pc], m_mtx' = m_mtx
      PROVE  /\ tpc' \in [Threads -> {"idle", "adding", "added", "performing", "undoing", "undone",
                                       "removing", "removed", "taking", "taken", "destroying", "gone"}]
             /\ \A u \in Threads : m_mtx' = u <=> tpc'[u] \in Held
  BY <1>1 DEF TypeOK
<1>2. CASE Destroy(t)
  <2>1. /\ m_queue' \in Seq(Closure) /\ wake' \in BOOLEAN
        /\ handler' \in [Dirs -> Handler] /\ torn' \subseteq Dirs
    BY <1>2, TakesTyped DEF Destroy, Dirs
  <2>2. cut' \subseteq Dirs
    BY <1>2 DEF Destroy, TypeOK
  <2>3. /\ tpc[t] \notin Held /\ tpc' = [tpc EXCEPT ![t] = "taking"]
        /\ UNCHANGED <<wpc, watch, easy, m_is_connected, m_mtx, calls, network, busy, owed, wanted>>
    BY <1>2 DEF Destroy, Settled
  <2> QED
    BY <1>1, <2>1, <2>2, <2>3 DEF TypeOK, watch, easy, network
<1>3. CASE DestroyTakesSend(t)
  <2>1. /\ m_queue' \in Seq(Closure) /\ wake' \in BOOLEAN
        /\ handler' \in [Dirs -> Handler] /\ torn' \subseteq Dirs
    BY <1>3, TakesTyped DEF DestroyTakesSend, Dirs
  <2>2. /\ tpc[t] \notin Held /\ tpc' = [tpc EXCEPT ![t] = "taken"]
        /\ UNCHANGED <<wpc, watch, easy, m_is_connected, m_mtx, calls, network, busy, owed, cut, wanted>>
    BY <1>3 DEF DestroyTakesSend
  <2> QED
    BY <1>1, <2>1, <2>2 DEF TypeOK, watch, easy, network
<1>4. CASE DestroyEnd(t)
  <2>1. [what |-> "remove", by |-> t] \in Closure
    BY DEF Closure
  <2>2. m_queue' \in Seq(Closure) /\ wake' \in BOOLEAN
    BY <1>4, <2>1, PushTyped DEF DestroyEnd, TypeOK, executor
  <2>3. PICK pc \in {"destroying", "gone"} : tpc' = [tpc EXCEPT ![t] = pc]
    BY <1>4 DEF DestroyEnd
  <2>4. /\ tpc[t] \notin Held
        /\ UNCHANGED <<wpc, watch, easy, client, calls, network, history>>
    BY <1>4 DEF DestroyEnd
  <2> QED
    BY <1>1, <2>2, <2>3, <2>4 DEF TypeOK, watch, easy, client, network, history
<1> QED
  BY <1>2, <1>3, <1>4

(* The worker: a closure is popped in the state "drain".                     *)
LEMMA PopTyped ==
  ASSUME TypeOK, NEW what, Pop(what)
  PROVE  /\ m_queue \in Seq(Closure) /\ m_queue # <<>> /\ Tail(m_queue) \in Seq(Closure)
         /\ Head(m_queue) \in Closure /\ Head(m_queue).what = what
         /\ 1 \in 1..Len(m_queue) /\ m_queue[1] = Head(m_queue)
  BY HeadTailProperties, TailOrder DEF Pop, TypeOK

LEMMA ClosureFields ==
  ASSUME NEW c \in Closure
  PROVE  /\ c.what \in {"result", "cancel", "add", "remove", "empty"}
         /\ c.what = "result" => c.dir \in Dirs /\ c.n \in Nat /\ c.want \in Nat
         /\ c.what = "cancel" => c.held \in [Dirs -> Handler]
         /\ c.what \in {"add", "remove"} => c.by \in Threads
  BY DEF Closure

LEMMA TypeClosures ==
  ASSUME TypeOK, Turns, W_Result \/ W_Empty \/ W_Cancel \/ W_Add \/ W_Remove
  PROVE  TypeOK'
<1>a. /\ MaxCalls \in Nat /\ None \notin Threads /\ None # Worker /\ Worker \notin Threads
  BY ClientAssumption, Nobody
<1>1. CASE W_Result
  <2>1. Pop("result")
    BY <1>1 DEF W_Result
  <2> DEFINE d == Head(m_queue).dir
  <2>2. Tail(m_queue) \in Seq(Closure) /\ d \in Dirs /\ Head(m_queue).n \in Nat
    BY <2>1, PopTyped, ClosureFields
  <2>3. owed' \in [Dirs -> Int]
    BY <1>1, <2>2 DEF W_Result, TypeOK
  <2> QED
    BY <1>1, <2>1, <2>2, <2>3 DEF W_Result, Pop, TypeOK, watch, easy, client, threads, network
<1>2. CASE W_Cancel
  <2>1. Pop("cancel")
    BY <1>2 DEF W_Cancel
  <2>2. Head(m_queue).held \in [Dirs -> Handler] /\ Tail(m_queue) \in Seq(Closure)
    BY <2>1, PopTyped, ClosureFields
  <2>3. m_queue' \in Seq(Closure)
    BY <1>2, <2>2, Cancelled, Concatenated DEF W_Cancel, Dirs
  <2> QED
    BY <1>2, <2>1, <2>3 DEF W_Cancel, Pop, TypeOK, watch, easy, client, threads, network, history
<1>3. CASE W_Add
  <2>1. Pop("add")
    BY <1>3 DEF W_Add
  <2>2. PICK t \in Threads : t = Head(m_queue).by /\ Tail(m_queue) \in Seq(Closure) /\ tpc[t] = "adding"
    BY <2>1, PopTyped, ClosureFields DEF Turns
  <2>3. tpc' = [tpc EXCEPT ![t] = "added"]
    BY <1>3, <2>2 DEF W_Add
  <2>4. /\ m_queue' \in Seq(Closure) /\ attached' \in BOOLEAN
        /\ UNCHANGED <<wpc, interest, revents, wake, paused, m_mtx, m_is_connected, handler, wanted,
                       calls, socket, coming, peer, busy, owed, cut, torn>>
    BY <1>3, <2>2 DEF W_Add, watch, client, network, history
  <2>5. /\ tpc' \in [Threads -> {"idle", "adding", "added", "performing", "undoing", "undone",
                                 "removing", "removed", "taking", "taken", "destroying", "gone"}]
        /\ \A u \in Threads : m_mtx = u <=> tpc'[u] \in {"adding", "added", "removing", "removed"}
    BY <2>2, <2>3 DEF TypeOK
  <2> QED
    BY <2>4, <2>5 DEF TypeOK
<1>4. CASE W_Remove
  <2>1. Pop("remove")
    BY <1>4 DEF W_Remove
  <2>2. PICK t \in Threads : /\ t = Head(m_queue).by /\ Tail(m_queue) \in Seq(Closure)
                             /\ tpc[t] \in {"removing", "undoing", "destroying"}
    BY <2>1, PopTyped, ClosureFields DEF Turns
  <2>3. PICK next \in {"removed", "undone", "gone"} :
          tpc' = [tpc EXCEPT ![t] = next] /\ (next = "removed" <=> tpc[t] = "removing")
    BY <1>4, <2>2 DEF W_Remove, TypeOK
  <2>4. /\ m_queue' \in Seq(Closure) /\ attached' \in BOOLEAN
        /\ UNCHANGED <<wpc, interest, revents, wake, paused, m_mtx, m_is_connected, handler, wanted,
                       calls, socket, coming, peer, busy, owed, cut, torn>>
    BY <1>4, <2>2 DEF W_Remove, watch, client, network, history
  <2>5. /\ tpc' \in [Threads -> {"idle", "adding", "added", "performing", "undoing", "undone",
                                 "removing", "removed", "taking", "taken", "destroying", "gone"}]
        /\ \A u \in Threads : m_mtx = u <=> tpc'[u] \in {"adding", "added", "removing", "removed"}
    BY <2>2, <2>3 DEF TypeOK
  <2> QED
    BY <2>4, <2>5 DEF TypeOK
<1>5. CASE W_Empty
  <2>1. Tail(m_queue) \in Seq(Closure) /\ wpc = "drain"
    BY <1>5, PopTyped DEF W_Empty, Pop
  <2> QED
    BY <1>5, <2>1 DEF W_Empty, TypeOK, watch, easy, client, threads, network, history
<1> QED
  BY <1>1, <1>2, <1>3, <1>4, <1>5

LEMMA TypeWorker ==
  ASSUME TypeOK,
         \/ W_Call \/ IsConnected \/ W_Return \/ W_Prepare \/ W_Poll
         \/ W_CallbackIdle \/ W_Callback \/ W_CallbackOp \/ W_CallbackUser \/ W_CallbackThrows
         \/ W_Clear \/ W_Pause
  PROVE  TypeOK'
<1>1. MaxCalls \in Nat /\ None \notin Threads /\ None # Worker /\ Worker \notin Threads
  BY ClientAssumption, Nobody
<1>2. CASE W_Call
  BY <1>2 DEF W_Call, TypeOK, watch, executor, easy, client, threads, network, history
<1>3. CASE IsConnected
  BY <1>1, <1>3 DEF IsConnected, TypeOK, watch, executor, easy, client, network, history
<1>4. CASE W_Return
  BY <1>4 DEF W_Return, TypeOK, watch, executor, easy, client, threads, network, history
<1>5. CASE W_Prepare
  <2>1. interest' \subseteq Dirs
    BY <1>5 DEF W_Prepare, TypeOK
  <2> QED
    BY <1>5, <2>1 DEF W_Prepare, TypeOK, executor, easy, client, threads, network, history
<1>6. CASE W_Poll
  <2>1. PICK spurious \in SUBSET interest : revents' = {d \in interest : Ready(d)} \cup spurious
    BY <1>6 DEF W_Poll
  <2> QED
    BY <1>6, <2>1 DEF W_Poll, TypeOK, easy, client, threads, network, history
<1>7. wpc \in {"callback", "called", "clearing", "pausing"} => Side \in Dirs /\ Side \in revents
  BY DEF TypeOK, Side, Dirs
<1>8. ASSUME NEW pause \in BOOLEAN, CallbackReturns(pause),
             wpc \in {"callback", "called", "clearing"}, m_mtx \notin Threads
      PROVE  /\ wpc' \in {"pausing", "drain"} /\ wanted' \subseteq Dirs
             /\ m_mtx' = None /\ revents # {}
             /\ \A u \in Threads : m_mtx' = u <=> tpc[u] \in {"adding", "added", "removing", "removed"}
             /\ UNCHANGED <<watch, wake, easy, m_is_connected, threads, busy, cut, torn>>
  BY <1>1, <1>8 DEF CallbackReturns, TypeOK
<1>a. wpc \in {"called", "clearing"} => m_mtx = Worker
  BY DEF TypeOK
<1>9. CASE W_CallbackIdle
  BY <1>1, <1>8, <1>9 DEF W_CallbackIdle, TypeOK, watch, easy, threads, network
<1>b. CASE W_Callback
  <2>1. /\ m_mtx' = Worker
        /\ \A u \in Threads : m_mtx' = u <=> tpc[u] \in {"adding", "added", "removing", "removed"}
    BY <1>1, <1>b DEF W_Callback, TypeOK
  <2> QED
    BY <1>b, <2>1 DEF W_Callback, TypeOK, Actors, watch, executor, easy, threads, network, history
<1>c. CASE W_Clear
  <2>1. handler' \in [Dirs -> Handler]
    BY <1>c, Handlers DEF W_Clear, Clears, TypeOK
  <2> QED
    BY <1>1, <1>8, <1>a, <1>c, <2>1 DEF W_Clear, TypeOK, watch, easy, threads, network
<1>10. CASE W_CallbackOp
  <2> DEFINE h == handler[Side]
  <2>1. /\ wpc = "called" /\ m_mtx = Worker
        /\ Side \in Dirs /\ h \in Handler /\ Operation(h) /\ h.kind \in {"one", "all"}
    BY <1>7, <1>a, <1>10 DEF W_CallbackOp, TypeOK, Operation
  <2>2. h.size \in Nat /\ h.got \in Nat /\ Want(h.kind, h.size) \in Nat
    BY <2>1, Handlers
  <2>3. PICK n \in Outcomes(Side, h.size - h.got) :
          /\ Moves(Side, n)
          /\ IF Satisfied(h.kind, h.size, h.got, n)
               THEN /\ m_queue' = Append(m_queue, Result(Side, h.got + n, Want(h.kind, h.size)))
                    /\ handler' = [handler EXCEPT ![Side] = Ran(h)]
                    /\ wpc' = "clearing"
                    /\ UNCHANGED <<watch, wake, easy, m_is_connected, m_mtx, threads,
                                   busy, cut, wanted, torn>>
               ELSE /\ handler' = [handler EXCEPT ![Side].got = @ + Moved(n)]
                    /\ CallbackReturns(FALSE)
                    /\ UNCHANGED m_queue
    BY <1>10 DEF W_CallbackOp
  <2>4. /\ socket' \in [Dirs -> Nat] /\ owed' \in [Dirs -> Int] /\ UNCHANGED <<coming, peer>>
        /\ Moved(n) \in Nat /\ (n # -1 => n \in Nat)
    BY <2>1, <2>2, <2>3, Outcome, MovesTyped
  <2>5. CASE Satisfied(h.kind, h.size, h.got, n)
    <3>1. h.got + n \in Nat
      BY <2>1, <2>2, <2>4, <2>5, ClientAssumption DEF Satisfied
    <3>2. m_queue' \in Seq(Closure)
      <4>1. Result(Side, h.got + n, Want(h.kind, h.size)) \in Closure
        BY <2>1, <2>2, <3>1, ResultTyped
      <4>2. m_queue' = Append(m_queue, Result(Side, h.got + n, Want(h.kind, h.size)))
        BY <2>3, <2>5
      <4> QED
        BY <4>1, <4>2, AppendProperties DEF TypeOK
    <3>3. handler' \in [Dirs -> Handler]
      BY <2>1, <2>3, <2>5, Handlers DEF TypeOK
    <3> QED
      BY <1>1, <2>1, <2>3, <2>4, <2>5, <3>2, <3>3 DEF TypeOK, watch, easy, threads
  <2>6. CASE ~Satisfied(h.kind, h.size, h.got, n)
    <3>1. [h EXCEPT !.got = @ + Moved(n)] \in Handler
      BY <2>1, <2>2, <2>4, HandlerGains
    <3>2. handler' \in [Dirs -> Handler]
      BY <2>1, <2>3, <2>6, <3>1 DEF TypeOK
    <3> QED
      BY <1>1, <1>8, <2>1, <2>3, <2>4, <2>6, <3>2 DEF TypeOK, watch, easy, threads
  <2> QED
    BY <2>5, <2>6
<1>11. CASE W_CallbackUser
  <2>1. PICK n \in 0..socket[Side] : socket' = [socket EXCEPT ![Side] = @ - n]
    BY <1>11 DEF W_CallbackUser
  <2>2. socket' \in [Dirs -> Nat]
    BY <1>7, <1>11, <2>1 DEF W_CallbackUser, TypeOK
  <2>3. handler' \in [Dirs -> Handler]
    <3>1. handler' = handler \/ handler' = [handler EXCEPT ![Side] = NoHandler]
      BY <1>11 DEF W_CallbackUser, Clears
    <3>2. handler \in [Dirs -> Handler] /\ NoHandler \in Handler
      BY Handlers DEF TypeOK
    <3> QED
      BY <3>1, <3>2
  <2>4. \E pause \in BOOLEAN : CallbackReturns(pause)
    BY <1>11 DEF W_CallbackUser
  <2> QED
    BY <1>1, <1>8, <1>a, <1>11, <2>2, <2>3, <2>4 DEF W_CallbackUser, TypeOK, watch, easy, threads
<1>12. CASE W_CallbackThrows
  BY <1>1, <1>a, <1>12 DEF W_CallbackThrows, TypeOK, watch, executor, easy, client, threads, network, history
<1>13. CASE W_Pause
  <2>1. paused' \subseteq Dirs
    BY <1>7, <1>13 DEF W_Pause, Pause, TypeOK
  <2> QED
    BY <1>13, <2>1 DEF W_Pause, TypeOK, watch, executor, client, threads, network, history
<1> QED
  BY <1>2, <1>3, <1>4, <1>5, <1>6, <1>9, <1>b, <1>c, <1>10, <1>11, <1>12, <1>13

LEMMA TypePeer == TypeOK /\ Peer => TypeOK'
<1> SUFFICES ASSUME TypeOK, Peer PROVE TypeOK'
  OBVIOUS
<1>1. Stream \in Nat /\ Window \in Nat
  BY ClientAssumption
<1>2. /\ socket' \in [Dirs -> Nat] /\ coming' \in 0..Stream
      /\ peer' \in {"open", "closed", "reset"} /\ cut' \subseteq Dirs
  BY <1>1 DEF Peer, PeerSend, PeerClose, PeerReset, PeerRead, TypeOK, history
<1>3. UNCHANGED <<wpc, watch, executor, easy, client, threads, busy, owed, wanted, torn>>
  BY DEF Peer, PeerSend, PeerClose, PeerReset, PeerRead, history
<1> QED
  BY <1>2, <1>3 DEF TypeOK, watch, executor, easy, client, threads

LEMMA TypeStep ==
  ASSUME TypeOK, Turns, [Next]_vars
  PROVE  TypeOK'
<1>1. CASE Alive /\ UserCall
  BY <1>1, ClientAssumption, TypeStarts, TypeObserver, TypeConnect, TypeDisconnect, TypeDestroy DEF UserCall
<1>2. ASSUME NEW t \in Threads, Continue(t) PROVE TypeOK'
  BY <1>2, TypeConnect, TypeDisconnect, TypeDestroy DEF Continue
<1>3. CASE W_Call \/ WorkerStep
  BY <1>3, TypeClosures, TypeWorker DEF WorkerStep
<1>4. CASE Peer
  BY <1>4, TypePeer
<1>5. CASE UNCHANGED vars
  BY <1>5 DEF vars, TypeOK, watch, executor, easy, client, threads, network, history
<1> QED
  BY <1>1, <1>2, <1>3, <1>4, <1>5 DEF Next, Terminated

-------------------------------------------------------------------------------
(* Every action leaves each operation with one owner.                        *)

LEMMA Undisturbed ==
  ASSUME NEW d \in Dirs, Owned(d), Spares(m_queue, m_queue', d),
         Armed(d)' <=> Armed(d), Armed(d) => handler'[d] = handler[d],
         owed'[d] = owed[d], d \in busy' <=> d \in busy, d \in cut => d \in cut',
         Armed(d) /\ m_is_connected => m_is_connected'
  PROVE  Owned(d)'
<1>1. \A i \in 1..Len(m_queue') : Stands(m_queue'[i], d) => Knows(m_queue[i], d)'
  <2> SUFFICES ASSUME NEW i \in 1..Len(m_queue'), Stands(m_queue'[i], d)
               PROVE  Knows(m_queue[i], d)'
    OBVIOUS
  <2>1. PICK j \in 1..Len(m_queue) : m_queue'[i] = m_queue[j]
    BY DEF Spares
  <2>2. Knows(m_queue[j], d)
    BY <2>1 DEF Owned
  <2> QED
    BY <2>1, <2>2 DEF Knows
<1> QED
  BY <1>1 DEF Owned, Spares

(* The queued closures s are the operation's new owner.                      *)
LEMMA Handed ==
  ASSUME NEW d \in Dirs, Single(m_queue', d), NEW s,
         \A i \in 1..Len(m_queue') : Stands(m_queue'[i], d) => \E j \in 1..Len(s) : m_queue'[i] = s[j],
         \A j \in 1..Len(s) : Stands(s[j], d) => Knows(s[j], d)',
         ~Armed(d)', d \in busy'
  PROVE  Owned(d)'
<1>1. ASSUME NEW i \in 1..Len(m_queue'), Stands(m_queue'[i], d)
      PROVE  Knows(m_queue[i], d)'
  <2>1. PICK j \in 1..Len(s) : m_queue'[i] = s[j]
    BY <1>1
  <2>2. Knows(s[j], d)'
    BY <1>1, <2>1
  <2> QED
    BY <2>1, <2>2 DEF Knows
<1> QED
  BY <1>1 DEF Owned

LEMMA Undisturbing ==
  ASSUME NEW d \in Dirs, Owned(d), UNCHANGED <<m_queue, owed, busy>>, cut \subseteq cut',
         Armed(d)' <=> Armed(d), Armed(d) => handler'[d] = handler[d],
         m_is_connected => m_is_connected'
  PROVE  Owned(d)'
<1>1. Spares(m_queue, m_queue', d)
  BY SparesItself
<1> QED
  BY <1>1, Undisturbed

LEMMA OwnedInit == Init => \A d \in Dirs : Owned(d)
<1> SUFFICES ASSUME Init, NEW d \in Dirs PROVE Owned(d)
  OBVIOUS
<1>1. Len(m_queue) = 0 /\ handler[d] = NoHandler /\ d \notin busy /\ owed[d] = 0
  BY DEF Init
<1> QED
  BY <1>1, Handlers DEF Owned, Armed, Free

LEMMA OwnedStarts ==
  ASSUME TypeOK, NEW e \in Dirs, Owned(e), m_is_connected \in BOOLEAN,
         NEW a \in Callers, NEW d \in Dirs, NEW kind \in {"one", "all"}, NEW size \in Sizes,
         StartDisconnected(a, d, kind, size) \/ StartInline(a, d, kind, size) \/ StartArmed(a, d, kind, size)
  PROVE  Owned(e)'
<1>1. size \in Nat /\ size > 0 /\ Want(kind, size) \in Nat
  BY ClientAssumption DEF Want
<1>2. /\ d \notin busy /\ handler[d] = NoHandler /\ ~Armed(d) /\ busy' = busy \cup {d}
      /\ cut' = cut \cup {d} \/ cut' = cut \ {d}
      /\ ~m_is_connected \/ (d = "recv" /\ peer = "closed") => d \in cut'
  BY Handlers DEF StartDisconnected, StartInline, StartArmed, Starts, Armed
<1>3. m_queue \in Seq(Closure) /\ handler \in [Dirs -> Handler]
  BY DEF TypeOK
<1>4. ASSUME NEW n \in Nat, m_queue' = Append(m_queue, Result(d, n, Want(kind, size))),
             UNCHANGED handler, m_is_connected' = m_is_connected,
             e # d => owed'[e] = owed[e], e = d => owed'[d] = n,
             n < Want(kind, size) => d \in cut'
      PROVE  Owned(e)'
  <2> DEFINE c == Result(d, n, Want(kind, size))
  <2>1. c \in Closure /\ c.what = "result" /\ c.dir = d /\ c.n = n /\ c.want = Want(kind, size)
    BY <1>1, ResultTyped DEF Result
  <2> HIDE DEF c
  <2>2. /\ m_queue' = m_queue \o <<c>>
        /\ <<c>> \in Seq(Closure) /\ Len(<<c>>) = 1 /\ <<c>>[1] = c
    BY <1>3, <1>4, <2>1, AppendedIs DEF c
  <2>3. \A b \in Dirs : Stands(c, b) <=> b = d
    BY <2>1 DEF Stands
  <2>4. CASE e # d
    <3>1. Free(<<c>>, e)
      BY <2>2, <2>3, <2>4 DEF Free
    <3>2. Spares(m_queue, m_queue', e)
      BY <1>3, <2>2, <3>1, AddedSpares
    <3>3. Armed(e)' <=> Armed(e)
      BY <1>4 DEF Armed
    <3> QED
      BY <1>2, <1>4, <2>4, <3>2, <3>3, Undisturbed
  <2>5. CASE e = d
    <3>1. Single(<<c>>, d)
      BY <2>2, <2>3 DEF Single
    <3>2. Free(m_queue, d)
      BY <1>2, <2>5 DEF Owned
    <3>3. /\ Single(m_queue', d)
          /\ \A i \in 1..Len(m_queue') : Stands(m_queue'[i], d) =>
               \E j \in 1..Len(<<c>>) : m_queue'[i] = <<c>>[j]
      BY <1>3, <2>2, <3>1, <3>2, AddedStands, ZenonT(60)
    <3>4. Knows(c, d)'
      BY <1>4, <2>1, <2>5 DEF Knows
    <3>5. ~Armed(d)' /\ d \in busy'
      BY <1>2, <1>4 DEF Armed
    <3>6. \A j \in 1..Len(<<c>>) : Stands(<<c>>[j], d) => Knows(<<c>>[j], d)'
      <4>1. \A j \in 1..Len(<<c>>) : <<c>>[j] = c
        BY <2>2
      <4> QED
        BY <3>4, <4>1 DEF Knows
    <3>7. Owned(d)'
      BY <3>3, <3>5, <3>6, Handed
    <3> QED
      BY <2>5, <3>7
  <2> QED
    BY <2>4, <2>5
<1>5. CASE StartDisconnected(a, d, kind, size)
  <2>1. /\ m_queue' = Append(m_queue, Result(d, 0, Want(kind, size))) /\ ~m_is_connected
        /\ UNCHANGED <<handler, m_is_connected, owed>>
    BY <1>5 DEF StartDisconnected, Push
  <2>2. e = d => owed'[d] = 0
    BY <1>2, <2>1 DEF Owned
  <2> QED
    BY <1>2, <1>4, <2>1, <2>2
<1>6. CASE StartInline(a, d, kind, size)
  <2>1. PICK n \in Outcomes(d, size) : /\ Satisfied(kind, size, 0, n) /\ Moves(d, n)
                                       /\ m_queue' = Append(m_queue, Result(d, n, Want(kind, size)))
    BY <1>6 DEF StartInline, Push
  <2>2. n # -1 /\ (kind = "all" => n = 0 \/ n = size)
    BY <1>1, <2>1, Outcome, SMTT(60) DEF Satisfied
  <2>3. n \in Nat /\ Bytes(n) = n /\ (n = 0 => d = "recv" /\ peer = "closed")
    BY <1>1, <2>1, <2>2, Outcome
  <2>4. n < Want(kind, size) => d \in cut'
    BY <1>1, <1>2, <2>2, <2>3 DEF Want
  <2>5. owed[d] \in Int /\ owed'[d] = owed[d] + n /\ (e # d => owed'[e] = owed[e])
    BY <1>1, <2>1, <2>3, MovesTyped, SMTT(60) DEF TypeOK
  <2>6. e = d => owed'[d] = n
    BY <1>2, <2>3, <2>5 DEF Owned
  <2>7. UNCHANGED handler /\ m_is_connected' = m_is_connected
    BY <1>6 DEF StartInline
  <2> QED
    BY <1>4, <2>1, <2>3, <2>4, <2>5, <2>6, <2>7, SMTT(60)
<1>7. CASE StartArmed(a, d, kind, size)
  <2>1. PICK n \in Outcomes(d, size) : /\ ~Satisfied(kind, size, 0, n) /\ Moves(d, n)
          /\ handler' = [handler EXCEPT ![d] = [kind |-> kind, size |-> size, got |-> Moved(n)]]
    BY <1>7 DEF StartArmed
  <2>2. Moved(n) \in Nat /\ owed[d] \in Int /\ owed'[d] = owed[d] + Moved(n) /\ (e # d => owed'[e] = owed[e])
    <3>1. Bytes(n) \in Nat /\ Moved(n) = Bytes(n)
      BY <1>1, <2>1, Outcome
    <3>2. owed'[d] = owed[d] + Bytes(n) /\ \A b \in Dirs : b # d => owed'[b] = owed[b]
      BY <1>1, <2>1, MovesTyped
    <3> QED
      BY <3>1, <3>2 DEF TypeOK
  <2>3. m_is_connected /\ UNCHANGED <<m_queue, m_is_connected>>
    BY <1>7 DEF StartArmed
  <2>4. CASE e # d
    <3>1. handler'[e] = handler[e]
      BY <1>3, <2>1, <2>4
    <3>2. Armed(e)' <=> Armed(e)
      BY <3>1 DEF Armed
    <3> QED
      BY <1>2, <2>2, <2>3, <2>4, <3>1, <3>2, SparesItself, Undisturbed
  <2>5. CASE e = d
    <3>1. handler'[d].got = Moved(n) /\ Free(m_queue, d) /\ owed[d] = 0
      BY <1>2, <1>3, <2>1, <2>5 DEF Owned
    <3>2. Free(m_queue, d)' /\ d \in busy' /\ m_is_connected'
      BY <1>2, <2>3, <3>1 DEF Free
    <3>3. Armed(d)' /\ handler'[d].kind = kind /\ handler'[d].size = size
      BY <1>3, <2>1 DEF Armed, Operation
    <3>4. kind = "all" => Moved(n) < size
      <4>1. n \in Int /\ (n > 0 => n <= size) /\ Moved(n) = Bytes(n)
        BY <1>1, Outcome
      <4> QED
        BY <1>1, <2>1, <4>1 DEF Satisfied, Bytes
    <3> QED
      BY <2>2, <2>5, <3>1, <3>2, <3>3, <3>4 DEF Owned, Free
  <2> QED
    BY <2>4, <2>5
<1> QED
  BY <1>5, <1>6, <1>7

KeepsArmed(d) == (Armed(d)' <=> Armed(d)) /\ (Armed(d) => handler'[d] = handler[d])

(* The actions that neither move an operation nor its bytes.                 *)
LEMMA OwnedQuiet ==
  ASSUME TypeOK, NEW d \in Dirs, Owned(d), wpc = "clearing" => ~Armed(Side),
         \/ \E a \in Observers : SetOnDataAvailable(a) \/ RecvRaw(a) \/ \E pause \in BOOLEAN : PauseReceive(a, pause)
         \/ \E ok \in BOOLEAN : ConnectOnWorker(ok)
         \/ \E t \in Threads : \/ ConnectPerform(t) \/ ConnectDone(t) \/ ConnectUndone(t)
                               \/ DestroyEnd(t) /\ ~attached
         \/ W_Call \/ IsConnected \/ W_Return \/ W_Prepare \/ W_Poll
         \/ W_CallbackIdle \/ W_Callback \/ W_CallbackUser \/ W_CallbackThrows \/ W_Clear \/ W_Pause
         \/ Peer \/ UNCHANGED vars
  PROVE  Owned(d)'
<1> USE DEF watch, executor, easy, client, threads, network, history
<1>1. SUFFICES /\ UNCHANGED <<m_queue, owed, busy>> /\ cut \subseteq cut'
               /\ KeepsArmed(d)
               /\ m_is_connected => m_is_connected'
  BY Undisturbing DEF KeepsArmed
<1>2. handler \in [Dirs -> Handler] /\ "recv" \in Dirs
  BY DEF TypeOK, Dirs
<1>3. UNCHANGED handler => KeepsArmed(d)
  BY DEF Armed, KeepsArmed
<1>4. ASSUME NEW a \in Observers, SetOnDataAvailable(a)
      PROVE  KeepsArmed(d)
  <2>1. CASE d = "recv"
    <3>1. ~Armed(d)
      BY <1>4, <2>1 DEF SetOnDataAvailable, Owned
    <3>2. handler'[d].kind = "user"
      BY <1>2, <1>4, <2>1 DEF SetOnDataAvailable
    <3> QED
      BY <3>1, <3>2 DEF Armed, Operation, KeepsArmed
  <2>2. CASE d # "recv"
    BY <1>2, <1>4, <2>2 DEF SetOnDataAvailable, Armed, KeepsArmed
  <2> QED
    BY <2>1, <2>2
<1>5. ASSUME W_CallbackUser
      PROVE  KeepsArmed(d)
  <2>1. UNCHANGED handler \/ Clears(Side)
    BY <1>5 DEF W_CallbackUser
  <2>2. CASE Clears(Side) /\ d = Side
    <3>1. handler[d].kind = "user" /\ handler'[d] = NoHandler
      BY <1>2, <1>5, <2>2 DEF W_CallbackUser, Clears
    <3> QED
      BY <3>1, Handlers DEF Armed, Operation, KeepsArmed
  <2>3. CASE Clears(Side) /\ d # Side
    BY <1>2, <2>3 DEF Clears, Armed, KeepsArmed
  <2> QED
    BY <1>3, <2>1, <2>2, <2>3
<1>a. ASSUME W_Clear
      PROVE  KeepsArmed(d)
  <2>1. handler' = [handler EXCEPT ![Side] = NoHandler] /\ ~Armed(Side)
    BY <1>a DEF W_Clear, Clears
  <2>2. CASE d = Side
    BY <1>2, <2>1, <2>2, Handlers DEF Armed, KeepsArmed
  <2>3. CASE d # Side
    BY <1>2, <2>1, <2>3 DEF Armed, KeepsArmed
  <2> QED
    BY <2>2, <2>3
<1>6. ASSUME NEW a \in Observers, SetOnDataAvailable(a) \/ RecvRaw(a) \/ \E pause \in BOOLEAN : PauseReceive(a, pause)
      PROVE  UNCHANGED <<m_queue, owed, busy, cut, m_is_connected>> /\ (UNCHANGED handler \/ SetOnDataAvailable(a))
  BY <1>6 DEF SetOnDataAvailable, RecvRaw, PauseReceive
<1>7. ASSUME NEW ok \in BOOLEAN, ConnectOnWorker(ok)
      PROVE  UNCHANGED <<m_queue, owed, busy, cut, handler>> /\ ~m_is_connected
  BY <1>7 DEF ConnectOnWorker
<1>8. ASSUME NEW t \in Threads, \/ ConnectPerform(t) \/ ConnectDone(t) \/ ConnectUndone(t)
                                \/ DestroyEnd(t) /\ ~attached
      PROVE  UNCHANGED <<m_queue, owed, busy, cut, handler>> /\ (m_is_connected => m_is_connected')
  BY <1>8 DEF ConnectPerform, ConnectDone, ConnectUndone, DestroyEnd
<1>9. ASSUME \/ W_Call \/ IsConnected \/ W_Return \/ W_Prepare \/ W_Poll
             \/ W_Callback \/ W_CallbackThrows \/ W_Pause
      PROVE  UNCHANGED <<m_queue, owed, busy, cut, handler, m_is_connected>>
  BY <1>9 DEF W_Call, IsConnected, W_Return, W_Prepare, W_Poll, W_Callback, W_CallbackThrows, W_Pause
<1>10. ASSUME W_CallbackIdle \/ W_CallbackUser \/ W_Clear
       PROVE  /\ UNCHANGED <<m_queue, owed, busy, cut, m_is_connected>>
              /\ UNCHANGED handler \/ W_CallbackUser \/ W_Clear
  BY <1>10 DEF W_CallbackIdle, W_CallbackUser, W_Clear, CallbackReturns
<1>11. ASSUME Peer
       PROVE  UNCHANGED <<m_queue, owed, busy, handler, m_is_connected>> /\ cut \subseteq cut'
  BY <1>11 DEF Peer, PeerSend, PeerClose, PeerReset, PeerRead
<1>12. ASSUME UNCHANGED vars
       PROVE  UNCHANGED <<m_queue, owed, busy, cut, handler, m_is_connected>>
  BY <1>12 DEF vars
<1> QED
  BY <1>3, <1>4, <1>5, <1>a, <1>6, <1>7, <1>8, <1>9, <1>10, <1>11, <1>12

(* The calls of other threads that queue a closure and wait for it.          *)
LEMMA OwnedWaits ==
  ASSUME TypeOK, NEW d \in Dirs, Owned(d), NEW t \in Threads,
         Connect(t) \/ ConnectFails(t) \/ Disconnect(t) \/ (DestroyEnd(t) /\ attached)
  PROVE  Owned(d)'
<1>1. PICK what \in {"add", "remove"} : m_queue' = Append(m_queue, [what |-> what, by |-> t])
  BY DEF Connect, ConnectFails, Disconnect, DestroyEnd, Push
<1> DEFINE c == [what |-> what, by |-> t]
<1>2. c \in Closure /\ ~Stands(c, d) /\ m_queue \in Seq(Closure)
  BY DEF Closure, Stands, TypeOK
<1>3. m_queue' = m_queue \o <<c>> /\ <<c>> \in Seq(Closure) /\ Len(<<c>>) = 1 /\ <<c>>[1] = c
  BY <1>1, <1>2, AppendedIs
<1> HIDE DEF c
<1>4. Spares(m_queue, m_queue', d)
  <2>1. Free(<<c>>, d)
    BY <1>2, <1>3 DEF Free
  <2> QED
    BY <1>2, <1>3, <2>1, AddedSpares
<1>5. UNCHANGED <<handler, owed, busy, cut, m_is_connected>>
  BY DEF Connect, ConnectFails, Disconnect, DestroyEnd, client, history
<1> QED
  BY <1>4, <1>5, Undisturbed DEF Armed

(* The handlers go into a closure that cancels them.                         *)
LEMMA OwnedCancels ==
  ASSUME TypeOK, NEW d \in Dirs, Owned(d),
         \/ \E a \in Closers : DisconnectInline(a)
         \/ \E t \in Threads : DisconnectEnd(t)
  PROVE  Owned(d)'
<1>1. PICK s \in Seq(Closure) :
        /\ m_queue' = m_queue \o s
        /\ ~Armed(d) => Free(s, d)
        /\ Armed(d) => Single(s, d)
        /\ \A i \in 1..Len(s) : Stands(s[i], d) => s[i].what = "cancel" /\ s[i].held[d] = handler[d]
  <2>1. handler \in [Dirs -> Handler] /\ m_queue \in Seq(Closure)
    BY DEF TypeOK
  <2>2. Cancel \in Closure /\ Cancel.what = "cancel" /\ Cancel.held = handler
    BY <2>1 DEF Cancel, Closure
  <2>3. Stands(Cancel, d) <=> Armed(d)
    BY <2>2 DEF Stands, Armed
  <2>4. m_queue' = Append(m_queue, Cancel)
    BY DEF DisconnectInline, DisconnectEnd, Push
  <2>5. /\ m_queue' = m_queue \o <<Cancel>>
        /\ <<Cancel>> \in Seq(Closure) /\ Len(<<Cancel>>) = 1 /\ <<Cancel>>[1] = Cancel
    BY <2>1, <2>2, <2>4, AppendedIs
  <2>6. /\ ~Armed(d) => Free(<<Cancel>>, d)
        /\ Armed(d) => Single(<<Cancel>>, d)
    BY <2>3, <2>5 DEF Free, Single
  <2>7. \A i \in 1..Len(<<Cancel>>) :
          <<Cancel>>[i].what = "cancel" /\ <<Cancel>>[i].held[d] = handler[d]
    BY <2>2, <2>5
  <2>8. <<Cancel>> \in Seq(Closure)
    BY <2>5
  <2> QED
    BY <2>5, <2>6, <2>7, <2>8
<1>2. /\ UNCHANGED <<busy, owed>> /\ cut' = cut \cup busy
      /\ handler' = [c \in Dirs |-> NoHandler]
  BY DEF DisconnectInline, DisconnectEnd, Reset, TakesHandlers
<1>3. ~Armed(d)' /\ m_queue \in Seq(Closure)
  BY <1>2, Handlers DEF Armed, TypeOK
<1>4. CASE Armed(d)
  <2>1. d \in busy /\ Free(m_queue, d) /\ handler[d].got = owed[d]
    BY <1>4 DEF Owned
  <2>2. /\ Single(m_queue', d)
        /\ \A i \in 1..Len(m_queue') : Stands(m_queue'[i], d) => \E j \in 1..Len(s) : m_queue'[i] = s[j]
    BY <1>1, <1>3, <1>4, <2>1, AddedStands
  <2>3. \A j \in 1..Len(s) : Stands(s[j], d) => Knows(s[j], d)'
    BY <1>1, <1>2, <2>1 DEF Knows
  <2> QED
    BY <1>2, <1>3, <2>1, <2>2, <2>3, Handed
<1>5. CASE ~Armed(d)
  <2>1. Spares(m_queue, m_queue', d)
    BY <1>1, <1>3, <1>5, AddedSpares
  <2> QED
    BY <1>2, <1>3, <1>5, <2>1, Undisturbed
<1> QED
  BY <1>4, <1>5

(* The destructor takes the handler of one direction.                        *)
LEMMA OwnedTakes ==
  ASSUME TypeOK, Ending, NEW d \in Dirs, Owned(d),
         NEW t \in Threads, Destroy(t) \/ DestroyTakesSend(t)
  PROVE  Owned(d)'
<1>1. PICK c \in Dirs : Takes(c)
  BY DEF Destroy, DestroyTakesSend, Dirs
<1>2. /\ UNCHANGED <<busy, owed, m_is_connected>> /\ cut \subseteq cut'
      /\ d \in busy => d \in cut'
  <2>1. DestroyTakesSend(t) => ~InUse
    BY DEF DestroyTakesSend, InUse
  <2> QED
    BY <2>1 DEF Destroy, DestroyTakesSend, Ending
<1>3. handler \in [Dirs -> Handler] /\ m_queue \in Seq(Closure)
  BY DEF TypeOK
<1>4. /\ m_queue' = m_queue \o CancelOne(c) /\ handler' = [handler EXCEPT ![c] = NoHandler]
  BY <1>1 DEF Takes
<1> PICK s : s = CancelOne(c)
  OBVIOUS
<1>5. /\ s \in Seq(Closure)
      /\ \A i \in 1..Len(s) : s[i].what = "cancel" /\ s[i].held[c] = handler[c]
      /\ ~Armed(c) \/ c # d => Free(s, d)
      /\ Armed(c) => Single(s, c)
  BY <1>3, CancelOneIs
<1>6. CASE c = d /\ Armed(d)
  <2>1. d \in busy /\ Free(m_queue, d) /\ handler[d].got = owed[d]
    BY <1>6 DEF Owned
  <2>2. /\ Single(m_queue', d)
        /\ \A i \in 1..Len(m_queue') : Stands(m_queue'[i], d) => \E j \in 1..Len(s) : m_queue'[i] = s[j]
    BY <1>3, <1>4, <1>5, <1>6, <2>1, AddedStands
  <2>3. \A j \in 1..Len(s) : Stands(s[j], d) => Knows(s[j], d)'
    BY <1>2, <1>5, <1>6, <2>1 DEF Knows
  <2>4. ~Armed(d)'
    BY <1>3, <1>4, <1>6, Handlers DEF Armed
  <2> QED
    BY <1>2, <2>1, <2>2, <2>3, <2>4, Handed
<1>7. CASE c # d \/ ~Armed(d)
  <2>1. Spares(m_queue, m_queue', d)
    BY <1>3, <1>4, <1>5, <1>7, AddedSpares
  <2>2. (Armed(d)' <=> Armed(d)) /\ (Armed(d) => handler'[d] = handler[d])
    BY <1>3, <1>4, <1>7, Handlers DEF Armed
  <2> QED
    BY <1>2, <2>1, <2>2, Undisturbed
<1> QED
  BY <1>6, <1>7

(* The worker runs a closure.                                                *)
LEMMA OwnedClosures ==
  ASSUME TypeOK, NEW d \in Dirs \ torn, Owned(d), Spending,
         W_Result \/ W_Empty \/ W_Cancel \/ W_Add \/ W_Remove
  PROVE  Owned(d)'
<1>0. PICK c, rest : c = Head(m_queue) /\ rest = Tail(m_queue)
  OBVIOUS
<1>1. /\ m_queue \in Seq(Closure) /\ m_queue # <<>> /\ rest \in Seq(Closure)
      /\ c \in Closure /\ 1 \in 1..Len(m_queue) /\ m_queue[1] = c
  BY <1>0, PopTyped DEF W_Result, W_Empty, W_Cancel, W_Add, W_Remove
<1>2. ~Stands(c, d) => Spares(m_queue, rest, d)
  BY <1>0, <1>1, PoppedSpares
<1>3. Stands(c, d) => d \in busy /\ ~Armed(d) /\ Single(m_queue, d) /\ Free(rest, d) /\ Knows(c, d)
  <2> SUFFICES ASSUME Stands(c, d)
               PROVE  d \in busy /\ ~Armed(d) /\ Single(m_queue, d) /\ Free(rest, d) /\ Knows(c, d)
    OBVIOUS
  <2>1. ~Free(m_queue, d)
    BY <1>1 DEF Free
  <2>2. d \in busy /\ ~Armed(d) /\ Single(m_queue, d) /\ Knows(c, d)
    BY <1>1, <2>1 DEF Owned
  <2>3. Free(rest, d)
    BY <1>0, <1>1, <2>2, PoppedStands
  <2> QED
    BY <2>2, <2>3
<1>4. UNCHANGED <<handler, m_is_connected, cut>> /\ (Armed(d)' <=> Armed(d))
  BY DEF W_Result, W_Empty, W_Cancel, W_Add, W_Remove, client, history, Armed
<1>5. CASE W_Result
  <2>1. /\ c.what = "result" /\ m_queue' = rest
        /\ busy' = busy \ {c.dir} /\ owed' = [owed EXCEPT ![c.dir] = @ - c.n]
    BY <1>0, <1>5 DEF W_Result, Pop
  <2>2. c.dir \in Dirs /\ (Stands(c, d) <=> c.dir = d) /\ owed \in [Dirs -> Int]
    BY <1>1, <2>1, ClosureFields DEF Stands, TypeOK
  <2>3. CASE c.dir = d
    <3>1. d \notin busy' /\ Free(m_queue', d) /\ ~Armed(d)'
      BY <1>3, <1>4, <2>1, <2>2, <2>3
    <3>2. owed'[d] = 0
      BY <1>3, <2>1, <2>2, <2>3 DEF Knows
    <3> QED
      BY <3>1, <3>2 DEF Owned, Free
  <2>4. CASE c.dir # d
    <3>1. Spares(m_queue, m_queue', d) /\ owed'[d] = owed[d] /\ (d \in busy' <=> d \in busy)
      BY <1>2, <2>1, <2>2, <2>4
    <3> QED
      BY <1>4, <3>1, Undisturbed
  <2> QED
    BY <2>3, <2>4
<1>6. CASE W_Cancel
  <2>0. PICK s : s = CancelResults(c.held)
    OBVIOUS
  <2>1. c.what = "cancel" /\ m_queue' = rest \o s /\ UNCHANGED <<busy, owed>>
    BY <1>0, <1>6, <2>0 DEF W_Cancel, Pop, history
  <2>2. c.held \in [Dirs -> Handler]
    BY <1>1, <2>1, ClosureFields
  <2>3. Stands(c, d) <=> Operation(c.held[d])
    BY <2>1 DEF Stands
  <2>4. /\ s \in Seq(Closure)
        /\ ~Operation(c.held[d]) => Free(s, d)
        /\ Operation(c.held[d]) =>
             /\ Single(s, d)
             /\ \A i \in 1..Len(s) : Stands(s[i], d) => s[i].what = "result" /\ s[i].n = c.held[d].got
    <3>1. ~Spent(c.held[d])
      BY <1>1, <2>1 DEF Spending
    <3> QED
      BY <2>0, <2>2, <3>1, Cancelled
  <2>5. CASE Stands(c, d)
    <3>1. /\ Single(m_queue', d)
          /\ \A i \in 1..Len(m_queue') : Stands(m_queue'[i], d) => \E j \in 1..Len(s) : m_queue'[i] = s[j]
      <4>1. Free(rest, d) /\ Single(s, d) /\ rest \in Seq(Closure) /\ s \in Seq(Closure)
        BY <1>1, <1>3, <2>3, <2>4, <2>5
      <4> QED
        BY <2>1, <4>1, QueueStands
    <3>2. c.held[d].got = owed[d] /\ d \in cut
      BY <1>3, <2>1, <2>5 DEF Knows
    <3>3. \A j \in 1..Len(s) : Stands(s[j], d) => Knows(s[j], d)'
      BY <1>4, <2>1, <2>3, <2>4, <2>5, <3>2 DEF Knows
    <3>4. ~Armed(d)' /\ d \in busy'
      BY <1>3, <1>4, <2>1, <2>5
    <3> QED
      BY <3>1, <3>3, <3>4, Handed
  <2>6. CASE ~Stands(c, d)
    <3>1. Spares(rest, m_queue', d)
      BY <1>1, <2>1, <2>3, <2>4, <2>6, AddedSpares
    <3>2. Spares(m_queue, m_queue', d)
      BY <1>2, <2>6, <3>1, SparesTransitive
    <3> QED
      BY <1>4, <2>1, <3>2, Undisturbed
  <2> QED
    BY <2>5, <2>6
<1>7. CASE W_Empty \/ W_Add \/ W_Remove
  <2>1. c.what \in {"empty", "add", "remove"} /\ m_queue' = rest /\ UNCHANGED <<busy, owed>>
    BY <1>0, <1>7 DEF W_Empty, W_Add, W_Remove, Pop, history
  <2>2. Spares(m_queue, m_queue', d)
    BY <1>2, <2>1 DEF Stands
  <2> QED
    BY <1>4, <2>1, <2>2, Undisturbed
<1> QED
  BY <1>5, <1>6, <1>7

(* The worker calls the handler of an operation.                             *)
LEMMA OwnedCallback ==
  ASSUME TypeOK, EndOfStream, NEW d \in Dirs, Owned(d), Owned(Side), W_CallbackOp
  PROVE  Owned(d)'
<1> PICK side, h : side = Side /\ h = handler[side]
  OBVIOUS
<1> DEFINE c(n) == Result(side, h.got + n, Want(h.kind, h.size))
<1>1. /\ wpc = "called" /\ side \in Dirs /\ h \in Handler /\ Operation(h) /\ h.kind \in {"one", "all"}
      /\ handler \in [Dirs -> Handler] /\ m_queue \in Seq(Closure)
  BY DEF W_CallbackOp, TypeOK, Operation, Side, Dirs
<1>2. h.size \in Sizes /\ h.size \in Nat /\ h.size > 0 /\ h.got \in Nat /\ Want(h.kind, h.size) \in Nat
  BY <1>1, Handlers, ClientAssumption
<1>3. PICK n \in Outcomes(side, h.size - h.got) :
        /\ Moves(side, n)
        /\ IF Satisfied(h.kind, h.size, h.got, n)
             THEN /\ m_queue' = Append(m_queue, c(n))
                  /\ handler' = [handler EXCEPT ![side] = Ran(h)]
                  /\ UNCHANGED <<m_is_connected, busy, cut>>
             ELSE /\ handler' = [handler EXCEPT ![side].got = @ + Moved(n)]
                  /\ CallbackReturns(FALSE)
                  /\ UNCHANGED m_queue
  BY DEF W_CallbackOp
<1>4. /\ n \in Int /\ Moved(n) = Bytes(n) /\ Moved(n) \in Nat
      /\ n = 0 => side = "recv" /\ peer = "closed"
      /\ n # -1 => n \in Nat /\ Bytes(n) = n
      /\ n >= -1 /\ (n > 0 => n <= h.size - h.got)
      /\ owed'[side] = owed[side] + Bytes(n)
      /\ \A e \in Dirs : e # side => owed'[e] = owed[e]
  <2>1. h.size - h.got \in Int
    BY <1>2
  <2>2. /\ n \in Int /\ n >= -1 /\ Bytes(n) \in Nat /\ Moved(n) = Bytes(n)
        /\ n = 0 => side = "recv" /\ peer = "closed"
        /\ n # -1 => n \in Nat /\ Bytes(n) = n
        /\ n > 0 => n <= h.size - h.got
    BY <1>1, <2>1, Outcome
  <2>3. owed'[side] = owed[side] + Bytes(n) /\ \A e \in Dirs : e # side => owed'[e] = owed[e]
    BY <1>1, <1>3, <2>1, MovesTyped
  <2> QED
    BY <2>2, <2>3
<1>5. UNCHANGED <<busy, cut, m_is_connected>>
  BY <1>3 DEF CallbackReturns
<1>6. /\ side \in busy /\ Free(m_queue, side) /\ h.got = owed[side] /\ m_is_connected
      /\ h.kind = "all" => h.got < h.size
  BY <1>1 DEF Owned, Armed
<1>7. CASE Satisfied(h.kind, h.size, h.got, n)
  <2>1. n \in Nat /\ (h.kind = "all" => n = 0 \/ h.got + n = h.size) /\ Bytes(n) = n
    <3>1. CASE h.kind = "one"
      BY <1>4, <1>7, <3>1 DEF Satisfied
    <3>2. CASE h.kind = "all"
      <4>1. n = 0 \/ h.got + n = h.size
        BY <1>7, <3>2 DEF Satisfied
      <4>2. n # -1
        BY <1>2, <1>4, <1>6, <3>2, <4>1
      <4> QED
        BY <1>4, <4>1, <4>2
    <3> QED
      BY <1>1, <3>1, <3>2
  <2>2. /\ c(n) \in Closure /\ c(n).what = "result" /\ c(n).dir = side
        /\ c(n).n = h.got + n /\ c(n).want = Want(h.kind, h.size)
    <3>1. h.got + n \in Nat
      BY <1>2, <2>1
    <3> QED
      BY <1>1, <1>2, <3>1, ResultTyped DEF Result
  <2>3. h.got + n < Want(h.kind, h.size) => n = 0
    BY <1>2, <2>1 DEF Want
  <2> PICK r : r = c(n)
    OBVIOUS
  <2>5. m_queue' = Append(m_queue, r) /\ handler' = [handler EXCEPT ![side] = Ran(h)]
    BY <1>3, <1>7
  <2>6. r \in Closure /\ \A e \in Dirs : Stands(r, e) <=> e = side
    BY <2>2 DEF Stands
  <2>7. Knows(r, side)'
    BY <1>2, <1>4, <1>5, <1>6, <2>1, <2>2, <2>3 DEF Knows, EndOfStream
  <2>8. m_queue' = m_queue \o <<r>> /\ <<r>> \in Seq(Closure) /\ Len(<<r>>) = 1 /\ <<r>>[1] = r
    BY <1>1, <2>5, <2>6, AppendedIs
  <2>9. CASE d = side
    <3>1. Single(<<r>>, d)
      BY <2>6, <2>8, <2>9 DEF Single
    <3>2. /\ Single(m_queue', d)
          /\ \A i \in 1..Len(m_queue') : Stands(m_queue'[i], d) => \E j \in 1..Len(<<r>>) : m_queue'[i] = <<r>>[j]
      <4>1. Free(m_queue, d)
        BY <1>6, <2>9
      <4>2. PICK s : s = <<r>>
        OBVIOUS
      <4>3. m_queue \in Seq(Closure) /\ s \in Seq(Closure) /\ m_queue' = m_queue \o s /\ Single(s, d)
        BY <1>1, <2>8, <3>1, <4>2
      <4>4. /\ Single(m_queue \o s, d)
            /\ \A i \in 1..Len(m_queue \o s) : Stands((m_queue \o s)[i], d) =>
                 \E j \in 1..Len(s) : (m_queue \o s)[i] = s[j]
        BY <4>1, <4>3, AddedStands
      <4> QED
        BY <4>2, <4>3, <4>4
    <3>3. ~Armed(d)' /\ d \in busy'
      BY <1>1, <1>5, <1>6, <2>5, <2>9, Handlers DEF Armed
    <3>4. \A j \in 1..Len(<<r>>) : Stands(<<r>>[j], d) => Knows(<<r>>[j], d)'
      BY <2>7, <2>8, <2>9
    <3> QED
      BY <3>2, <3>3, <3>4, Handed
  <2>10. CASE d # side
    <3>1. Free(<<r>>, d)
      BY <2>6, <2>8, <2>10 DEF Free
    <3>2. Spares(m_queue, m_queue', d)
      BY <1>1, <2>8, <3>1, AddedSpares
    <3>3. handler'[d] = handler[d] /\ (Armed(d)' <=> Armed(d))
      BY <1>1, <2>5, <2>10 DEF Armed
    <3> QED
      BY <1>4, <1>5, <2>10, <3>2, <3>3, Undisturbed
  <2> QED
    BY <2>9, <2>10
<1>8. CASE ~Satisfied(h.kind, h.size, h.got, n)
  <2>1. UNCHANGED m_queue /\ handler' = [handler EXCEPT ![side] = [h EXCEPT !.got = @ + Moved(n)]]
    BY <1>1, <1>3, <1>8
  <2>2. CASE d = side
    <3>1. handler'[d] = [h EXCEPT !.got = @ + Moved(n)]
      BY <1>1, <2>1, <2>2
    <3>2. /\ handler'[d].got = h.got + Moved(n) /\ Armed(d)'
          /\ handler'[d].kind = h.kind /\ handler'[d].size = h.size
      BY <1>1, <1>4, <3>1, HandlerGains DEF Armed
    <3>4. h.kind = "all" => h.got + Moved(n) < h.size
      BY <1>2, <1>4, <1>6, <1>8 DEF Satisfied, Bytes
    <3>3. Free(m_queue, d)' /\ d \in busy' /\ m_is_connected'
      BY <1>5, <1>6, <2>1, <2>2 DEF Free
    <3> QED
      BY <1>4, <1>6, <2>2, <3>2, <3>3, <3>4 DEF Owned, Free
  <2>3. CASE d # side
    <3>1. handler'[d] = handler[d] /\ (Armed(d)' <=> Armed(d))
      BY <1>1, <2>1, <2>3 DEF Armed
    <3> QED
      BY <1>4, <1>5, <2>1, <2>3, <3>1, SparesItself, Undisturbed
  <2> QED
    BY <2>2, <2>3
<1> QED
  BY <1>7, <1>8

LEMMA OwnedStep ==
  ASSUME TypeOK, EndOfStream, Spending, Ending, \A d \in Dirs \ torn : Owned(d), [Next]_vars
  PROVE  /\ torn \subseteq torn'
         /\ \A d \in Dirs \ torn : Owned(d)'
<1>a. torn \subseteq torn'
  <2>1. CASE Alive /\ UserCall
    BY <2>1 DEF UserCall, StartDisconnected, StartInline, StartArmed, SetOnDataAvailable, RecvRaw, PauseReceive,
       ConnectOnWorker, Connect, DisconnectInline, Disconnect, Destroy, Takes, history
  <2>2. ASSUME NEW t \in Threads, Continue(t) PROVE torn \subseteq torn'
    BY <2>2 DEF Continue, ConnectPerform, ConnectDone, ConnectFails, ConnectUndone, DisconnectEnd,
       DestroyTakesSend, DestroyEnd, Takes, history
  <2>3. CASE W_Call \/ WorkerStep
    BY <2>3 DEF W_Call, WorkerStep, IsConnected, W_Return, W_Result, W_Empty, W_Cancel, W_Add, W_Remove,
       W_Prepare, W_Poll, W_CallbackIdle, W_Callback, W_CallbackOp, W_CallbackUser, W_CallbackThrows,
       W_Clear, W_Pause, CallbackReturns, history
  <2>4. CASE Peer \/ UNCHANGED vars
    BY <2>4 DEF Peer, PeerSend, PeerClose, PeerReset, PeerRead, vars, history
  <2> QED
    BY <2>1, <2>2, <2>3, <2>4 DEF Next, Terminated
<1>b. wpc = "clearing" => ~Armed(Side)
  BY DEF Spending
<1>c. ASSUME NEW d \in Dirs \ torn PROVE Owned(d)'
  <2>1. CASE Alive /\ UserCall
    BY <1>b, <2>1, OwnedStarts, OwnedQuiet, OwnedWaits, OwnedCancels, OwnedTakes DEF UserCall, TypeOK
  <2>2. ASSUME NEW t \in Threads, Continue(t) PROVE Owned(d)'
    BY <1>b, <2>2, OwnedQuiet, OwnedWaits, OwnedCancels, OwnedTakes DEF Continue
  <2>3. CASE W_Call \/ WorkerStep
    <3>1. W_CallbackOp => Side \in Dirs \ torn
      BY Handlers DEF W_CallbackOp, Spending, Side, Dirs
    <3> QED
      BY <1>b, <2>3, <3>1, OwnedQuiet, OwnedClosures, OwnedCallback DEF WorkerStep
  <2>4. CASE Peer \/ UNCHANGED vars
    BY <1>b, <2>4, OwnedQuiet
  <2> QED
    BY <2>1, <2>2, <2>3, <2>4 DEF Next, Terminated
<1> QED
  BY <1>a, <1>c

-------------------------------------------------------------------------------
LEMMA EndOfStreamStep ==
  ASSUME TypeOK, EndOfStream, [Next]_vars
  PROVE  EndOfStream'
<1> USE DEF EndOfStream, watch, executor, easy, client, threads, network, history
<1>1. ASSUME NEW a \in Callers, NEW d \in Dirs, NEW kind \in {"one", "all"}, NEW size \in Sizes,
             StartDisconnected(a, d, kind, size) \/ StartInline(a, d, kind, size) \/ StartArmed(a, d, kind, size)
      PROVE  EndOfStream'
  <2>1. /\ busy' = busy \cup {d} /\ peer' = peer
        /\ cut' = IF m_is_connected /\ ~(d = "recv" /\ peer = "closed") THEN cut \ {d} ELSE cut \cup {d}
    BY <1>1 DEF StartDisconnected, StartInline, StartArmed, Starts, Moves
  <2> QED
    BY <2>1
<1>2. ASSUME NEW a \in Observers, SetOnDataAvailable(a) \/ RecvRaw(a) \/ \E pause \in BOOLEAN : PauseReceive(a, pause)
      PROVE  EndOfStream'
  BY <1>2 DEF SetOnDataAvailable, RecvRaw, PauseReceive
<1>3. ASSUME NEW ok \in BOOLEAN, ConnectOnWorker(ok) PROVE EndOfStream'
  BY <1>3 DEF ConnectOnWorker, Established
<1>4. ASSUME NEW a \in Closers, DisconnectInline(a) PROVE EndOfStream'
  BY <1>4 DEF DisconnectInline, Reset
<1>5. ASSUME NEW t \in Threads, Connect(t) \/ Disconnect(t) \/ Destroy(t) PROVE EndOfStream'
  BY <1>5 DEF Connect, Disconnect, Destroy
<1>6. ASSUME NEW t \in Threads, Continue(t) PROVE EndOfStream'
  BY <1>6 DEF Continue, ConnectPerform, ConnectDone, ConnectFails, ConnectUndone, DisconnectEnd,
     DestroyTakesSend, DestroyEnd, Reset, Established
<1>7. CASE W_Call \/ WorkerStep
  <2>1. CASE W_CallbackIdle \/ W_CallbackUser \/ W_CallbackOp \/ W_Clear
    BY <2>1 DEF W_CallbackIdle, W_CallbackUser, W_CallbackOp, W_Clear, CallbackReturns, Moves
  <2>2. CASE W_Result \/ W_Empty \/ W_Cancel \/ W_Add \/ W_Remove
    BY <2>2 DEF W_Result, W_Empty, W_Cancel, W_Add, W_Remove
  <2>3. CASE W_Call \/ IsConnected \/ W_Return \/ W_Prepare \/ W_Poll \/ W_Callback \/ W_CallbackThrows \/ W_Pause
    BY <2>3 DEF W_Call, IsConnected, W_Return, W_Prepare, W_Poll, W_Callback, W_CallbackThrows, W_Pause
  <2> QED
    BY <1>7, <2>1, <2>2, <2>3 DEF WorkerStep
<1>8. CASE Peer
  BY <1>8 DEF Peer, PeerSend, PeerClose, PeerReset, PeerRead
<1>9. CASE UNCHANGED vars
  BY <1>9 DEF vars
<1> QED
  BY <1>1, <1>2, <1>3, <1>4, <1>5, <1>6, <1>7, <1>8, <1>9 DEF Next, UserCall, Terminated

(* The queue as far as connect(), disconnect() and the destructor are        *)
(* concerned: closures other than callbacks only move to the front.          *)
Shifted(k) ==
  \A i \in 1..Len(m_queue') : m_queue'[i].what \notin {"result", "empty"} =>
    i + k \in 1..Len(m_queue) /\ m_queue'[i] = m_queue[i + k]

Quiet == UNCHANGED m_queue

LEMMA QuietShifts == TypeOK /\ Quiet => Shifted(0)
<1> SUFFICES ASSUME TypeOK, Quiet, NEW i \in 1..Len(m_queue)
             PROVE  i + 0 \in 1..Len(m_queue) /\ m_queue[i] = m_queue[i + 0]
  BY DEF Shifted, Quiet
<1>1. Len(m_queue) \in Nat
  BY LenProperties DEF TypeOK
<1> QED
  BY <1>1

LEMMA ResultsShift ==
  ASSUME TypeOK, NEW c \in Closure, c.what = "result", m_queue' = Append(m_queue, c)
  PROVE  Shifted(0)
<1>1. /\ Len(m_queue') = Len(m_queue) + 1 /\ Len(m_queue) \in Nat
      /\ \A i \in 1..Len(m_queue) : m_queue'[i] = m_queue[i]
      /\ m_queue'[Len(m_queue) + 1] = c
  BY AppendOrder DEF TypeOK
<1>2. ASSUME NEW i \in 1..Len(m_queue'), m_queue'[i].what \notin {"result", "empty"}
      PROVE  i + 0 \in 1..Len(m_queue) /\ m_queue'[i] = m_queue[i + 0]
  <2>1. i # Len(m_queue) + 1
    BY <1>1, <1>2
  <2>2. i \in 1..Len(m_queue) /\ i + 0 = i
    BY <1>1, <2>1
  <2> QED
    BY <1>1, <2>2
<1> QED
  BY <1>2 DEF Shifted

LEMMA AppendedTyped ==
  ASSUME NEW q \in Seq(Closure), NEW c, Append(q, c) \in Seq(Closure)
  PROVE  c \in Closure
<1>1. Len(q) \in Nat /\ Len(Append(q, c)) = Len(q) + 1 /\ Append(q, c)[Len(q) + 1] = c
  OBVIOUS
<1> QED
  BY <1>1, ElementOfSeq

LEMMA ClosuresShift ==
  ASSUME TypeOK, W_Result \/ W_Empty \/ W_Cancel \/ W_Add \/ W_Remove
  PROVE  Shifted(1) /\ 1 \in 1..Len(m_queue) /\ m_queue[1] = Head(m_queue)
<1> PICK rest : rest = Tail(m_queue)
  OBVIOUS
<1>1. /\ m_queue \in Seq(Closure) /\ m_queue # <<>> /\ rest \in Seq(Closure)
      /\ Head(m_queue) \in Closure /\ 1 \in 1..Len(m_queue) /\ m_queue[1] = Head(m_queue)
  BY PopTyped DEF W_Result, W_Empty, W_Cancel, W_Add, W_Remove
<1>2. \A i \in 1..Len(rest) : i + 1 \in 1..Len(m_queue) /\ rest[i] = m_queue[i + 1]
  BY <1>1, TailOrder
<1>3. PICK s \in Seq(Closure) :
        (m_queue' = rest \o s) /\ \A i \in 1..Len(s) : s[i].what \in {"result", "empty"}
  <2>1. CASE W_Cancel
    <3>1. Head(m_queue).held \in [Dirs -> Handler]
      BY <1>1, <2>1, ClosureFields DEF W_Cancel, Pop
    <3>2. "recv" \in Dirs
      BY DEF Dirs
    <3>3. /\ CancelResults(Head(m_queue).held) \in Seq(Closure)
          /\ \A i \in 1..Len(CancelResults(Head(m_queue).held)) :
               CancelResults(Head(m_queue).held)[i].what \in {"result", "empty"}
      BY <3>1, <3>2, Cancelled
    <3> QED
      BY <2>1, <3>3 DEF W_Cancel
  <2>2. CASE W_Result \/ W_Empty \/ W_Add \/ W_Remove
    <3>1. m_queue' = rest
      BY <2>2 DEF W_Result, W_Empty, W_Add, W_Remove
    <3>2. PICK e : e = <<>>
      OBVIOUS
    <3>3. e \in Seq(Closure) /\ Len(e) = 0 /\ rest \o e = rest
      BY <1>1, <3>2, ConcatEmptySeq
    <3>4. \A i \in 1..Len(e) : e[i].what \in {"result", "empty"}
      BY <3>3
    <3>5. m_queue' = rest \o e
      BY <3>1, <3>3
    <3> QED
      BY <3>3, <3>4, <3>5
  <2> QED
    BY <2>1, <2>2
<1>4. ASSUME NEW i \in 1..Len(m_queue'), m_queue'[i].what \notin {"result", "empty"}
      PROVE  i + 1 \in 1..Len(m_queue) /\ m_queue'[i] = m_queue[i + 1]
  <2>1. ASSUME NEW j \in 1..Len(s), i = Len(rest) + j PROVE FALSE
    <3>1. m_queue'[i] = s[j]
      BY <1>1, <1>3, <2>1, Concatenated
    <3> QED
      BY <1>3, <1>4, <3>1
  <2>2. i \in 1..Len(rest)
    BY <1>1, <1>3, <2>1, Concatenated
  <2>3. m_queue'[i] = rest[i]
    BY <1>1, <1>3, <2>2, Concatenated
  <2> QED
    BY <1>2, <2>2, <2>3
<1> QED
  BY <1>1, <1>4 DEF Shifted

LEMMA Shifts ==
  ASSUME TypeOK,
         \/ \E a \in Callers, d \in Dirs, kind \in {"one", "all"}, size \in Sizes :
              \/ StartDisconnected(a, d, kind, size)
              \/ StartInline(a, d, kind, size)
              \/ StartArmed(a, d, kind, size)
         \/ W_CallbackOp
  PROVE  Shifted(0)
<1>1. ASSUME NEW a \in Callers, NEW d \in Dirs, NEW kind \in {"one", "all"}, NEW size \in Sizes,
             \/ StartDisconnected(a, d, kind, size)
             \/ StartInline(a, d, kind, size)
             \/ StartArmed(a, d, kind, size)
      PROVE  Shifted(0)
  <2>1. TypeOK' /\ m_queue' \in Seq(Closure)
    <3>1. TypeOK'
      BY <1>1, TypeStarts
    <3> QED
      BY <3>1 DEF TypeOK
  <2>2. Quiet \/ \E n : m_queue' = Append(m_queue, Result(d, n, Want(kind, size)))
    BY <1>1 DEF StartDisconnected, StartInline, StartArmed, Push, Quiet
  <2> QED
    BY <2>1, <2>2, QuietShifts, ResultsShift, AppendedTyped DEF Result, TypeOK
<1>2. CASE W_CallbackOp
  <2>1. TypeOK' /\ m_queue' \in Seq(Closure)
    BY <1>2, TypeWorker DEF TypeOK
  <2>2. Quiet \/ \E n, want : m_queue' = Append(m_queue, Result(Side, n, want))
    BY <1>2 DEF W_CallbackOp, Quiet
  <2> QED
    BY <2>1, <2>2, QuietShifts, ResultsShift, AppendedTyped DEF Result, TypeOK
<1> QED
  BY <1>1, <1>2

(* The actions that leave the queue alone.                                   *)
QuietStep ==
  \/ \E a \in Observers : SetOnDataAvailable(a) \/ RecvRaw(a) \/ \E pause \in BOOLEAN : PauseReceive(a, pause)
  \/ \E ok \in BOOLEAN : ConnectOnWorker(ok)
  \/ \E t \in Threads : \/ ConnectPerform(t) \/ ConnectDone(t) \/ ConnectUndone(t)
                        \/ DestroyEnd(t) /\ ~attached
  \/ W_Call \/ IsConnected \/ W_Return \/ W_Prepare \/ W_Poll
  \/ W_CallbackIdle \/ W_Callback \/ W_CallbackUser \/ W_CallbackThrows \/ W_Clear \/ W_Pause
  \/ Peer \/ UNCHANGED vars

LEMMA QuietSteps == QuietStep => Quiet
<1> USE DEF Quiet, watch, executor, easy, client, threads, network, history
<1>1. ASSUME NEW a \in Observers, SetOnDataAvailable(a) \/ RecvRaw(a) \/ \E pause \in BOOLEAN : PauseReceive(a, pause)
      PROVE  Quiet
  BY <1>1 DEF SetOnDataAvailable, RecvRaw, PauseReceive
<1>2. ASSUME NEW ok \in BOOLEAN, ConnectOnWorker(ok) PROVE Quiet
  BY <1>2 DEF ConnectOnWorker
<1>3. ASSUME NEW t \in Threads, \/ ConnectPerform(t) \/ ConnectDone(t) \/ ConnectUndone(t)
                                \/ DestroyEnd(t) /\ ~attached
      PROVE  Quiet
  BY <1>3 DEF ConnectPerform, ConnectDone, ConnectUndone, DestroyEnd
<1>4. W_Call \/ IsConnected \/ W_Return \/ W_Prepare \/ W_Poll \/ W_Callback \/ W_CallbackThrows \/ W_Pause
      => Quiet
  BY DEF W_Call, IsConnected, W_Return, W_Prepare, W_Poll, W_Callback, W_CallbackThrows, W_Pause
<1>5. W_CallbackIdle \/ W_CallbackUser \/ W_Clear => Quiet
  BY DEF W_CallbackIdle, W_CallbackUser, W_Clear
<1>6. Peer \/ UNCHANGED vars => Quiet
  BY DEF Peer, PeerSend, PeerClose, PeerReset, PeerRead, vars
<1> QED
  BY <1>1, <1>2, <1>3, <1>4, <1>5, <1>6 DEF QuietStep

(* The steps, by what they do to the queue and to the calls.                 *)
Moving ==
  \/ \E a \in Callers, d \in Dirs, kind \in {"one", "all"}, size \in Sizes :
       \/ StartDisconnected(a, d, kind, size)
       \/ StartInline(a, d, kind, size)
       \/ StartArmed(a, d, kind, size)
  \/ W_CallbackOp

Waiting ==
  \E t \in Threads : Connect(t) \/ ConnectFails(t) \/ Disconnect(t) \/ (DestroyEnd(t) /\ attached)

Taking == \E t \in Threads : Destroy(t) \/ DestroyTakesSend(t)

Cancelling ==
  \/ \E a \in Closers : DisconnectInline(a)
  \/ \E t \in Threads : DisconnectEnd(t)

Running == W_Result \/ W_Empty \/ W_Cancel \/ W_Add \/ W_Remove

LEMMA Steps ==
  [Next]_vars => QuietStep \/ Moving \/ Waiting \/ Taking \/ Cancelling \/ Running
  BY DEF Next, UserCall, Continue, WorkerStep, Terminated, QuietStep, Moving, Waiting, Taking, Cancelling, Running

-------------------------------------------------------------------------------
(* Who waits for the worker.                                                 *)

NoneWaits == \A i \in 1..Len(m_queue) : ~Waits(m_queue[i])

Pending == {"adding", "removing", "undoing", "destroying"}

LEMMA Waiter ==
  ASSUME TypeOK, Turns, \A t \in Threads : tpc[t] \notin Pending
  PROVE  NoneWaits
<1> SUFFICES ASSUME NEW i \in 1..Len(m_queue), Waits(m_queue[i]) PROVE FALSE
  BY DEF NoneWaits
<1>1. m_queue[i] \in Closure
  BY ElementOfSeq DEF TypeOK
<1>2. m_queue[i].by \in Threads
  BY <1>1, ClosureFields DEF Waits
<1> QED
  BY <1>2 DEF Turns, Waits, Pending

(* A thread that gets on while no other is inside a call keeps the turns.    *)
LEMMA NextTurn ==
  ASSUME TypeOK, Turns, NEW t \in Threads, NEW pc, tpc' = [tpc EXCEPT ![t] = pc],
         tpc[t] # "idle" \/ \A u \in Threads : tpc[u] = "idle"
  PROVE  \A u, v \in Threads : tpc'[u] # "idle" /\ tpc'[v] # "idle" => u = v
<1>1. \A u \in Threads : u # t => tpc'[u] = tpc[u] /\ tpc[u] = "idle"
  BY DEF TypeOK, Turns
<1> QED
  BY <1>1

LEMMA TurnsMoving ==
  ASSUME TypeOK, Turns, NEW k \in {0, 1}, Shifted(k), UNCHANGED tpc
  PROVE  Turns'
<1>1. ASSUME NEW i \in 1..Len(m_queue'), m_queue'[i].what \in {"add", "remove"}
      PROVE  i + k \in 1..Len(m_queue) /\ m_queue'[i] = m_queue[i + k]
  BY <1>1 DEF Shifted
<1>2. ASSUME NEW i \in 1..Len(m_queue'), NEW j \in 1..Len(m_queue'),
             Waits(m_queue'[i]), Waits(m_queue'[j])
      PROVE  i = j
  <2>1. i + k = j + k
    BY <1>1, <1>2 DEF Turns, Waits
  <2> QED
    BY <2>1
<1>3. ASSUME NEW i \in 1..Len(m_queue')
      PROVE  /\ m_queue'[i].what = "add" => tpc'[m_queue'[i].by] = "adding"
             /\ m_queue'[i].what = "remove" => tpc'[m_queue'[i].by] \in {"removing", "undoing", "destroying"}
  BY <1>1 DEF Turns
<1> QED
  BY <1>2, <1>3 DEF Turns, Waits

(* t may go on, and s ends with the closure that it then waits for.          *)
MayWait(t) ==
  (tpc[t] # "idle" /\ tpc[t] \notin Pending) \/ \A u \in Threads : tpc[u] = "idle"

WaitsLast(s, t, pc) ==
  \A i \in 1..Len(s) :
    /\ Waits(s[i]) => i = Len(s) /\ s[i].by = t
    /\ s[i].what = "add" => pc = "adding"
    /\ s[i].what = "remove" => pc \in {"removing", "undoing", "destroying"}

(* Closures are queued by a thread that does not wait yet.                   *)
LEMMA TurnsQueued ==
  ASSUME TypeOK, Turns, NEW t \in Threads, NEW pc, tpc' = [tpc EXCEPT ![t] = pc], MayWait(t),
         NEW s \in Seq(Closure), m_queue' = m_queue \o s, WaitsLast(s, t, pc)
  PROVE  Turns' /\ NoneWaits
<1> USE DEF MayWait, WaitsLast
<1>1. \A u \in Threads : tpc[u] \notin Pending
  BY DEF Pending, Turns
<1>2. NoneWaits
  BY <1>1, Waiter
<1>3. \A u, v \in Threads : tpc'[u] # "idle" /\ tpc'[v] # "idle" => u = v
  BY NextTurn
<1>4. m_queue \in Seq(Closure)
  BY DEF TypeOK
<1>5. ASSUME NEW i \in 1..Len(m_queue'), Waits(m_queue'[i])
      PROVE  i = Len(m_queue) + Len(s) /\ \E j \in 1..Len(s) : m_queue'[i] = s[j]
  <2>1. i \notin 1..Len(m_queue)
    BY <1>2, <1>4, <1>5, Concatenated DEF NoneWaits
  <2>2. PICK j \in 1..Len(s) : i = Len(m_queue) + j
    BY <1>4, <2>1, Concatenated
  <2>3. m_queue'[i] = s[j]
    BY <1>4, <2>2, Concatenated
  <2> QED
    BY <1>5, <2>2, <2>3
<1>6. tpc'[t] = pc
  BY DEF TypeOK
<1>7. ASSUME NEW i \in 1..Len(m_queue')
      PROVE  /\ m_queue'[i].what = "add" => tpc'[m_queue'[i].by] = "adding"
             /\ m_queue'[i].what = "remove" => tpc'[m_queue'[i].by] \in {"removing", "undoing", "destroying"}
  <2>1. CASE Waits(m_queue'[i])
    <3>1. PICK j \in 1..Len(s) : m_queue'[i] = s[j]
      BY <1>5, <2>1
    <3>2. s[j].by = t
      BY <2>1, <3>1
    <3>3. /\ s[j].what = "add" => pc = "adding"
          /\ s[j].what = "remove" => pc \in {"removing", "undoing", "destroying"}
      OBVIOUS
    <3> QED
      BY <1>6, <3>1, <3>2, <3>3
  <2>2. CASE ~Waits(m_queue'[i])
    BY <2>2 DEF Waits
  <2> QED
    BY <2>1, <2>2
<1>8. \A i, j \in 1..Len(m_queue') : Waits(m_queue'[i]) /\ Waits(m_queue'[j]) => i = j
  BY <1>5
<1> QED
  BY <1>2, <1>3, <1>7, <1>8 DEF Turns, Waits

LEMMA OneElement ==
  ASSUME NEW q \in Seq(Closure), NEW c \in Closure
  PROVE  \E s \in Seq(Closure) : /\ Append(q, c) = q \o s /\ Len(s) = 1
                                 /\ \A i \in 1..Len(s) : i = 1 /\ s[i] = c
<1> PICK s : s = <<c>>
  OBVIOUS
<1>1. Append(q, c) = q \o s /\ s \in Seq(Closure) /\ Len(s) = 1 /\ s[1] = c
  BY AppendedIs
<1>2. \A i \in 1..Len(s) : i = 1 /\ s[i] = c
  BY <1>1
<1> QED
  BY <1>1, <1>2

LEMMA TurnsWaiting ==
  ASSUME TypeOK, Turns, Waiting
  PROVE  Turns'
<1>1. PICK t \in Threads : Connect(t) \/ ConnectFails(t) \/ Disconnect(t) \/ (DestroyEnd(t) /\ attached)
  BY DEF Waiting
<1>2. PICK what \in {"add", "remove"}, pc \in {"adding", "undoing", "removing", "destroying"} :
        /\ m_queue' = Append(m_queue, [what |-> what, by |-> t])
        /\ tpc' = [tpc EXCEPT ![t] = pc]
        /\ what = "add" <=> pc = "adding"
        /\ tpc[t] \in {"performing", "taken"} \/ \A u \in Threads : tpc[u] = "idle"
  BY <1>1 DEF Connect, ConnectFails, Disconnect, DestroyEnd, Push, Settled
<1> PICK c : c = [what |-> what, by |-> t]
  OBVIOUS
<1>3. c \in Closure /\ c.what = what /\ c.by = t /\ m_queue \in Seq(Closure)
  BY DEF Closure, TypeOK
<1>4. PICK s \in Seq(Closure) : /\ m_queue' = m_queue \o s /\ Len(s) = 1
                                /\ \A i \in 1..Len(s) : i = 1 /\ s[i] = c
  <2>1. \E s \in Seq(Closure) : /\ Append(m_queue, c) = m_queue \o s /\ Len(s) = 1
                                /\ \A i \in 1..Len(s) : i = 1 /\ s[i] = c
    BY <1>3, OneElement
  <2> QED
    BY <1>2, <2>1
<1>5. MayWait(t)
  BY <1>2 DEF MayWait, Pending
<1>6. \A i \in 1..Len(s) : Waits(s[i]) => i = Len(s) /\ s[i].by = t
  BY <1>3, <1>4
<1>7. \A i \in 1..Len(s) : /\ s[i].what = "add" => pc = "adding"
                           /\ s[i].what = "remove" => pc \in {"removing", "undoing", "destroying"}
  BY <1>2, <1>3, <1>4
<1>8. WaitsLast(s, t, pc)
  BY <1>6, <1>7 DEF WaitsLast
<1>9. tpc' = [tpc EXCEPT ![t] = pc] /\ m_queue' = m_queue \o s
  BY <1>2, <1>4
<1> QED
  BY <1>5, <1>8, <1>9, TurnsQueued

LEMMA TurnsCancelling ==
  ASSUME TypeOK, Turns, Cancelling
  PROVE  Turns' /\ NoneWaits
<1> PICK c : c = Cancel
  OBVIOUS
<1>1. c \in Closure /\ c.what = "cancel" /\ m_queue \in Seq(Closure)
  BY DEF Cancel, Closure, TypeOK
<1>2. m_queue' = Append(m_queue, c)
  BY DEF Cancelling, DisconnectInline, DisconnectEnd, Push
<1>3. PICK s \in Seq(Closure) : /\ m_queue' = m_queue \o s /\ Len(s) = 1
                                /\ \A i \in 1..Len(s) : i = 1 /\ s[i] = c
  <2>1. \E s \in Seq(Closure) : /\ Append(m_queue, c) = m_queue \o s /\ Len(s) = 1
                                /\ \A i \in 1..Len(s) : i = 1 /\ s[i] = c
    BY <1>1, OneElement
  <2> QED
    BY <1>2, <2>1
<1>4. \A i \in 1..Len(s) : ~Waits(s[i]) /\ s[i].what \notin {"add", "remove"}
  BY <1>1, <1>3 DEF Waits
<1>5. ASSUME NEW t \in Threads, DisconnectEnd(t) PROVE Turns' /\ NoneWaits
  <2>1. tpc[t] = "removed" /\ tpc' = [tpc EXCEPT ![t] = "idle"]
    BY <1>5 DEF DisconnectEnd
  <2>2. MayWait(t)
    BY <2>1 DEF MayWait, Pending
  <2>3. WaitsLast(s, t, "idle")
    BY <1>4 DEF WaitsLast
  <2> QED
    BY <1>3, <2>1, <2>2, <2>3, TurnsQueued
<1>6. ASSUME NEW a \in Closers, DisconnectInline(a) PROVE Turns' /\ NoneWaits
  <2>1. (\A t \in Threads : tpc[t] = "idle") /\ UNCHANGED tpc
    BY <1>6 DEF DisconnectInline, Settled, Call
  <2>2. NoneWaits
    BY <2>1, Waiter DEF Pending
  <2>3. \A i \in 1..Len(m_queue') : ~Waits(m_queue'[i])
    <3> SUFFICES ASSUME NEW i \in 1..Len(m_queue') PROVE ~Waits(m_queue'[i])
      OBVIOUS
    <3>1. CASE i \in 1..Len(m_queue)
      BY <1>1, <1>3, <2>2, <3>1, Concatenated DEF NoneWaits
    <3>2. ASSUME NEW j \in 1..Len(s), i = Len(m_queue) + j PROVE ~Waits(m_queue'[i])
      BY <1>1, <1>3, <1>4, <3>2, Concatenated
    <3> QED
      BY <1>1, <1>3, <3>1, <3>2, Concatenated
  <2> QED
    BY <2>1, <2>2, <2>3 DEF Turns, Waits
<1> QED
  BY <1>5, <1>6 DEF Cancelling

(* What the destructor queues first.                                         *)
LEMMA TakesIs ==
  ASSUME TypeOK, NEW t \in Threads, Destroy(t) \/ DestroyTakesSend(t)
  PROVE  \E c \in Dirs, pc \in {"taking", "taken"} :
           /\ Takes(c) /\ tpc' = [tpc EXCEPT ![t] = pc]
           /\ m_queue \in Seq(Closure) /\ CancelOne(c) \in Seq(Closure)
           /\ m_queue' = m_queue \o CancelOne(c)
           /\ \A i \in 1..Len(CancelOne(c)) :
                /\ CancelOne(c)[i].what = "cancel"
                /\ \A e \in Dirs : CancelOne(c)[i].held[e] = IF e = c THEN handler[c] ELSE NoHandler
<1>1. PICK c \in Dirs, pc \in {"taking", "taken"} : Takes(c) /\ tpc' = [tpc EXCEPT ![t] = pc]
  BY DEF Destroy, DestroyTakesSend, Dirs
<1>2. handler \in [Dirs -> Handler] /\ m_queue \in Seq(Closure)
  BY DEF TypeOK
<1>3. m_queue' = m_queue \o CancelOne(c)
  BY <1>1 DEF Takes
<1>4. /\ CancelOne(c) \in Seq(Closure)
      /\ \A i \in 1..Len(CancelOne(c)) :
           /\ CancelOne(c)[i].what = "cancel"
           /\ \A e \in Dirs : CancelOne(c)[i].held[e] = IF e = c THEN handler[c] ELSE NoHandler
  BY <1>2, CancelOneIs
<1> QED
  BY <1>1, <1>2, <1>3, <1>4

LEMMA TurnsTaking ==
  ASSUME TypeOK, Turns, Taking
  PROVE  Turns' /\ NoneWaits
<1>1. PICK t \in Threads : Destroy(t) \/ DestroyTakesSend(t)
  BY DEF Taking
<1>2. PICK c \in Dirs, pc \in {"taking", "taken"} :
        /\ tpc' = [tpc EXCEPT ![t] = pc]
        /\ CancelOne(c) \in Seq(Closure) /\ m_queue' = m_queue \o CancelOne(c)
        /\ \A i \in 1..Len(CancelOne(c)) : CancelOne(c)[i].what = "cancel"
  BY <1>1, TakesIs
<1>3. WaitsLast(CancelOne(c), t, pc)
  BY <1>2 DEF WaitsLast, Waits
<1>4. MayWait(t)
  BY <1>1 DEF Destroy, DestroyTakesSend, Settled, MayWait, Pending
<1> QED
  BY <1>2, <1>3, <1>4, TurnsQueued

LEMMA TurnsRunning ==
  ASSUME TypeOK, Turns, Running
  PROVE  Turns'
<1>1. Shifted(1) /\ 1 \in 1..Len(m_queue) /\ m_queue[1] = Head(m_queue)
  BY ClosuresShift DEF Running
<1>2. CASE W_Result \/ W_Empty \/ W_Cancel
  BY <1>1, <1>2, TurnsMoving DEF W_Result, W_Empty, W_Cancel, threads
<1>3. CASE W_Add \/ W_Remove
  <2>1. Waits(m_queue[1])
    BY <1>1, <1>3 DEF W_Add, W_Remove, Pop, Waits
  <2>2. ASSUME NEW i \in 1..Len(m_queue'), m_queue'[i].what \in {"add", "remove"} PROVE FALSE
    <3>1. i + 1 \in 1..Len(m_queue) /\ Waits(m_queue[i + 1])
      BY <1>1, <2>2 DEF Shifted, Waits
    <3>2. i + 1 = 1
      BY <1>1, <2>1, <3>1 DEF Turns
    <3> QED
      BY <3>2
  <2>3. PICK t \in Threads : t = m_queue[1].by /\ tpc[t] \in Pending
    <3>1. m_queue[1] \in Closure
      BY <1>1, ElementOfSeq DEF TypeOK
    <3> QED
      BY <1>1, <2>1, <3>1, ClosureFields DEF Turns, Waits, Pending
  <2>4. \E pc : tpc' = [tpc EXCEPT ![t] = pc]
    BY <1>1, <1>3, <2>3 DEF W_Add, W_Remove
  <2>5. \A u, v \in Threads : tpc'[u] # "idle" /\ tpc'[v] # "idle" => u = v
    BY <2>3, <2>4, NextTurn DEF Pending
  <2> QED
    BY <2>2, <2>5 DEF Turns, Waits
<1> QED
  BY <1>2, <1>3 DEF Running

LEMMA TurnsQuiet ==
  ASSUME TypeOK, Turns, QuietStep
  PROVE  Turns'
<1> USE DEF watch, executor, easy, client, threads, network, history
<1>1. Quiet /\ Shifted(0)
  BY QuietSteps, QuietShifts
<1>2. ASSUME NEW t \in Threads, \/ ConnectPerform(t) \/ ConnectDone(t) \/ ConnectUndone(t)
                                \/ DestroyEnd(t) /\ ~attached
      PROVE  Turns'
  <2>1. PICK pc : tpc' = [tpc EXCEPT ![t] = pc]
    BY <1>2 DEF ConnectPerform, ConnectDone, ConnectUndone, DestroyEnd
  <2>2. tpc[t] # "idle" /\ tpc[t] \notin Pending
    BY <1>2 DEF ConnectPerform, ConnectDone, ConnectUndone, DestroyEnd, Pending
  <2>3. NoneWaits
    BY <2>2, Waiter DEF Turns, Pending
  <2>4. \A u, v \in Threads : tpc'[u] # "idle" /\ tpc'[v] # "idle" => u = v
    BY <2>1, <2>2, NextTurn
  <2> QED
    BY <1>1, <2>3, <2>4 DEF Turns, NoneWaits, Waits, Quiet
<1>3. ASSUME NEW a \in Observers, SetOnDataAvailable(a) \/ RecvRaw(a) \/ \E pause \in BOOLEAN : PauseReceive(a, pause)
      PROVE  UNCHANGED tpc
  BY <1>3 DEF SetOnDataAvailable, RecvRaw, PauseReceive, Call
<1>4. ASSUME NEW ok \in BOOLEAN, ConnectOnWorker(ok) PROVE UNCHANGED tpc
  BY <1>4 DEF ConnectOnWorker, Call
<1>5. W_Call \/ IsConnected \/ W_Return \/ W_Prepare \/ W_Poll \/ W_Callback \/ W_CallbackThrows \/ W_Pause
      => UNCHANGED tpc
  BY DEF W_Call, IsConnected, W_Return, W_Prepare, W_Poll, W_Callback, W_CallbackThrows, W_Pause
<1>6. W_CallbackIdle \/ W_CallbackUser \/ W_Clear => UNCHANGED tpc
  BY DEF W_CallbackIdle, W_CallbackUser, W_Clear, CallbackReturns
<1>7. Peer \/ UNCHANGED vars => UNCHANGED tpc
  BY DEF Peer, PeerSend, PeerClose, PeerReset, PeerRead, vars
<1>8. UNCHANGED tpc => Turns'
  BY <1>1, TurnsMoving
<1> QED
  BY <1>2, <1>3, <1>4, <1>5, <1>6, <1>7, <1>8 DEF QuietStep

LEMMA TurnsStep ==
  ASSUME TypeOK, Turns, [Next]_vars
  PROVE  Turns'
<1>1. CASE Moving
  <2>1. Shifted(0)
    BY <1>1, Shifts DEF Moving
  <2>2. UNCHANGED tpc
    BY <1>1 DEF Moving, StartDisconnected, StartInline, StartArmed, Starts, Call,
                W_CallbackOp, CallbackReturns, threads
  <2> QED
    BY <2>1, <2>2, TurnsMoving
<1> QED
  BY <1>1, Steps, TurnsQuiet, TurnsWaiting, TurnsTaking, TurnsCancelling, TurnsRunning

-------------------------------------------------------------------------------
(* What the calls say of the handle and the connection.                      *)

LEMMA PhasesQuiet ==
  ASSUME TypeOK, Turns, Phases, QuietStep
  PROVE  Phases'
<1> USE DEF Phases, watch, executor, easy, client, threads, network, history
<1>1. ASSUME NEW t \in Threads, \/ ConnectPerform(t) \/ ConnectDone(t) \/ ConnectUndone(t)
                                \/ DestroyEnd(t) /\ ~attached
      PROVE  Phases'
  <2>1. \A u \in Threads : u # t => tpc[u] = "idle"
    BY <1>1 DEF Turns, ConnectPerform, ConnectDone, ConnectUndone, DestroyEnd
  <2>2. CASE ConnectPerform(t) \/ ConnectDone(t) \/ ConnectUndone(t)
    BY <2>1, <2>2 DEF ConnectPerform, ConnectDone, ConnectUndone, TypeOK
  <2>3. CASE DestroyEnd(t) /\ ~attached
    BY <2>1, <2>3 DEF DestroyEnd, TypeOK
  <2> QED
    BY <1>1, <2>2, <2>3
<1>2. ASSUME NEW a \in Observers, SetOnDataAvailable(a) \/ RecvRaw(a) \/ \E pause \in BOOLEAN : PauseReceive(a, pause)
      PROVE  UNCHANGED <<tpc, attached, m_is_connected, interest>> /\ wpc' \in {wpc, "run"}
  BY <1>2 DEF SetOnDataAvailable, RecvRaw, PauseReceive, Call
<1>3. ASSUME NEW ok \in BOOLEAN, ConnectOnWorker(ok) PROVE Phases'
  BY <1>3 DEF ConnectOnWorker, Call, Settled, Watching
<1>4. ASSUME W_Call \/ IsConnected \/ W_Return \/ W_Callback \/ W_CallbackThrows \/ W_Pause
      PROVE  UNCHANGED <<tpc, attached, m_is_connected, interest>>
             /\ (wpc' \in Watching => wpc \in Watching)
  BY <1>4 DEF W_Call, IsConnected, W_Return, W_Callback, W_CallbackThrows, W_Pause, Watching
<1>5. CASE W_Prepare
  BY <1>5 DEF W_Prepare
<1>6. CASE W_Poll \/ W_CallbackIdle \/ W_CallbackUser \/ W_Clear
  BY <1>6 DEF W_Poll, W_CallbackIdle, W_CallbackUser, W_Clear, CallbackReturns, Watching
<1>7. Peer \/ UNCHANGED vars => UNCHANGED <<tpc, attached, m_is_connected, interest, wpc>>
  BY DEF Peer, PeerSend, PeerClose, PeerReset, PeerRead, vars
<1>8. UNCHANGED <<tpc, attached, m_is_connected, interest>>
      /\ (wpc' \in Watching => wpc \in Watching)
      => Phases'
  OBVIOUS
<1>9. "run" \notin Watching
  BY DEF Watching
<1> QED
  BY <1>1, <1>2, <1>3, <1>4, <1>5, <1>6, <1>7, <1>8, <1>9 DEF QuietStep

LEMMA PhasesStep ==
  ASSUME TypeOK, Turns, Phases, [Next]_vars
  PROVE  Phases'
<1> USE DEF Phases, watch, executor, easy, client, threads, network, history
<1>1. CASE Moving
  <2>1. UNCHANGED <<tpc, attached, m_is_connected, interest>>
    BY <1>1 DEF Moving, StartDisconnected, StartInline, StartArmed, Starts, Call, Unpause,
                W_CallbackOp, CallbackReturns
  <2>2. wpc' \in Watching => wpc \in Watching
    BY <1>1 DEF Moving, StartDisconnected, StartInline, StartArmed, Starts, Call,
                W_CallbackOp, CallbackReturns, Watching
  <2> QED
    BY <2>1, <2>2
<1>2. CASE Waiting
  <2>1. PICK t \in Threads : Connect(t) \/ ConnectFails(t) \/ Disconnect(t) \/ (DestroyEnd(t) /\ attached)
    BY <1>2 DEF Waiting
  <2>2. \A u \in Threads : u # t => tpc[u] = "idle"
    BY <2>1 DEF Turns, Connect, ConnectFails, Disconnect, DestroyEnd, Settled
  <2>3. CASE Connect(t) \/ ConnectFails(t) \/ Disconnect(t)
    BY <2>2, <2>3 DEF Connect, ConnectFails, Disconnect, Settled, TypeOK
  <2>4. CASE DestroyEnd(t) /\ attached
    <3>1. tpc' = [tpc EXCEPT ![t] = "destroying"] /\ UNCHANGED <<wpc, interest, attached, m_is_connected>>
      BY <2>4 DEF DestroyEnd
    <3> QED
      BY <2>2, <2>4, <3>1 DEF TypeOK
  <2> QED
    BY <2>1, <2>3, <2>4
<1>3. ASSUME NEW a \in Closers, DisconnectInline(a) PROVE Phases'
  BY <1>3 DEF DisconnectInline, Call, Reset, Settled, Watching
<1>4. ASSUME NEW t \in Threads, DisconnectEnd(t) PROVE Phases'
  <2>1. \A u \in Threads : u # t => tpc[u] = "idle"
    BY <1>4 DEF Turns, DisconnectEnd
  <2> QED
    BY <1>4, <2>1 DEF DisconnectEnd, Reset, TypeOK
<1>5. CASE Taking
  <2>1. PICK t \in Threads : Destroy(t) \/ DestroyTakesSend(t)
    BY <1>5 DEF Taking
  <2>2. PICK pc \in {"taking", "taken"} : tpc' = [tpc EXCEPT ![t] = pc]
    BY <2>1 DEF Destroy, DestroyTakesSend
  <2>3. UNCHANGED <<attached, m_is_connected, interest, wpc>> /\ tpc[t] \in {"idle", "taking"}
    BY <2>1 DEF Destroy, DestroyTakesSend, Settled
  <2> QED
    BY <2>2, <2>3 DEF TypeOK
<1>6. CASE W_Result \/ W_Empty \/ W_Cancel
  <2>1. UNCHANGED <<tpc, attached, m_is_connected, interest>> /\ wpc' \notin Watching
    BY <1>6 DEF W_Result, W_Empty, W_Cancel, Watching
  <2> QED
    BY <2>1
<1>7. CASE W_Add \/ W_Remove
  <2>1. PICK t \in Threads : /\ t = Head(m_queue).by
                             /\ Head(m_queue).what = "add" => tpc[t] = "adding"
                             /\ Head(m_queue).what = "remove" => tpc[t] \in {"removing", "undoing", "destroying"}
    <3>1. Head(m_queue) \in Closure /\ m_queue[1] = Head(m_queue) /\ 1 \in 1..Len(m_queue)
          /\ Head(m_queue).what \in {"add", "remove"}
      BY <1>7, PopTyped DEF W_Add, W_Remove
    <3> QED
      BY <3>1, ClosureFields DEF Turns
  <2>2. \A u \in Threads : u # t => tpc[u] = "idle"
    BY <1>7, <2>1 DEF Turns, W_Add, W_Remove, Pop
  <2>3. CASE W_Add
    <3>1. tpc' = [tpc EXCEPT ![t] = "added"] /\ tpc[t] = "adding" /\ attached' = TRUE
          /\ UNCHANGED <<m_is_connected, wpc>> /\ wpc \notin Watching
      BY <2>1, <2>3 DEF W_Add, Pop, Watching
    <3> QED
      BY <2>2, <3>1 DEF TypeOK
  <2>4. CASE W_Remove
    <3>1. PICK next \in {"removed", "undone", "gone"} :
            /\ tpc' = [tpc EXCEPT ![t] = next]
            /\ next = "undone" <=> tpc[t] = "undoing"
      BY <2>1, <2>4 DEF W_Remove, Pop, TypeOK
    <3>2. attached' = FALSE /\ UNCHANGED <<m_is_connected, wpc>> /\ wpc \notin Watching
      BY <2>4 DEF W_Remove, Pop, Watching
    <3>3. tpc[t] \in {"removing", "undoing", "destroying"}
      BY <2>1, <2>4 DEF W_Remove, Pop
    <3> QED
      BY <2>2, <3>1, <3>2, <3>3 DEF TypeOK
  <2> QED
    BY <1>7, <2>3, <2>4
<1> QED
  BY <1>1, <1>2, <1>3, <1>4, <1>5, <1>6, <1>7, Steps, PhasesQuiet DEF Cancelling, Running

-------------------------------------------------------------------------------
(* Once the destructor runs, it ends.                                        *)
LEMMA NoReturn ==
  ASSUME TypeOK, Turns, [Next]_vars, ~InUse
  PROVE  ~InUse'
<1> DEFINE Last == {"taking", "taken", "destroying", "gone"}
<1>1. PICK u \in Threads : tpc[u] \in Last
  BY DEF InUse
<1>2. \A t \in Threads : t # u => tpc[t] = "idle"
  BY <1>1 DEF Turns
<1>3. SUFFICES tpc'[u] \in Last
  BY DEF InUse
<1>4. CASE Moving
  BY <1>1, <1>4 DEF Moving, StartDisconnected, StartInline, StartArmed, Starts, Call,
     W_CallbackOp, CallbackReturns, threads
<1>5. CASE Waiting
  <2>1. PICK t \in Threads : Connect(t) \/ ConnectFails(t) \/ Disconnect(t) \/ (DestroyEnd(t) /\ attached)
    BY <1>5 DEF Waiting
  <2>2. DestroyEnd(t) /\ attached
    BY <1>1, <1>2, <2>1 DEF Connect, ConnectFails, Disconnect, Settled
  <2>3. t = u /\ tpc' = [tpc EXCEPT ![t] = "destroying"]
    BY <1>2, <2>2 DEF DestroyEnd
  <2> QED
    BY <2>3 DEF TypeOK
<1>6. CASE Taking
  <2>1. PICK t \in Threads : Destroy(t) \/ DestroyTakesSend(t)
    BY <1>6 DEF Taking
  <2>2. DestroyTakesSend(t)
    BY <1>1, <2>1 DEF Destroy, Settled
  <2>3. t = u /\ tpc' = [tpc EXCEPT ![t] = "taken"]
    BY <1>2, <2>2 DEF DestroyTakesSend
  <2> QED
    BY <2>3 DEF TypeOK
<1>7. CASE Cancelling
  BY <1>1, <1>2, <1>7 DEF Cancelling, DisconnectInline, DisconnectEnd, Settled
<1>8. CASE Running
  <2>1. CASE W_Result \/ W_Empty \/ W_Cancel
    BY <1>1, <2>1 DEF W_Result, W_Empty, W_Cancel, threads
  <2>2. CASE W_Add \/ W_Remove
    <3>1. /\ Head(m_queue) \in Closure /\ m_queue[1] = Head(m_queue) /\ 1 \in 1..Len(m_queue)
          /\ W_Add => Head(m_queue).what = "add"
          /\ W_Remove => Head(m_queue).what = "remove"
      BY <2>2, PopTyped DEF W_Add, W_Remove, Pop
    <3>2. PICK t \in Threads : t = Head(m_queue).by
      BY <2>2, <3>1, ClosureFields
    <3>3. /\ W_Add => tpc[t] = "adding"
          /\ W_Remove => tpc[t] \in {"removing", "undoing", "destroying"}
      BY <3>1, <3>2 DEF Turns
    <3>4. t = u
      BY <1>2, <2>2, <3>3
    <3>5. W_Remove /\ tpc[t] = "destroying"
      BY <1>1, <2>2, <3>3, <3>4
    <3>6. tpc' = [tpc EXCEPT ![t] = "gone"]
      BY <3>2, <3>5 DEF W_Remove, TypeOK
    <3> QED
      BY <3>4, <3>6 DEF TypeOK
  <2> QED
    BY <1>8, <2>1, <2>2 DEF Running
<1>9. CASE QuietStep
  <2>1. ASSUME NEW t \in Threads, \/ ConnectPerform(t) \/ ConnectDone(t) \/ ConnectUndone(t)
                                  \/ DestroyEnd(t) /\ ~attached
        PROVE  tpc'[u] \in Last
    <3>1. t = u
      BY <1>2, <2>1 DEF ConnectPerform, ConnectDone, ConnectUndone, DestroyEnd
    <3>2. DestroyEnd(t) /\ ~attached
      BY <1>1, <2>1, <3>1 DEF ConnectPerform, ConnectDone, ConnectUndone
    <3>3. tpc' = [tpc EXCEPT ![t] = "gone"]
      BY <3>2 DEF DestroyEnd
    <3> QED
      BY <3>1, <3>3 DEF TypeOK
  <2>2. ASSUME NEW a \in Observers, SetOnDataAvailable(a) \/ RecvRaw(a) \/ \E pause \in BOOLEAN : PauseReceive(a, pause)
        PROVE  UNCHANGED tpc
    BY <2>2 DEF SetOnDataAvailable, RecvRaw, PauseReceive, Call
  <2>3. ASSUME NEW ok \in BOOLEAN, ConnectOnWorker(ok) PROVE UNCHANGED tpc
    BY <2>3 DEF ConnectOnWorker, Call
  <2>4. W_Call \/ IsConnected \/ W_Return \/ W_Prepare \/ W_Poll \/ W_Callback \/ W_CallbackThrows \/ W_Pause
        => UNCHANGED tpc
    BY DEF W_Call, IsConnected, W_Return, W_Prepare, W_Poll, W_Callback, W_CallbackThrows, W_Pause, threads
  <2>5. W_CallbackIdle \/ W_CallbackUser \/ W_Clear => UNCHANGED tpc
    BY DEF W_CallbackIdle, W_CallbackUser, W_Clear, CallbackReturns, threads
  <2>6. Peer \/ UNCHANGED vars => UNCHANGED tpc
    BY DEF Peer, PeerSend, PeerClose, PeerReset, PeerRead, vars, threads
  <2> QED
    BY <1>1, <1>9, <2>1, <2>2, <2>3, <2>4, <2>5, <2>6 DEF QuietStep
<1> QED
  BY <1>4, <1>5, <1>6, <1>7, <1>8, <1>9, Steps

-------------------------------------------------------------------------------
(* Handlers that have run.                                                   *)

SpentQueued(q) == {d \in Dirs : \E i \in 1..Len(q) : q[i].what = "cancel" /\ Spent(q[i].held[d])}

LEMMA SpentShifts ==
  ASSUME TypeOK, Spending, NEW k \in {0, 1}, Shifted(k)
  PROVE  SpentQueued(m_queue') \subseteq torn
<1> SUFFICES ASSUME NEW d \in Dirs, NEW i \in 1..Len(m_queue'),
                    m_queue'[i].what = "cancel", Spent(m_queue'[i].held[d])
             PROVE  d \in torn
  BY DEF SpentQueued
<1>1. i + k \in 1..Len(m_queue) /\ m_queue'[i] = m_queue[i + k]
  BY DEF Shifted
<1> QED
  BY <1>1 DEF Spending

LEMMA SpentAdded ==
  ASSUME TypeOK, Spending, NEW s \in Seq(Closure), m_queue' = m_queue \o s
  PROVE  SpentQueued(m_queue') \subseteq torn \cup SpentQueued(s)
<1> SUFFICES ASSUME NEW d \in Dirs, NEW i \in 1..Len(m_queue'),
                    m_queue'[i].what = "cancel", Spent(m_queue'[i].held[d])
             PROVE  d \in torn \cup SpentQueued(s)
  BY DEF SpentQueued
<1>1. m_queue \in Seq(Closure)
  BY DEF TypeOK
<1>2. CASE i \in 1..Len(m_queue)
  <2>1. m_queue'[i] = m_queue[i]
    BY <1>1, <1>2, Concatenated
  <2> QED
    BY <1>2, <2>1 DEF Spending
<1>3. ASSUME NEW j \in 1..Len(s), i = Len(m_queue) + j
      PROVE  d \in SpentQueued(s)
  <2>1. m_queue'[i] = s[j]
    BY <1>1, <1>3, Concatenated
  <2> QED
    BY <2>1 DEF SpentQueued
<1> QED
  BY <1>1, <1>2, <1>3, Concatenated

(* The calls: while m_mtx is free no handler has run.                        *)
LEMMA SpendingCalls ==
  ASSUME TypeOK, Spending, m_mtx # Worker, InUse, torn' = torn,
         wpc' \in {wpc, "run"}, SpentQueued(m_queue') \subseteq torn,
         \A d \in Dirs : handler'[d] = handler[d] \/ ~Spent(handler'[d])
  PROVE  Spending'
<1>1. wpc # "clearing" /\ torn = {}
  BY DEF TypeOK, Spending
<1>2. wpc' # "clearing" /\ torn' = {}
  BY <1>1
<1>3. \A d \in Dirs : ~Spent(handler'[d])
  BY <1>1 DEF Spending
<1>4. SpentQueued(m_queue') \subseteq torn'
  BY <1>1, <1>2
<1> QED
  BY <1>2, <1>3, <1>4 DEF Spending, SpentQueued

(* The worker and the peer: handlers are cleared or left.                    *)
LEMMA SpendingClears ==
  ASSUME TypeOK, Spending, ~InUse => ~InUse', torn' = torn,
         SpentQueued(m_queue') \subseteq torn,
         \A d \in Dirs : handler'[d] = handler[d] \/ handler'[d] = NoHandler,
         wpc' = "clearing" => wpc = "clearing" /\ UNCHANGED <<handler, revents>>,
         wpc = "clearing" => wpc' = "clearing" \/ handler'[Side] = NoHandler
  PROVE  Spending'
<1>1. ASSUME NEW d \in Dirs, Spent(handler'[d]) PROVE wpc' = "clearing" /\ Side' = d
  <2>1. Spent(handler[d]) /\ handler'[d] = handler[d]
    BY <1>1, Handlers
  <2>2. wpc = "clearing" /\ Side = d
    BY <2>1 DEF Spending
  <2>3. wpc' = "clearing"
    BY <1>1, <2>2, Handlers
  <2> QED
    BY <2>2, <2>3 DEF Side
<1>2. ASSUME wpc' = "clearing" PROVE ~Armed(Side)'
  BY <1>2 DEF Spending, Armed, Side
<1>3. \A d \in torn' : handler'[d] = NoHandler
  BY DEF Spending, TypeOK
<1>4. torn' # {} => ~InUse'
  BY DEF Spending
<1> QED
  BY <1>1, <1>2, <1>3, <1>4 DEF Spending, SpentQueued

LEMMA SpendingCallback ==
  ASSUME TypeOK, Spending, ~InUse => ~InUse', W_CallbackOp
  PROVE  Spending'
<1> PICK h : h = handler[Side]
  OBVIOUS
<1>1. wpc = "called" /\ Operation(h) /\ UNCHANGED <<revents, torn>> /\ Side' = Side
  BY DEF W_CallbackOp, CallbackReturns, watch, Side
<1>2. Side \in Dirs /\ handler \in [Dirs -> Handler] /\ h \in Handler
  BY DEF TypeOK, Side, Dirs
<1>3. SpentQueued(m_queue') \subseteq torn
  BY Shifts, SpentShifts
<1>4. \A d \in Dirs : ~Spent(handler[d])
  BY <1>1 DEF Spending
<1>5. Side \notin torn
  BY <1>1, Handlers DEF Spending
<1>6. h.size \in Nat /\ h.got \in Nat
  BY <1>2, Handlers
<1>7. PICK n \in Outcomes(Side, h.size - h.got) :
        \/ wpc' = "clearing" /\ handler' = [handler EXCEPT ![Side] = Ran(h)]
        \/ wpc' = "drain" /\ handler' = [handler EXCEPT ![Side] = [h EXCEPT !.got = @ + Moved(n)]]
  BY <1>2 DEF W_CallbackOp, CallbackReturns
<1>8. \A d \in Dirs : d # Side => handler'[d] = handler[d]
  BY <1>2, <1>7
<1>9. CASE wpc' = "clearing" /\ handler' = [handler EXCEPT ![Side] = Ran(h)]
  <2>1. handler'[Side] = Ran(h) /\ ~Operation(Ran(h))
    BY <1>1, <1>2, <1>9, Handlers
  <2> QED
    BY <1>1, <1>3, <1>4, <1>5, <1>8, <1>9, <2>1 DEF Spending, SpentQueued, Armed, TypeOK
<1>10. CASE wpc' = "drain" /\ handler' = [handler EXCEPT ![Side] = [h EXCEPT !.got = @ + Moved(n)]]
  <2>1. Moved(n) \in Nat
    BY <1>2, <1>6, Outcome
  <2>2. handler'[Side] \in Handler /\ Operation(handler'[Side])
    BY <1>1, <1>2, <1>10, <2>1, HandlerGains
  <2>3. ~Spent(handler'[Side])
    BY <2>2, Handlers
  <2> QED
    BY <1>1, <1>3, <1>4, <1>5, <1>8, <1>10, <2>3 DEF Spending, SpentQueued, TypeOK
<1> QED
  BY <1>7, <1>9, <1>10

LEMMA SpendingTaking ==
  ASSUME TypeOK, Spending, Taking
  PROVE  Spending'
<1>1. PICK t \in Threads : Destroy(t) \/ DestroyTakesSend(t)
  BY DEF Taking
<1>2. PICK c \in Dirs, pc \in {"taking", "taken"} :
        /\ Takes(c) /\ tpc' = [tpc EXCEPT ![t] = pc]
        /\ CancelOne(c) \in Seq(Closure)
        /\ m_queue' = m_queue \o CancelOne(c)
        /\ \A i \in 1..Len(CancelOne(c)) : \A e \in Dirs :
             CancelOne(c)[i].held[e] = IF e = c THEN handler[c] ELSE NoHandler
  BY <1>1, TakesIs
<1>3. UNCHANGED <<wpc, revents>> /\ Side' = Side /\ Side \in Dirs
  BY <1>1 DEF Destroy, DestroyTakesSend, watch, Side, Dirs
<1>4. /\ handler' = [handler EXCEPT ![c] = NoHandler] /\ handler \in [Dirs -> Handler]
      /\ torn' = IF Spent(handler[c]) THEN torn \cup {c} ELSE torn
  BY <1>2 DEF Takes, TypeOK
<1>5. SpentQueued(m_queue') \subseteq torn'
  <2>1. SpentQueued(CancelOne(c)) \subseteq torn'
    BY <1>2, <1>4, Handlers DEF SpentQueued
  <2>2. SpentQueued(m_queue') \subseteq torn \cup SpentQueued(CancelOne(c))
    BY <1>2, SpentAdded
  <2> QED
    BY <1>4, <2>1, <2>2
<1>6. ~InUse'
  BY <1>2 DEF InUse, TypeOK
<1>7. \A d \in Dirs : handler'[d] = handler[d] \/ handler'[d] = NoHandler
  BY <1>4
<1>8. \A d \in torn' : handler'[d] = NoHandler
  BY <1>4 DEF Spending, TypeOK
<1>9. \A d \in Dirs : Spent(handler'[d]) => wpc' = "clearing" /\ Side' = d
  BY <1>3, <1>7, Handlers DEF Spending
<1>10. wpc' = "clearing" => ~Armed(Side)'
  BY <1>3, <1>7, Handlers DEF Spending, Armed
<1> QED
  BY <1>5, <1>6, <1>8, <1>9, <1>10 DEF Spending, SpentQueued

LEMMA SpendingQueued ==
  ASSUME TypeOK, Spending, Waiting \/ Cancelling, Turns
  PROVE  SpentQueued(m_queue') \subseteq torn
<1>1. m_queue \in Seq(Closure)
  BY DEF TypeOK
<1>2. PICK c \in Closure : /\ m_queue' = Append(m_queue, c)
                           /\ c.what = "cancel" => \A d \in Dirs : ~Spent(c.held[d])
  <2>1. CASE Waiting
    <3>1. PICK t \in Threads : Connect(t) \/ ConnectFails(t) \/ Disconnect(t) \/ (DestroyEnd(t) /\ attached)
      BY <2>1 DEF Waiting
    <3>2. PICK what \in {"add", "remove"} : m_queue' = Append(m_queue, [what |-> what, by |-> t])
      BY <3>1 DEF Connect, ConnectFails, Disconnect, DestroyEnd, Push
    <3>3. [what |-> what, by |-> t] \in Closure /\ [what |-> what, by |-> t].what # "cancel"
      BY DEF Closure
    <3> QED
      BY <3>2, <3>3
  <2>2. CASE Cancelling
    <3>1. m_queue' = Append(m_queue, Cancel) /\ m_mtx # Worker
      BY <2>2, Nobody DEF Cancelling, DisconnectInline, DisconnectEnd, Push, Call, TypeOK
    <3>2. Cancel \in Closure /\ Cancel.held = handler
      BY DEF Cancel, Closure, TypeOK
    <3>3. \A d \in Dirs : ~Spent(handler[d])
      BY <3>1 DEF Spending, TypeOK
    <3> QED
      BY <3>1, <3>2, <3>3
  <2> QED
    BY <2>1, <2>2
<1>3. PICK s \in Seq(Closure) : m_queue' = m_queue \o s /\ \A i \in 1..Len(s) : i = 1 /\ s[i] = c
  <2>1. \E s \in Seq(Closure) : /\ Append(m_queue, c) = m_queue \o s /\ Len(s) = 1
                                /\ \A i \in 1..Len(s) : i = 1 /\ s[i] = c
    BY <1>1, OneElement
  <2> QED
    BY <1>2, <2>1
<1>4. SpentQueued(s) = {}
  BY <1>2, <1>3 DEF SpentQueued
<1> QED
  BY <1>3, <1>4, SpentAdded

LEMMA SpendingQuiet ==
  ASSUME TypeOK, Spending, ~InUse => ~InUse', QuietStep
  PROVE  Spending'
<1> USE DEF watch, executor, easy, client, threads, network, history
<1>1. SpentQueued(m_queue') \subseteq torn
  BY QuietSteps, QuietShifts, SpentShifts
<1>2. handler \in [Dirs -> Handler] /\ Side \in Dirs
  BY DEF TypeOK, Side, Dirs
<1>3. ASSUME NEW a \in Observers, SetOnDataAvailable(a) \/ RecvRaw(a) \/ \E pause \in BOOLEAN : PauseReceive(a, pause)
      PROVE  Spending'
  <2>1. m_mtx # Worker /\ InUse /\ torn' = torn /\ wpc' \in {wpc, "run"}
    BY <1>3, Nobody DEF SetOnDataAvailable, RecvRaw, PauseReceive, Call
  <2>2. \A d \in Dirs : handler'[d] = handler[d] \/ ~Spent(handler'[d])
    BY <1>2, <1>3 DEF SetOnDataAvailable, RecvRaw, PauseReceive, Spent
  <2> QED
    BY <1>1, <2>1, <2>2, SpendingCalls
<1>4. ASSUME NEW ok \in BOOLEAN, ConnectOnWorker(ok)
      PROVE  Spending'
  <2>1. m_mtx # Worker /\ InUse /\ torn' = torn /\ wpc' \in {wpc, "run"} /\ UNCHANGED handler
    BY <1>4, Nobody DEF ConnectOnWorker, Call
  <2> QED
    BY <1>1, <2>1, SpendingCalls
<1>5. ASSUME UNCHANGED <<torn, handler, wpc, revents>>
      PROVE  Spending'
  BY <1>1, <1>5, SpendingClears
<1>6. ASSUME NEW t \in Threads, \/ ConnectPerform(t) \/ ConnectDone(t) \/ ConnectUndone(t)
                                \/ DestroyEnd(t) /\ ~attached
      PROVE  UNCHANGED <<torn, handler, wpc, revents>>
  BY <1>6 DEF ConnectPerform, ConnectDone, ConnectUndone, DestroyEnd
<1>7. ASSUME Peer \/ UNCHANGED vars PROVE UNCHANGED <<torn, handler, wpc, revents>>
  BY <1>7 DEF Peer, PeerSend, PeerClose, PeerReset, PeerRead, vars
<1>8. ASSUME \/ W_Call \/ IsConnected \/ W_Return \/ W_Prepare \/ W_Poll
             \/ W_Callback \/ W_CallbackThrows \/ W_Pause
      PROVE  Spending'
  <2>1. UNCHANGED <<torn, handler>> /\ wpc # "clearing" /\ wpc' # "clearing"
    BY <1>8 DEF W_Call, IsConnected, W_Return, W_Prepare, W_Poll, W_Callback, W_CallbackThrows, W_Pause
  <2> QED
    BY <1>1, <2>1, SpendingClears
<1>9. ASSUME W_CallbackIdle \/ W_CallbackUser \/ W_Clear
      PROVE  Spending'
  <2>1. UNCHANGED torn /\ wpc' # "clearing"
    BY <1>9 DEF W_CallbackIdle, W_CallbackUser, W_Clear, CallbackReturns
  <2>2. UNCHANGED handler \/ Clears(Side)
    BY <1>9 DEF W_CallbackIdle, W_CallbackUser, W_Clear
  <2>3. \A d \in Dirs : handler'[d] = handler[d] \/ handler'[d] = NoHandler
    BY <1>2, <2>2 DEF Clears
  <2>4. wpc = "clearing" => handler'[Side] = NoHandler
    BY <1>2, <1>9 DEF W_CallbackIdle, W_CallbackUser, W_Clear, Clears
  <2> QED
    BY <1>1, <2>1, <2>3, <2>4, SpendingClears
<1> QED
  BY <1>3, <1>4, <1>5, <1>6, <1>7, <1>8, <1>9 DEF QuietStep

LEMMA SpendingStep ==
  ASSUME TypeOK, Turns, Spending, [Next]_vars
  PROVE  Spending'
<1>1. ~InUse => ~InUse'
  BY NoReturn
<1>2. CASE Moving
  <2>1. ASSUME NEW a \in Callers, NEW d \in Dirs, NEW kind \in {"one", "all"}, NEW size \in Sizes,
               \/ StartDisconnected(a, d, kind, size)
               \/ StartInline(a, d, kind, size)
               \/ StartArmed(a, d, kind, size)
        PROVE  Spending'
    <3>1. m_mtx # Worker /\ InUse /\ torn' = torn /\ wpc' \in {wpc, "run"}
      BY <2>1, Nobody DEF StartDisconnected, StartInline, StartArmed, Starts, Call
    <3>2. \/ UNCHANGED handler
          \/ \E n : handler' = [handler EXCEPT ![d] = [kind |-> kind, size |-> size, got |-> Moved(n)]]
      BY <2>1 DEF StartDisconnected, StartInline, StartArmed
    <3>3. \A e \in Dirs : handler'[e] = handler[e] \/ ~Spent(handler'[e])
      BY <3>2 DEF Spent, TypeOK
    <3>4. SpentQueued(m_queue') \subseteq torn
      BY <2>1, Shifts, SpentShifts
    <3> QED
      BY <3>1, <3>3, <3>4, SpendingCalls
  <2> QED
    BY <1>1, <1>2, <2>1, SpendingCallback DEF Moving
<1>3. CASE Waiting
  <2>1. UNCHANGED <<torn, handler, wpc, revents>>
    BY <1>3 DEF Waiting, Connect, ConnectFails, Disconnect, DestroyEnd, client, history, watch
  <2> QED
    BY <1>1, <1>3, <2>1, SpendingQueued, SpendingClears
<1>4. CASE Cancelling
  <2>1. m_mtx # Worker /\ torn' = torn /\ wpc' \in {wpc, "run"} /\ TakesHandlers
    BY <1>4, Nobody DEF Cancelling, DisconnectInline, DisconnectEnd, Call, TypeOK
  <2>2. InUse
    BY <1>4 DEF Cancelling, DisconnectInline, DisconnectEnd, Call, InUse, Turns
  <2>3. \A d \in Dirs : ~Spent(handler'[d])
    BY <2>1, Handlers DEF TakesHandlers
  <2> QED
    BY <1>4, <2>1, <2>2, <2>3, SpendingQueued, SpendingCalls
<1>5. CASE Running
  <2>1. UNCHANGED <<torn, handler>> /\ wpc # "clearing" /\ wpc' # "clearing"
    BY <1>5 DEF Running, W_Result, W_Empty, W_Cancel, W_Add, W_Remove, Pop, client, history
  <2>2. SpentQueued(m_queue') \subseteq torn
    BY <1>5, ClosuresShift, SpentShifts DEF Running
  <2> QED
    BY <1>1, <2>1, <2>2, SpendingClears
<1> QED
  BY <1>1, <1>2, <1>3, <1>4, <1>5, Steps, SpendingQuiet, SpendingTaking

-------------------------------------------------------------------------------
(* The destructor's closures.                                                *)

LEMMA EndingInUse ==
  ASSUME Ordered', InUse'
  PROVE  Ending'
  BY DEF Ending, InUse, Departed

LEMMA EndingMoves ==
  ASSUME TypeOK, Ending, NEW k \in {0, 1}, Shifted(k), UNCHANGED <<tpc, attached>>,
         InUse \/ (/\ busy' \subseteq busy /\ cut \subseteq cut'
                   /\ \A d \in Dirs : handler[d] = NoHandler => handler'[d] = NoHandler)
  PROVE  Ending'
<1>1. ASSUME NEW i \in 1..Len(m_queue'), m_queue'[i].what \in {"cancel", "remove"}
      PROVE  i + k \in 1..Len(m_queue) /\ m_queue'[i] = m_queue[i + k]
  BY <1>1 DEF Shifted
<1>2. Ordered'
  <2> SUFFICES ASSUME NEW i \in 1..Len(m_queue'), NEW j \in 1..Len(m_queue'),
                      m_queue'[i].what = "cancel", m_queue'[j].what = "remove"
               PROVE  i < j
    BY DEF Ordered
  <2>1. i + k < j + k
    BY <1>1 DEF Ending, Ordered
  <2> QED
    BY <2>1
<1>3. CASE InUse
  BY <1>2, <1>3, EndingInUse DEF InUse
<1>4. CASE ~InUse
  <2>1. ASSUME NEW i \in 1..Len(m_queue'), NEW d \in Dirs, Departed, m_queue'[i].what = "cancel"
        PROVE  ~Operation(m_queue'[i].held[d]) /\ ~Spent(m_queue'[i].held[d])
    BY <1>1, <2>1 DEF Ending
  <2>2. (Departed' <=> Departed) /\ (InUse' <=> InUse)
    BY DEF Departed, InUse
  <2>3. ASSUME NEW t \in Threads
        PROVE  /\ tpc'[t] = "taking" => handler'["recv"] = NoHandler
               /\ tpc'[t] \in {"taken", "destroying", "gone"} => \A d \in Dirs : handler'[d] = NoHandler
    BY <1>4 DEF Ending, Dirs
  <2>4. busy' \subseteq cut'
    BY <1>4 DEF Ending
  <2> QED
    BY <1>2, <2>1, <2>2, <2>3, <2>4 DEF Ending
<1> QED
  BY <1>3, <1>4

LEMMA EndingQuiet ==
  ASSUME TypeOK, Turns, Ending, QuietStep
  PROVE  Ending'
<1> USE DEF watch, executor, easy, client, threads, network, history
<1>1. Quiet /\ Shifted(0)
  BY QuietSteps, QuietShifts
<1>2. Ordered'
  BY <1>1 DEF Quiet, Ending, Ordered
<1>3. ASSUME NEW t \in Threads, ConnectPerform(t) \/ ConnectDone(t) \/ ConnectUndone(t)
      PROVE  Ending'
  <2>1. PICK pc \in {"performing", "idle"} : tpc' = [tpc EXCEPT ![t] = pc] /\ tpc[t] # "idle"
    BY <1>3 DEF ConnectPerform, ConnectDone, ConnectUndone
  <2>2. \A u \in Threads : tpc'[u] \in {"performing", "idle"}
    BY <2>1 DEF Turns, TypeOK
  <2>3. InUse'
    BY <2>2 DEF InUse
  <2> QED
    BY <1>2, <2>3, EndingInUse
<1>4. ASSUME NEW t \in Threads, DestroyEnd(t), ~attached
      PROVE  Ending'
  <2>1. tpc[t] = "taken" /\ tpc' = [tpc EXCEPT ![t] = "gone"]
        /\ UNCHANGED <<handler, m_queue, busy, cut, attached>>
    BY <1>4 DEF DestroyEnd
  <2>2. ~InUse /\ Departed
    BY <1>4, <2>1 DEF InUse, Departed
  <2>3. \A u \in Threads : tpc'[u] \in {"taking", "taken", "destroying", "gone"} => u = t /\ tpc'[u] = "gone"
    BY <2>1 DEF Turns, TypeOK
  <2>4. \A d \in Dirs : handler'[d] = NoHandler
    BY <2>1 DEF Ending
  <2>5. busy' \subseteq cut'
    BY <2>1, <2>2 DEF Ending
  <2>6. \A i \in 1..Len(m_queue'), d \in Dirs :
          m_queue'[i].what = "cancel" => ~Operation(m_queue'[i].held[d]) /\ ~Spent(m_queue'[i].held[d])
    BY <2>1, <2>2 DEF Ending
  <2> QED
    BY <1>2, <2>3, <2>4, <2>5, <2>6 DEF Ending
<1>5. ASSUME NEW a \in Observers, SetOnDataAvailable(a) \/ RecvRaw(a) \/ \E pause \in BOOLEAN : PauseReceive(a, pause)
      PROVE  Ending'
  <2>1. UNCHANGED <<tpc, attached>> /\ InUse
    BY <1>5 DEF SetOnDataAvailable, RecvRaw, PauseReceive, Call
  <2> QED
    BY <1>1, <2>1, EndingMoves
<1>6. ASSUME NEW ok \in BOOLEAN, ConnectOnWorker(ok) PROVE Ending'
  <2>1. InUse'
    BY <1>6 DEF ConnectOnWorker, Call, InUse
  <2> QED
    BY <1>2, <2>1, EndingInUse
<1>7. W_Call \/ IsConnected \/ W_Return \/ W_Prepare \/ W_Poll \/ W_Callback \/ W_CallbackThrows \/ W_Pause
      => UNCHANGED <<tpc, attached, handler, busy, cut>>
  BY DEF W_Call, IsConnected, W_Return, W_Prepare, W_Poll, W_Callback, W_CallbackThrows, W_Pause
<1>8. ASSUME W_CallbackIdle \/ W_CallbackUser \/ W_Clear
      PROVE  /\ UNCHANGED <<tpc, attached, busy, cut>>
             /\ \A d \in Dirs : handler[d] = NoHandler => handler'[d] = NoHandler
  <2>1. UNCHANGED <<tpc, attached, busy, cut>> /\ (UNCHANGED handler \/ Clears(Side))
    BY <1>8 DEF W_CallbackIdle, W_CallbackUser, W_Clear, CallbackReturns
  <2> QED
    BY <2>1 DEF Clears, TypeOK
<1>9. Peer \/ UNCHANGED vars => UNCHANGED <<tpc, attached, handler, busy>> /\ cut \subseteq cut'
  BY DEF Peer, PeerSend, PeerClose, PeerReset, PeerRead, vars
<1>10. ASSUME UNCHANGED <<tpc, attached, busy>>, cut \subseteq cut',
              \A d \in Dirs : handler[d] = NoHandler => handler'[d] = NoHandler
       PROVE  Ending'
  BY <1>1, <1>10, EndingMoves
<1>11. CASE W_Call \/ IsConnected \/ W_Return \/ W_Prepare \/ W_Poll \/ W_Callback \/ W_CallbackThrows \/ W_Pause
  BY <1>7, <1>10, <1>11
<1>12. CASE W_CallbackIdle \/ W_CallbackUser \/ W_Clear
  BY <1>8, <1>10, <1>12
<1>13. CASE Peer \/ UNCHANGED vars
  BY <1>9, <1>10, <1>13
<1> QED
  BY <1>3, <1>4, <1>5, <1>6, <1>11, <1>12, <1>13 DEF QuietStep

(* Closures are queued while none waits: a cancel comes first.               *)
LEMMA EndingQueued ==
  ASSUME TypeOK, Ending, NoneWaits, NEW s \in Seq(Closure), m_queue' = m_queue \o s,
         \A i, j \in 1..Len(s) : s[i].what = "cancel" /\ s[j].what = "remove" => i < j
  PROVE  Ordered'
<1> SUFFICES ASSUME NEW i \in 1..Len(m_queue'), NEW j \in 1..Len(m_queue'),
                    m_queue'[i].what = "cancel", m_queue'[j].what = "remove"
             PROVE  i < j
  BY DEF Ordered
<1>1. m_queue \in Seq(Closure) /\ Len(m_queue) \in Nat /\ Len(s) \in Nat
  BY LenProperties DEF TypeOK
<1>2. j \notin 1..Len(m_queue)
  <2>1. ASSUME j \in 1..Len(m_queue) PROVE FALSE
    <3>1. m_queue'[j] = m_queue[j]
      BY <1>1, <2>1, Concatenated
    <3> QED
      BY <2>1, <3>1 DEF NoneWaits, Waits
  <2> QED
    BY <2>1
<1>3. PICK m \in 1..Len(s) : j = Len(m_queue) + m
  BY <1>1, <1>2, Concatenated
<1>4. m_queue'[j] = s[m]
  BY <1>1, <1>3, Concatenated
<1>5. CASE i \in 1..Len(m_queue)
  BY <1>1, <1>3, <1>5
<1>6. ASSUME NEW l \in 1..Len(s), i = Len(m_queue) + l PROVE i < j
  <2>1. m_queue'[i] = s[l]
    BY <1>1, <1>6, Concatenated
  <2>2. l < m
    BY <1>4, <2>1
  <2> QED
    BY <1>1, <1>3, <1>6, <2>2
<1>7. i \in 1..Len(m_queue) \/ \E l \in 1..Len(s) : i = Len(m_queue) + l
  BY <1>1, Concatenated
<1> QED
  BY <1>5, <1>6, <1>7

LEMMA EndingWaiting ==
  ASSUME TypeOK, Turns, Ending, Waiting
  PROVE  Ending'
<1>1. PICK t \in Threads : Connect(t) \/ ConnectFails(t) \/ Disconnect(t) \/ (DestroyEnd(t) /\ attached)
  BY DEF Waiting
<1>2. PICK what \in {"add", "remove"}, pc \in {"adding", "undoing", "removing", "destroying"} :
        /\ m_queue' = Append(m_queue, [what |-> what, by |-> t])
        /\ tpc' = [tpc EXCEPT ![t] = pc]
        /\ pc = "destroying" => DestroyEnd(t) /\ attached
        /\ tpc[t] \in {"performing", "taken"} \/ \A u \in Threads : tpc[u] = "idle"
  BY <1>1 DEF Connect, ConnectFails, Disconnect, DestroyEnd, Push, Settled
<1> PICK c : c = [what |-> what, by |-> t]
  OBVIOUS
<1>3. c \in Closure /\ c.what = what /\ m_queue \in Seq(Closure)
  BY DEF Closure, TypeOK
<1>4. PICK s \in Seq(Closure) : /\ m_queue' = m_queue \o s /\ Len(s) = 1
                                /\ \A i \in 1..Len(s) : i = 1 /\ s[i] = c
  <2>1. \E s \in Seq(Closure) : /\ Append(m_queue, c) = m_queue \o s /\ Len(s) = 1
                                /\ \A i \in 1..Len(s) : i = 1 /\ s[i] = c
    BY <1>3, OneElement
  <2>2. m_queue' = Append(m_queue, c)
    BY <1>2
  <2> QED
    BY <2>1, <2>2
<1>5. NoneWaits
  BY <1>2, Waiter DEF Turns, Pending
<1>6. \A i, j \in 1..Len(s) : s[i].what = "cancel" /\ s[j].what = "remove" => i < j
  BY <1>3, <1>4
<1>7. Ordered'
  BY <1>4, <1>5, <1>6, EndingQueued
<1>8. \A u \in Threads : tpc'[u] \in {"idle", pc} /\ (u # t => tpc'[u] = "idle")
  BY <1>2 DEF Turns, TypeOK
<1>9. CASE pc # "destroying"
  <2>1. InUse'
    BY <1>8, <1>9 DEF InUse
  <2> QED
    BY <1>7, <2>1, EndingInUse
<1>10. CASE pc = "destroying"
  <2>1. tpc[t] = "taken" /\ attached' /\ UNCHANGED <<handler, busy, cut>>
    BY <1>2, <1>10 DEF DestroyEnd, easy, client, history
  <2>2. ~Departed'
    BY <1>8, <1>10, <2>1 DEF Departed
  <2>3. \A d \in Dirs : handler'[d] = NoHandler
    BY <2>1 DEF Ending
  <2>4. busy' \subseteq cut'
    BY <2>1 DEF Ending, InUse
  <2> QED
    BY <1>7, <1>8, <1>10, <2>2, <2>3, <2>4 DEF Ending
<1> QED
  BY <1>9, <1>10

LEMMA EndingCancelling ==
  ASSUME TypeOK, Turns, Ending, Cancelling
  PROVE  Ending'
<1> PICK c : c = Cancel
  OBVIOUS
<1>1. c \in Closure /\ c.what = "cancel" /\ m_queue \in Seq(Closure)
  BY DEF Cancel, Closure, TypeOK
<1>2. m_queue' = Append(m_queue, c)
  BY DEF Cancelling, DisconnectInline, DisconnectEnd, Push
<1>3. PICK s \in Seq(Closure) : /\ m_queue' = m_queue \o s /\ Len(s) = 1
                                /\ \A i \in 1..Len(s) : i = 1 /\ s[i] = c
  <2>1. \E s \in Seq(Closure) : /\ Append(m_queue, c) = m_queue \o s /\ Len(s) = 1
                                /\ \A i \in 1..Len(s) : i = 1 /\ s[i] = c
    BY <1>1, OneElement
  <2> QED
    BY <1>2, <2>1
<1>4. \A i, j \in 1..Len(s) : s[i].what = "cancel" /\ s[j].what = "remove" => i < j
  BY <1>1, <1>3
<1>5. Ordered'
  BY <1>3, <1>4, TurnsCancelling, EndingQueued
<1>6. InUse'
  <2>1. CASE \E a \in Closers : DisconnectInline(a)
    BY <2>1 DEF DisconnectInline, Call, InUse
  <2>2. ASSUME NEW t \in Threads, DisconnectEnd(t) PROVE InUse'
    <3>1. tpc' = [tpc EXCEPT ![t] = "idle"] /\ tpc[t] = "removed"
      BY <2>2 DEF DisconnectEnd
    <3>2. \A u \in Threads : u # t => tpc[u] = "idle"
      BY <3>1 DEF Turns
    <3> QED
      BY <3>1, <3>2 DEF TypeOK, InUse
  <2> QED
    BY <2>1, <2>2 DEF Cancelling
<1> QED
  BY <1>5, <1>6, EndingInUse

LEMMA EndingTaking ==
  ASSUME TypeOK, Turns, Phases, Spending, Ending, \A d \in Dirs \ torn : Owned(d), Taking
  PROVE  Ending'
<1>1. PICK t \in Threads : Destroy(t) \/ DestroyTakesSend(t)
  BY DEF Taking
<1>2. PICK c \in Dirs, pc \in {"taking", "taken"} :
        /\ Takes(c) /\ tpc' = [tpc EXCEPT ![t] = pc]
        /\ m_queue \in Seq(Closure) /\ CancelOne(c) \in Seq(Closure)
        /\ m_queue' = m_queue \o CancelOne(c)
        /\ \A i \in 1..Len(CancelOne(c)) :
             /\ CancelOne(c)[i].what = "cancel"
             /\ \A e \in Dirs : CancelOne(c)[i].held[e] = IF e = c THEN handler[c] ELSE NoHandler
  BY <1>1, TakesIs
<1>3. Ordered'
  <2>1. NoneWaits
    BY TurnsTaking
  <2> QED
    BY <1>2, <2>1, EndingQueued
<1>4. tpc[t] \in {"idle", "taking"} /\ \A u \in Threads : u # t => tpc[u] = "idle"
  BY <1>1 DEF Destroy, DestroyTakesSend, Settled, Turns
<1>5. \A u \in Threads : u # t => tpc'[u] = "idle"
  BY <1>2, <1>4 DEF TypeOK
<1>6. tpc'[t] = "taking" => handler'["recv"] = NoHandler
  <2>1. CASE Destroy(t)
    BY <2>1 DEF Destroy, Takes, TypeOK, Dirs
  <2>2. CASE DestroyTakesSend(t)
    BY <2>2 DEF DestroyTakesSend, TypeOK
  <2> QED
    BY <1>1, <2>1, <2>2
<1>7. tpc'[t] = "taken" => \A d \in Dirs : handler'[d] = NoHandler
  <2>1. CASE Destroy(t)
    BY <2>1 DEF Destroy, TypeOK
  <2>2. CASE DestroyTakesSend(t)
    <3>1. handler["recv"] = NoHandler /\ handler' = [handler EXCEPT !["send"] = NoHandler]
      BY <2>2 DEF DestroyTakesSend, Takes, Ending
    <3> QED
      BY <3>1 DEF TypeOK, Dirs
  <2> QED
    BY <1>1, <2>1, <2>2
<1>8. busy' \subseteq cut'
  <2>1. CASE Destroy(t)
    BY <2>1 DEF Destroy
  <2>2. CASE DestroyTakesSend(t)
    BY <2>2 DEF DestroyTakesSend, Ending, InUse
  <2> QED
    BY <1>1, <2>1, <2>2
<1>9. ASSUME Departed', NEW d \in Dirs, NEW i \in 1..Len(m_queue'), m_queue'[i].what = "cancel"
      PROVE  ~Operation(m_queue'[i].held[d]) /\ ~Spent(m_queue'[i].held[d])
  <2>1. ~attached
    <3>1. UNCHANGED attached
      BY <1>1 DEF Destroy, DestroyTakesSend, easy
    <3>2. \A u \in Threads : tpc'[u] # "gone"
      BY <1>2, <1>5 DEF TypeOK
    <3> QED
      BY <1>9, <3>1, <3>2 DEF Departed
  <2>2. ~Operation(handler[c])
    <3>1. ~m_is_connected
      BY <1>4, <2>1 DEF Phases
    <3>2. CASE c \in torn
      BY <3>2, Handlers DEF Spending
    <3>3. CASE c \notin torn
      BY <3>1, <3>3 DEF Owned, Armed
    <3> QED
      BY <3>2, <3>3
  <2>3. ~Spent(handler[c])
    BY <2>1 DEF Spending, Phases, Watching, TypeOK
  <2>4. CASE i \in 1..Len(m_queue)
    <3>1. m_queue'[i] = m_queue[i]
      BY <1>2, <2>4, Concatenated
    <3>2. ~Destroy(t)
      BY <1>9, <2>4, <3>1 DEF Destroy
    <3>3. Departed
      BY <1>1, <2>1, <3>2 DEF DestroyTakesSend, Departed, InUse
    <3> QED
      BY <1>9, <2>4, <3>1, <3>3 DEF Ending
  <2>5. ASSUME NEW j \in 1..Len(CancelOne(c)), i = Len(m_queue) + j
        PROVE  ~Operation(m_queue'[i].held[d]) /\ ~Spent(m_queue'[i].held[d])
    <3>1. m_queue'[i] = CancelOne(c)[j]
      BY <1>2, <2>5, Concatenated
    <3>2. m_queue'[i].held[d] \in {handler[c], NoHandler}
      BY <1>2, <3>1
    <3> QED
      BY <2>2, <2>3, <3>2, Handlers
  <2> QED
    BY <1>2, <2>4, <2>5, Concatenated
<1>10. tpc'[t] = pc
  BY <1>2 DEF TypeOK
<1> QED
  BY <1>3, <1>5, <1>6, <1>7, <1>8, <1>9, <1>10 DEF Ending

LEMMA EndingRunning ==
  ASSUME TypeOK, Turns, Ending, Running
  PROVE  Ending'
<1>1. Shifted(1) /\ 1 \in 1..Len(m_queue) /\ m_queue[1] = Head(m_queue)
  BY ClosuresShift DEF Running
<1>2. CASE W_Result \/ W_Empty \/ W_Cancel
  <2>1. UNCHANGED <<tpc, attached, handler, cut>> /\ busy' \subseteq busy
    BY <1>2 DEF W_Result, W_Empty, W_Cancel, easy, client, threads, history
  <2> QED
    BY <1>1, <2>1, EndingMoves
<1>3. CASE W_Add \/ W_Remove
  <2>1. Waits(m_queue[1]) /\ m_queue[1] \in Closure
    BY <1>1, <1>3, ElementOfSeq DEF W_Add, W_Remove, Pop, Waits, TypeOK
  <2>2. ASSUME NEW i \in 1..Len(m_queue'), m_queue'[i].what = "remove" PROVE FALSE
    <3>1. i + 1 \in 1..Len(m_queue) /\ Waits(m_queue[i + 1])
      BY <1>1, <2>2 DEF Shifted, Waits
    <3>2. i + 1 = 1
      BY <1>1, <2>1, <3>1 DEF Turns
    <3> QED
      BY <3>2
  <2>3. Ordered'
    BY <2>2 DEF Ordered
  <2>4. PICK t \in Threads : t = m_queue[1].by
    BY <2>1, ClosureFields DEF Waits
  <2>5. tpc[t] # "idle" /\ \A u \in Threads : u # t => tpc[u] = "idle"
    BY <1>1, <2>1, <2>4 DEF Turns, Waits
  <2>6. CASE W_Add
    <3>1. tpc' = [tpc EXCEPT ![t] = "added"]
      BY <1>1, <2>4, <2>6 DEF W_Add
    <3>2. InUse'
      BY <2>5, <3>1 DEF InUse, TypeOK
    <3> QED
      BY <2>3, <3>2, EndingInUse
  <2>7. CASE W_Remove
    <3>1. m_queue[1].what = "remove"
      BY <1>1, <2>7 DEF W_Remove, Pop
    <3>2. ASSUME NEW i \in 1..Len(m_queue'), m_queue'[i].what = "cancel" PROVE FALSE
      <4>1. i + 1 \in 1..Len(m_queue) /\ m_queue[i + 1].what = "cancel"
        BY <1>1, <3>2 DEF Shifted
      <4>2. i + 1 < 1
        BY <1>1, <3>1, <4>1 DEF Ending, Ordered
      <4> QED
        BY <4>2
    <3>3. tpc[t] \in {"removing", "undoing", "destroying"}
      BY <1>1, <2>4, <3>1 DEF Turns
    <3>4. PICK next \in {"removed", "undone", "gone"} :
            tpc' = [tpc EXCEPT ![t] = next] /\ (next = "gone" => tpc[t] = "destroying")
      <4>1. tpc' = [tpc EXCEPT ![t] = CASE tpc[t] = "removing" -> "removed" [] tpc[t] = "undoing" -> "undone"
                                         [] tpc[t] = "destroying" -> "gone"]
        BY <1>1, <2>4, <2>7 DEF W_Remove
      <4> QED
        BY <3>3, <4>1
    <3>5. tpc'[t] = next /\ \A u \in Threads : u # t => tpc'[u] = "idle"
      BY <2>5, <3>4 DEF TypeOK
    <3>6. CASE next # "gone"
      <4>1. InUse'
        BY <3>5, <3>6 DEF InUse
      <4> QED
        BY <2>3, <4>1, EndingInUse
    <3>7. CASE next = "gone"
      <4>1. tpc[t] = "destroying" /\ UNCHANGED <<handler, busy, cut>>
        BY <2>7, <3>4, <3>7 DEF W_Remove, client, history
      <4>2. \A d \in Dirs : handler'[d] = NoHandler
        BY <4>1 DEF Ending
      <4>3. busy' \subseteq cut'
        BY <4>1 DEF Ending, InUse
      <4> QED
        BY <2>3, <3>2, <3>5, <3>7, <4>2, <4>3 DEF Ending
    <3> QED
      BY <3>6, <3>7
  <2> QED
    BY <1>3, <2>6, <2>7
<1> QED
  BY <1>2, <1>3 DEF Running

LEMMA EndingMoving ==
  ASSUME TypeOK, Ending, Moving
  PROVE  Ending'
<1>1. Shifted(0)
  BY Shifts DEF Moving
<1>2. UNCHANGED <<tpc, attached>>
  BY DEF Moving, StartDisconnected, StartInline, StartArmed, Starts, Call, Unpause,
         W_CallbackOp, CallbackReturns, threads, easy
<1>3. ASSUME NEW a \in Callers, NEW d \in Dirs, NEW kind \in {"one", "all"}, NEW size \in Sizes,
             \/ StartDisconnected(a, d, kind, size)
             \/ StartInline(a, d, kind, size)
             \/ StartArmed(a, d, kind, size)
      PROVE  InUse
  BY <1>3 DEF StartDisconnected, StartInline, StartArmed, Starts, Call
<1>4. ASSUME W_CallbackOp
      PROVE  /\ UNCHANGED <<busy, cut>>
             /\ \A d \in Dirs : handler[d] = NoHandler => handler'[d] = NoHandler
  <2>1. handler[Side] # NoHandler
    BY <1>4, Handlers DEF W_CallbackOp
  <2>2. PICK h : handler' = [handler EXCEPT ![Side] = h]
    BY <1>4 DEF W_CallbackOp
  <2>3. UNCHANGED <<busy, cut>>
    BY <1>4 DEF W_CallbackOp, CallbackReturns
  <2> QED
    BY <2>1, <2>2, <2>3 DEF TypeOK
<1> QED
  BY <1>1, <1>2, <1>3, <1>4, EndingMoves DEF Moving

LEMMA EndingStep ==
  ASSUME IInv, [Next]_vars
  PROVE  Ending'
  BY Steps, EndingQuiet, EndingMoving, EndingWaiting, EndingCancelling, EndingRunning, EndingTaking DEF IInv

-------------------------------------------------------------------------------
LEMMA InvInit == Init => IInv
<1> SUFFICES ASSUME Init PROVE IInv
  OBVIOUS
<1>1. TypeOK /\ \A d \in Dirs : Owned(d)
  BY TypeInit, OwnedInit
<1>2. /\ Len(m_queue) = 0 /\ busy = {} /\ \A t \in Threads : tpc[t] = "idle"
      /\ m_is_connected = FALSE /\ interest = {} /\ torn = {}
      /\ wpc = "drain" /\ \A d \in Dirs : handler[d] = NoHandler
  BY DEF Init
<1>3. EndOfStream /\ Turns /\ Phases
  BY <1>2 DEF EndOfStream, Turns, Phases, Watching
<1>4. Spending
  BY <1>2, Handlers DEF Spending
<1>5. Ordered /\ InUse /\ ~Departed
  BY <1>2 DEF Ordered, InUse, Departed
<1>6. Ending
  BY <1>5 DEF Ending, InUse
<1> QED
  BY <1>1, <1>3, <1>4, <1>6 DEF IInv

LEMMA InvStep == IInv /\ [Next]_vars => IInv'
<1> SUFFICES ASSUME IInv, [Next]_vars PROVE IInv'
  OBVIOUS
<1>1. TypeOK' /\ Turns' /\ Phases'
  BY TypeStep, TurnsStep, PhasesStep DEF IInv
<1>2. EndOfStream' /\ Spending'
  BY EndOfStreamStep, SpendingStep DEF IInv
<1>3. Ending'
  BY EndingStep
<1>4. (\A d \in Dirs \ torn : Owned(d))'
  <2>1. torn \subseteq torn' /\ \A d \in Dirs \ torn : Owned(d)'
    BY OwnedStep DEF IInv
  <2>2. SUFFICES ASSUME NEW d \in (Dirs \ torn)' PROVE Owned(d)'
    OBVIOUS
  <2>3. d \in Dirs \ torn
    BY <2>1, <2>2 DEF Dirs
  <2> QED
    BY <2>1, <2>3
<1> QED
  BY <1>1, <1>2, <1>3, <1>4 DEF IInv

(* The inductive invariant, from which the other theorems are read off.      *)
THEOREM OperationsHaveOneOwner == Safe => []IInv
  BY InvInit, InvStep, PTL DEF Safe

(* The types hold, and m_mtx is held across steps only by the thread that    *)
(* waits inside connect() or disconnect(), or by the worker in a handler.    *)
THEOREM TypesHold == Safe => []TypeOK
<1>1. IInv => TypeOK
  BY DEF IInv
<1> QED
  BY <1>1, OperationsHaveOneOwner, PTL

LEMMA QueuedStands ==
  \A d : Queued(d) = {i \in 1..Len(m_queue) : Stands(m_queue[i], d)}
  BY DEF Queued, ResultsOf, CancelsOf, Positions, Stands

(* recv, recv_all, send and send_all call back exactly once, whatever the    *)
(* other threads and the peer do, also when the destructor comes meanwhile,  *)
(* unless it takes a handler that has queued its result.                     *)
THEOREM CallsBackOnce == Safe => []OneCallback
<1>1. IInv => OneCallback
  <2> SUFFICES ASSUME IInv, NEW d \in Dirs \ torn
               PROVE  /\ Armed(d) => d \in busy /\ Queued(d) = {}
                      /\ d \in busy /\ ~Armed(d) => \E i \in Positions : Queued(d) = {i}
                      /\ d \notin busy => Queued(d) = {}
    BY DEF OneCallback
  <2>1. Owned(d)
    BY DEF IInv
  <2>2. Free(m_queue, d) => Queued(d) = {}
    BY QueuedStands DEF Free
  <2>3. Single(m_queue, d) => \E i \in Positions : Queued(d) = {i}
    BY QueuedStands DEF Single, Positions
  <2> QED
    BY <2>1, <2>2, <2>3 DEF Owned
<1> QED
  BY <1>1, OperationsHaveOneOwner, PTL

(* The callback is given the number of bytes that were moved, with the same  *)
(* exception.                                                                *)
THEOREM BytesAreReported == Safe => []BytesAccounted
<1>1. IInv => BytesAccounted
  <2> SUFFICES ASSUME IInv, NEW d \in Dirs \ torn
               PROVE  /\ \A i \in ResultsOf(d) : m_queue[i].n = owed[d]
                      /\ \A i \in CancelsOf(d) : m_queue[i].held[d].got = owed[d]
                      /\ Armed(d) => handler[d].got = owed[d]
                      /\ d \notin busy => owed[d] = 0
    BY DEF BytesAccounted
  <2>1. Owned(d)
    BY DEF IInv
  <2>2. \A i \in ResultsOf(d) : m_queue[i].n = owed[d]
    BY <2>1 DEF Owned, ResultsOf, Positions, Stands, Knows
  <2>3. \A i \in CancelsOf(d) : m_queue[i].held[d].got = owed[d]
    BY <2>1 DEF Owned, CancelsOf, Positions, Stands, Knows
  <2> QED
    BY <2>1, <2>2, <2>3 DEF Owned
<1> QED
  BY <1>1, OperationsHaveOneOwner, PTL

(* A short count means that the connection ended.                            *)
THEOREM ShortMeansClosed == Safe => []AllOrClosed
<1>1. IInv => AllOrClosed
  BY DEF IInv, AllOrClosed, Owned, ResultsOf, Positions, Stands, Knows
<1> QED
  BY <1>1, OperationsHaveOneOwner, PTL

(* A connected client has its handle in the executor.                        *)
THEOREM ConnectedHandleIsDriven == Safe => []ConnectedIsDriven
<1>1. IInv => ConnectedIsDriven
  <2> SUFFICES ASSUME IInv PROVE ConnectedIsDriven
    OBVIOUS
  <2>1. m_is_connected => attached \/ \E t \in Threads : tpc[t] \in {"removed", "gone"}
    BY DEF IInv, Phases
  <2>2. ASSUME NEW d \in Dirs, Armed(d) PROVE m_is_connected
    <3>1. d \notin torn
      BY <2>2, Handlers DEF IInv, Spending, Armed
    <3> QED
      BY <2>2, <3>1 DEF IInv, Owned
  <2> QED
    BY <2>1, <2>2 DEF ConnectedIsDriven
<1> QED
  BY <1>1, OperationsHaveOneOwner, PTL

(* When the destructor returns, and while it runs for a client without a     *)
(* connection, the worker has no use for the client left.                    *)
THEOREM NothingUsesDestroyed == Safe => []DestroyedIsUnused
<1>1. IInv => DestroyedIsUnused
  <2> SUFFICES ASSUME IInv, Departed
               PROVE  /\ ~attached /\ wpc \notin {"callback", "called", "clearing", "pausing"}
                      /\ \A i \in 1..Len(m_queue), d \in Dirs :
                           m_queue[i].what = "cancel" =>
                             ~Operation(m_queue[i].held[d]) /\ ~Spent(m_queue[i].held[d])
    BY DEF DestroyedIsUnused, Departed, Positions
  <2>1. ~attached
    BY DEF IInv, Phases, Departed
  <2>2. wpc \in {"callback", "called", "clearing", "pausing"} =>
          interest = {} /\ revents # {} /\ revents \subseteq interest
    BY <2>1 DEF IInv, Phases, TypeOK, Watching
  <2>3. \A i \in 1..Len(m_queue), d \in Dirs :
          m_queue[i].what = "cancel" => ~Operation(m_queue[i].held[d]) /\ ~Spent(m_queue[i].held[d])
    BY DEF IInv, Ending
  <2> QED
    BY <2>1, <2>2, <2>3
<1> QED
  BY <1>1, OperationsHaveOneOwner, PTL

-------------------------------------------------------------------------------
(* Pausing, for clients that are used by recv, recv_all, send and send_all    *)
(* alone: a direction runs exactly as long as a handler waits there, and the  *)
(* worker pauses it only between the handler's result and its callback, when  *)
(* nobody may start the next operation.                                       *)

Flow ==
  /\ \A d \in Dirs : handler[d].kind # "user"
  /\ ~m_is_connected => wanted = {}
  /\ wanted \cap paused = {}
  /\ \A t \in Threads : tpc[t] = "adding" => paused = Dirs
  /\ wpc \in Watching => interest \cap paused = {}
  /\ wpc = "pausing" => Side \notin wanted /\ handler[Side] = NoHandler /\ (InUse => Side \in busy)
  /\ wpc = "clearing" /\ InUse => Side \in busy
  /\ attached /\ InUse =>
       \A d \in Dirs : d \in paused \/ handler[d] # NoHandler \/ (wpc = "pausing" /\ Side = d)
  /\ wpc = "poll" /\ attached => \A d \in wanted : d \in interest \/ wake

(* What a step leaves alone that does not pause, unpause, arm or poll.        *)
Flowing ==
  /\ UNCHANGED <<interest, revents, paused, wanted, attached, m_is_connected, handler>>
  /\ wake => wake'
  /\ busy \subseteq busy' \/ wpc \notin {"clearing", "pausing"}
  /\ wpc' \in {"poll", "clearing", "pausing"} \/ wpc = "pausing" => wpc' = wpc
  /\ wpc' \in Watching => wpc \in Watching
  /\ \A t \in Threads : tpc'[t] = "adding" => tpc[t] = "adding"
  /\ InUse' => InUse

LEMMA FlowingKeeps ==
  ASSUME Flow, Flowing
  PROVE  Flow'
<1>1. Side' = Side
  BY DEF Flowing, Side
<1> QED
  BY <1>1 DEF Flow, Flowing

(* A thread that moves on within connect(), disconnect() or the destructor.   *)
LEMMA MovesOn ==
  ASSUME TypeOK, NEW t \in Threads, NEW pc, tpc' = [tpc EXCEPT ![t] = pc],
         pc # "adding",
         \/ tpc[t] \notin {"taking", "taken", "destroying", "gone"}
         \/ pc \in {"taken", "destroying", "gone"}
  PROVE  /\ \A u \in Threads : tpc'[u] = "adding" => tpc[u] = "adding"
         /\ InUse' => InUse
<1>1. \A u \in Threads : u # t => tpc'[u] = tpc[u]
  BY DEF TypeOK
<1>2. tpc'[t] = pc
  BY DEF TypeOK
<1> QED
  BY <1>1, <1>2 DEF InUse

LEMMA FlowingSteps ==
  ASSUME TypeOK,
         \/ \E a \in Callers, d \in Dirs, kind \in {"one", "all"}, size \in Sizes :
              StartDisconnected(a, d, kind, size) \/ StartInline(a, d, kind, size)
         \/ \E t \in Threads : ConnectPerform(t) \/ ConnectFails(t) \/ ConnectUndone(t) \/ Disconnect(t) \/ DestroyEnd(t)
         \/ W_Call \/ IsConnected \/ W_Return \/ W_Result \/ W_Empty \/ W_Cancel
         \/ W_Callback \/ W_CallbackThrows
         \/ Peer \/ UNCHANGED vars
  PROVE  Flowing
<1> USE DEF watch, executor, easy, client, threads, network, history
<1>1. ASSUME NEW a \in Callers, NEW d \in Dirs, NEW kind \in {"one", "all"}, NEW size \in Sizes,
             StartDisconnected(a, d, kind, size) \/ StartInline(a, d, kind, size)
      PROVE  Flowing
  <2>1. /\ UNCHANGED <<interest, revents, paused, wanted, attached, m_is_connected, handler, tpc>>
        /\ wake => wake'
        /\ busy \subseteq busy'
        /\ wpc' = wpc \/ (wpc = "calling" /\ wpc' = "run")
    BY <1>1 DEF StartDisconnected, StartInline, Starts, Call, Push
  <2> QED
    BY <2>1 DEF Flowing, InUse, Watching
<1>2. ASSUME NEW t \in Threads,
             ConnectPerform(t) \/ ConnectFails(t) \/ ConnectUndone(t) \/ Disconnect(t) \/ DestroyEnd(t)
      PROVE  Flowing
  <2>1. /\ UNCHANGED <<interest, revents, paused, wanted, attached, m_is_connected, handler, busy, wpc>>
        /\ wake => wake'
    <3>1. CASE ConnectPerform(t) \/ ConnectUndone(t)
      BY <3>1 DEF ConnectPerform, ConnectUndone
    <3>2. CASE ConnectFails(t)
      BY <3>2 DEF ConnectFails, Push
    <3>3. CASE Disconnect(t)
      BY <3>3 DEF Disconnect, Push
    <3>4. CASE DestroyEnd(t)
      BY <3>4 DEF DestroyEnd, Push
    <3> QED
      BY <1>2, <3>1, <3>2, <3>3, <3>4
  <2>2. PICK pc \in {"performing", "undoing", "idle", "removing", "destroying", "gone"} :
          /\ tpc' = [tpc EXCEPT ![t] = pc]
          /\ pc \notin {"destroying", "gone"} => ~DestroyEnd(t)
    BY <1>2 DEF ConnectPerform, ConnectFails, ConnectUndone, Disconnect, DestroyEnd
  <2>3. tpc[t] \notin {"taking", "taken", "destroying", "gone"} \/ pc \in {"destroying", "gone"}
    BY <1>2, <2>2 DEF ConnectPerform, ConnectFails, ConnectUndone, Disconnect, Settled
  <2> QED
    BY <2>1, <2>2, <2>3, MovesOn DEF Flowing
<1>3. CASE W_Call \/ IsConnected \/ W_Return \/ W_Result \/ W_Empty \/ W_Cancel \/ W_CallbackThrows
  <2>1. /\ UNCHANGED <<interest, revents, paused, wanted, attached, m_is_connected, handler, tpc, wake>>
        /\ wpc \notin {"clearing", "pausing"} /\ wpc' \notin Watching
    BY <1>3 DEF W_Call, IsConnected, W_Return, W_Result, W_Empty, W_Cancel, W_CallbackThrows, Pop, Watching
  <2> QED
    BY <2>1 DEF Flowing, InUse, Watching
<1>4. CASE W_Callback
  <2>1. /\ UNCHANGED <<interest, revents, paused, wanted, attached, m_is_connected, handler, tpc, wake>>
        /\ wpc = "callback" /\ wpc' = "called"
    BY <1>4 DEF W_Callback
  <2> QED
    BY <2>1 DEF Flowing, InUse, Watching
<1>5. CASE Peer \/ UNCHANGED vars
  <2>1. UNCHANGED <<interest, revents, paused, wanted, attached, m_is_connected, handler, tpc, wake, busy, wpc>>
    BY <1>5 DEF Peer, PeerSend, PeerClose, PeerReset, PeerRead, vars
  <2> QED
    BY <2>1 DEF Flowing, InUse
<1> QED
  BY <1>1, <1>2, <1>3, <1>4, <1>5

(* While a call is possible a connected client's handle is in the executor.   *)
LEMMA CallableIsDriven ==
  ASSUME TypeOK, Phases, m_is_connected, m_mtx = None, InUse
  PROVE  attached
<1>1. \A t \in Threads : tpc[t] \notin {"removed", "gone"}
  BY ClientAssumption DEF TypeOK, InUse, Actors
<1> QED
  BY <1>1 DEF Phases

LEMMA FlowArmed ==
  ASSUME IInv, Flow, NEW a \in Callers, NEW d \in Dirs, NEW kind \in {"one", "all"}, NEW size \in Sizes,
         StartArmed(a, d, kind, size)
  PROVE  Flow'
<1> USE DEF watch, executor, easy, client, threads, network, history
<1>1. /\ m_is_connected /\ m_mtx = None /\ InUse /\ d \notin busy /\ handler[d] = NoHandler
      /\ busy' = busy \cup {d}
      /\ wpc' = wpc \/ (wpc = "calling" /\ wpc' = "run")
      /\ UNCHANGED <<interest, revents, tpc, attached, m_is_connected>>
      /\ paused' = paused \ {d} /\ wanted' = wanted \cup {d} /\ wake' = (wake \/ (d \in paused /\ attached))
  BY DEF StartArmed, Starts, Call, Unpause
<1>2. attached
  BY <1>1, CallableIsDriven DEF IInv
<1>3. PICK n \in Outcomes(d, size) :
        handler' = [handler EXCEPT ![d] = [kind |-> kind, size |-> size, got |-> Moved(n)]]
  BY DEF StartArmed
<1>4. handler \in [Dirs -> Handler]
  BY DEF IInv, TypeOK
<1>5. /\ \A e \in Dirs : e # d => handler'[e] = handler[e]
      /\ handler'[d].kind # "user" /\ handler'[d] # NoHandler
  BY <1>3, <1>4 DEF NoHandler
<1>6. Side' = Side
  BY <1>1 DEF Side
<1>7. wpc = "pausing" => Side # d
  BY <1>1 DEF Flow
<1>8. wpc = "poll" => d \in paused
  BY <1>1, <1>2 DEF Flow
<1>9. \A t \in Threads : tpc[t] # "adding"
  BY <1>1, ClientAssumption DEF IInv, TypeOK, Actors
<1>10. \A e \in Dirs : handler'[e].kind # "user"
  BY <1>5 DEF Flow
<1>11. wanted' \cap paused' = {}
  BY <1>1 DEF Flow
<1>12. wpc' = "pausing" => Side' \notin wanted' /\ handler'[Side'] = NoHandler /\ (InUse' => Side' \in busy')
  <2>1. Side \in Dirs
    BY DEF Side, Dirs
  <2> QED
    BY <2>1, <1>1, <1>5, <1>6, <1>7 DEF Flow
<1>13. wpc' = "clearing" /\ InUse' => Side' \in busy'
  BY <1>1, <1>6 DEF Flow
<1>14. attached' /\ InUse' =>
         \A e \in Dirs : e \in paused' \/ handler'[e] # NoHandler \/ (wpc' = "pausing" /\ Side' = e)
  BY <1>1, <1>5, <1>6 DEF Flow
<1>15. wpc' = "poll" => \A e \in wanted' : e \in interest' \/ wake'
  BY <1>1, <1>2, <1>8 DEF Flow
<1> QED
  BY <1>1, <1>9, <1>10, <1>11, <1>12, <1>13, <1>14, <1>15 DEF Flow, Watching

(* The steps of connect(), disconnect() and the destructor.                   *)
LEMMA FlowCalls ==
  ASSUME IInv, Flow,
         \/ \E ok \in BOOLEAN : ConnectOnWorker(ok)
         \/ \E a \in Closers : DisconnectInline(a)
         \/ \E t \in Threads : Connect(t) \/ ConnectDone(t) \/ DisconnectEnd(t) \/ Destroy(t) \/ DestroyTakesSend(t)
  PROVE  Flow'
<1> USE DEF watch, executor, easy, client, threads, network, history
<1>a. /\ TypeOK /\ Phases
      /\ wpc \in {"clearing", "pausing"} => interest # {}
      /\ wpc \in Watching => attached \/ interest = {}
      /\ handler \in [Dirs -> Handler] /\ NoHandler.kind # "user"
  BY DEF IInv, TypeOK, Phases, Watching, NoHandler
<1>1. ASSUME NEW ok \in BOOLEAN, ConnectOnWorker(ok) PROVE Flow'
  <2>1. /\ wpc' = "run" /\ paused' = Dirs /\ wanted' = {} /\ UNCHANGED <<handler, tpc>>
    BY <1>1 DEF ConnectOnWorker, Call
  <2> QED
    BY <2>1 DEF Flow, Watching
<1>2. ASSUME TakesHandlers, Reset, attached' = FALSE, UNCHANGED interest,
             wpc' \in Watching => wpc' = wpc /\ ~attached,
             \A t \in Threads : tpc'[t] # "adding"
      PROVE  Flow'
  <2>1. paused' = {} /\ wanted' = {} /\ handler' = [d \in Dirs |-> NoHandler]
    BY <1>2 DEF Reset, TakesHandlers
  <2>2. wpc' \notin {"clearing", "pausing"}
    BY <1>2, <1>a DEF Watching
  <2> QED
    BY <1>2, <1>a, <2>1, <2>2 DEF Flow, Watching
<1>3. ASSUME NEW a \in Closers, DisconnectInline(a) PROVE Flow'
  <2>1. /\ TakesHandlers /\ Reset /\ attached' = FALSE /\ UNCHANGED <<interest, tpc>>
        /\ wpc' \in Watching => wpc' = wpc /\ ~attached
        /\ \A t \in Threads : tpc[t] # "adding"
    BY <1>3 DEF DisconnectInline, Call, Settled, Watching
  <2> QED
    BY <1>2, <2>1
<1>4. ASSUME NEW t \in Threads, DisconnectEnd(t) PROVE Flow'
  <2>1. ~attached /\ TakesHandlers /\ Reset /\ UNCHANGED <<attached, interest, wpc>>
        /\ tpc[t] = "removed" /\ tpc' = [tpc EXCEPT ![t] = "idle"]
    BY <1>4, <1>a DEF DisconnectEnd, Phases
  <2>2. \A u \in Threads : tpc'[u] # "adding"
    BY <2>1, <1>a DEF IInv, Turns, TypeOK
  <2> QED
    BY <1>2, <2>1, <2>2, <1>a DEF TypeOK
<1>5. ASSUME NEW t \in Threads, Connect(t) PROVE Flow'
  <2>1. /\ ~attached /\ ~m_is_connected /\ paused' = Dirs /\ wanted' = {}
        /\ UNCHANGED <<wpc, interest, revents, attached, handler, m_is_connected>>
    BY <1>5 DEF Connect
  <2>2. wpc \notin {"clearing", "pausing"} /\ (wpc \in Watching => interest = {})
    BY <2>1, <1>a DEF Watching
  <2> QED
    BY <2>1, <2>2 DEF Flow
<1>6. ASSUME NEW t \in Threads, ConnectDone(t) PROVE Flow'
  <2>1. /\ UNCHANGED <<wpc, interest, revents, paused, wanted, attached, handler, wake, busy>>
        /\ tpc[t] = "performing" /\ tpc' = [tpc EXCEPT ![t] = "idle"]
    BY <1>6 DEF ConnectDone
  <2>2. wanted = {}
    BY <2>1, <1>a DEF Phases, Flow
  <2>3. /\ \A u \in Threads : tpc'[u] = "adding" => tpc[u] = "adding"
        /\ InUse' => InUse
    BY <2>1, <1>a, MovesOn
  <2>4. Side' = Side
    BY <2>1 DEF Side
  <2> QED
    BY <2>1, <2>2, <2>3, <2>4 DEF Flow
<1>7. ASSUME NEW t \in Threads, Destroy(t) \/ DestroyTakesSend(t) PROVE Flow'
  <2>1. /\ UNCHANGED <<wpc, interest, revents, paused, wanted, attached, m_is_connected>>
        /\ wake => wake'
        /\ \E c \in Dirs : handler' = [handler EXCEPT ![c] = NoHandler]
        /\ \E pc \in {"taking", "taken"} : tpc' = [tpc EXCEPT ![t] = pc]
    BY <1>7 DEF Destroy, DestroyTakesSend, Takes, Dirs
  <2>2. tpc'[t] \in {"taking", "taken"} /\ \A u \in Threads : tpc'[u] = "adding" => tpc[u] = "adding"
    BY <2>1, <1>a DEF TypeOK
  <2>3. ~InUse' /\ Side' = Side /\ Side \in Dirs
    BY <2>1, <2>2 DEF InUse, Side, Dirs
  <2>4. \A d \in Dirs : handler'[d] \in {handler[d], NoHandler}
    BY <2>1, <1>a
  <2> QED
    BY <2>1, <2>2, <2>3, <2>4, <1>a DEF Flow
<1> QED
  BY <1>1, <1>3, <1>4, <1>5, <1>6, <1>7

(* The worker's steps.                                                        *)
LEMMA FlowWorker ==
  ASSUME IInv, Flow,
         W_Add \/ W_Remove \/ W_Prepare \/ W_Poll \/ W_CallbackIdle
         \/ W_CallbackOp \/ W_CallbackUser \/ W_Clear \/ W_Pause
  PROVE  Flow'
<1> USE DEF watch, executor, easy, client, threads, network, history
<1>a. /\ TypeOK /\ Phases
      /\ wpc = "callback" => Side \in revents /\ Side \in interest /\ attached
      /\ handler \in [Dirs -> Handler] /\ Side \in Dirs /\ NoHandler.kind # "user"
  <2>1. wpc = "callback" => Side \in revents /\ Side \in interest
    BY DEF IInv, TypeOK, Side, Dirs
  <2> QED
    BY <2>1 DEF IInv, TypeOK, Phases, Side, Dirs, Watching, NoHandler
<1>1. CASE W_Add \/ W_Remove
  <2>1. Head(m_queue) \in Closure /\ m_queue[1] = Head(m_queue) /\ 1 \in 1..Len(m_queue)
        /\ Head(m_queue).what \in {"add", "remove"}
    BY <1>1, <1>a, PopTyped DEF W_Add, W_Remove
  <2>2. PICK t \in Threads : /\ t = Head(m_queue).by
                             /\ Head(m_queue).what = "add" => tpc[t] = "adding"
                             /\ Head(m_queue).what = "remove" => tpc[t] \in {"removing", "undoing", "destroying"}
    BY <2>1, ClosureFields DEF IInv, Turns
  <2>3. /\ wpc = "drain" /\ UNCHANGED <<wpc, interest, paused, wanted, m_is_connected, handler>>
    BY <1>1 DEF W_Add, W_Remove, Pop
  <2>4. CASE W_Add
    <3>1. tpc' = [tpc EXCEPT ![t] = "added"] /\ tpc[t] = "adding"
      BY <2>2, <2>4 DEF W_Add, Pop
    <3>2. \A u \in Threads : tpc'[u] = "adding" => tpc[u] = "adding"
      BY <3>1, <1>a, MovesOn
    <3>3. paused = Dirs
      BY <3>1 DEF Flow
    <3> QED
      BY <2>3, <3>2, <3>3 DEF Flow, Watching
  <2>5. CASE W_Remove
    <3>1. PICK next \in {"removed", "undone", "gone"} :
            /\ tpc' = [tpc EXCEPT ![t] = next]
            /\ tpc[t] = "destroying" => next = "gone"
      BY <2>2, <2>5, <1>a DEF W_Remove, Pop, TypeOK
    <3>2. tpc[t] \in {"removing", "undoing", "destroying"} /\ attached' = FALSE
      BY <2>2, <2>5 DEF W_Remove, Pop
    <3>3. \A u \in Threads : tpc'[u] = "adding" => tpc[u] = "adding"
      BY <3>1, <3>2, <1>a, MovesOn
    <3> QED
      BY <2>3, <3>2, <3>3 DEF Flow, Watching
  <2> QED
    BY <1>1, <2>4, <2>5
<1>2. CASE W_Prepare
  <2>1. /\ wpc = "drain" /\ wpc' = "poll" /\ interest' = IF attached THEN Dirs \ paused ELSE {}
        /\ UNCHANGED <<paused, wanted, attached, m_is_connected, handler, tpc, wake, busy>>
    BY <1>2 DEF W_Prepare
  <2>2. wanted \subseteq Dirs
    BY <1>a DEF TypeOK
  <2>3. interest' \cap paused' = {} /\ (attached => wanted \subseteq interest')
    BY <2>1, <2>2 DEF Flow
  <2> QED
    BY <2>1, <2>3 DEF Flow, Watching, InUse
<1>3. CASE W_Poll
  <2>1. /\ wpc = "poll" /\ wpc' \in {"drain", "callback"}
        /\ UNCHANGED <<interest, paused, wanted, attached, m_is_connected, handler, tpc, busy>>
    BY <1>3 DEF W_Poll
  <2> QED
    BY <2>1 DEF Flow, Watching, InUse
<1>4. ASSUME CallbackReturns(TRUE), wpc \in {"callback", "clearing"}, handler'[Side] = NoHandler,
             InUse => Side \in busy, \A d \in Dirs : d # Side => handler'[d] = handler[d]
      PROVE  Flow'
  <2>1. /\ wpc' = "pausing" /\ wanted' = wanted \ {Side}
        /\ UNCHANGED <<interest, revents, paused, attached, m_is_connected, tpc, busy>>
    BY <1>4 DEF CallbackReturns
  <2>2. Side' = Side
    BY <2>1 DEF Side
  <2>3. \A d \in Dirs : handler'[d].kind # "user"
    BY <1>4, <1>a DEF Flow
  <2> QED
    BY <1>4, <2>1, <2>2, <2>3 DEF Flow, Watching, InUse
<1>5. CASE W_CallbackIdle
  <2>1. /\ wpc = "callback" /\ handler[Side] = NoHandler /\ CallbackReturns(TRUE) /\ UNCHANGED handler
    BY <1>5 DEF W_CallbackIdle
  <2>2. ~InUse
    BY <2>1, <1>a DEF Flow, Watching
  <2> QED
    BY <1>4, <2>1, <2>2
<1>6. CASE W_Clear
  <2>1. wpc = "clearing" /\ Clears(Side) /\ CallbackReturns(TRUE)
    BY <1>6 DEF W_Clear
  <2>2. handler'[Side] = NoHandler /\ \A d \in Dirs : d # Side => handler'[d] = handler[d]
    BY <2>1, <1>a DEF Clears
  <2>3. InUse => Side \in busy
    BY <2>1 DEF Flow
  <2> QED
    BY <1>4, <2>1, <2>2, <2>3
<1>7. CASE W_CallbackOp
  <2>1. wpc = "called" /\ Armed(Side)
    BY <1>7 DEF W_CallbackOp, Armed
  <2>2. Side \in busy
    <3>1. Side \notin torn
      BY <2>1, Handlers DEF IInv, Spending, Armed
    <3> QED
      BY <2>1, <3>1, <1>a DEF IInv, Owned
  <2>3. /\ UNCHANGED <<interest, revents, paused, wanted, attached, m_is_connected, tpc, busy>>
        /\ wpc' \in {"clearing", "drain"}
    BY <1>7 DEF W_CallbackOp, CallbackReturns
  <2>4. PICK h : handler' = [handler EXCEPT ![Side] = h] /\ h.kind \notin {"none", "user"}
    <3>1. handler[Side] \in [kind : {"one", "all"}, size : Sizes, got : Nat]
      BY <2>1, <1>a DEF Handler, Armed, Operation, NoHandler
    <3>2. CASE handler' = [handler EXCEPT ![Side] = Ran(handler[Side])]
      <4>1. Ran(handler[Side]).kind \in {"copied", "moved"}
        BY <3>1 DEF Ran
      <4> QED
        BY <3>2, <4>1
    <3>3. ASSUME NEW n, handler' = [handler EXCEPT ![Side] = [handler[Side] EXCEPT !.got = @ + Moved(n)]]
          PROVE  \E h : handler' = [handler EXCEPT ![Side] = h] /\ h.kind \notin {"none", "user"}
      <4>1. [handler[Side] EXCEPT !.got = @ + Moved(n)].kind \in {"one", "all"}
        BY <3>1
      <4> QED
        BY <3>3, <4>1
    <3>4. \/ handler' = [handler EXCEPT ![Side] = Ran(handler[Side])]
          \/ \E n : handler' = [handler EXCEPT ![Side] = [handler[Side] EXCEPT !.got = @ + Moved(n)]]
      BY <1>7, <1>a DEF W_CallbackOp
    <3> QED
      BY <3>2, <3>3, <3>4
  <2>5. /\ handler'[Side].kind # "user" /\ handler'[Side] # NoHandler
        /\ \A d \in Dirs : d # Side => handler'[d] = handler[d]
    BY <2>4, <1>a DEF NoHandler
  <2>6. \A d \in Dirs : handler'[d].kind # "user"
    BY <2>5 DEF Flow
  <2>7. attached' /\ InUse' => \A d \in Dirs : d \in paused' \/ handler'[d] # NoHandler
    BY <2>1, <2>3, <2>5 DEF Flow, InUse
  <2>8. Side' = Side
    BY <2>3 DEF Side
  <2> QED
    BY <2>1, <2>2, <2>3, <2>6, <2>7, <2>8 DEF Flow, Watching
<1>8. ~W_CallbackUser
  BY <1>a DEF Flow, W_CallbackUser
<1>9. CASE W_Pause
  <2>1. /\ wpc = "pausing" /\ wpc' = "drain" /\ paused' = paused \cup {Side}
        /\ UNCHANGED <<wanted, interest, attached, m_is_connected, handler, tpc>>
    BY <1>9 DEF W_Pause, Pause
  <2>2. Side \in Dirs /\ paused \subseteq Dirs
    BY <1>a DEF TypeOK
  <2> QED
    BY <2>1, <2>2 DEF Flow, Watching, InUse
<1> QED
  BY <1>1, <1>2, <1>3, <1>5, <1>6, <1>7, <1>8, <1>9

(* A direction that an operation asked to run is polled, whoever connects and *)
(* disconnects meanwhile.                                                     *)
THEOREM NoUnpauseIsLost ==
  ASSUME Observers = {}
  PROVE  Safe => []NoLostUnpause
<1>1. Init => Flow
  <2> SUFFICES ASSUME Init PROVE Flow
    OBVIOUS
  <2>1. /\ wpc = "drain" /\ ~attached /\ paused = {} /\ wanted = {}
        /\ \A d \in Dirs : handler[d] = NoHandler
        /\ \A t \in Threads : tpc[t] = "idle"
    BY DEF Init
  <2> QED
    BY <2>1 DEF Flow, Watching, NoHandler
<1>2. IInv /\ Flow /\ [Next]_vars => Flow'
  <2> SUFFICES ASSUME IInv, Flow, [Next]_vars PROVE Flow'
    OBVIOUS
  <2>1. TypeOK
    BY DEF IInv
  <2> QED
    BY <2>1, FlowingSteps, FlowingKeeps, FlowArmed, FlowCalls, FlowWorker
       DEF Next, UserCall, Continue, WorkerStep, Terminated
<1>3. IInv /\ Flow => NoLostUnpause
  BY DEF IInv, TypeOK, Flow, NoLostUnpause
<1> QED
  BY <1>1, <1>2, <1>3, OperationsHaveOneOwner, PTL DEF Safe
===============================================================================
