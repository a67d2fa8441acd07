---------------------------- MODULE TransferProofs ----------------------------
(***************************************************************************)
(* For any number of transfers: the done callback has one owner at a time   *)
(* (the handle, the stop callback, or a queued closure), and that is why a  *)
(* coroutine is resumed once, with its handle detached, and why nothing it  *)
(* destroys is used again, except by a stop request that comes when the     *)
(* handle of an HTTP request is not yet or no longer there.  Assumes that   *)
(* no stop request falls into the window of StopAllowed.                    *)
(***************************************************************************)
EXTENDS Transfer, QueueLemmas, TLAPS

Queued == {m_queue[i] : i \in 1..Len(m_queue)}

InQueue(kind, x) == <<kind, x>> \in Queued

(* The callback of x has been moved into a closure.                          *)
CallQueued(x) == InQueue("done", x) \/ InQueue("abort", x)

(* Of two closures of one transfer the first attaches it and the second,     *)
(* which resumes it, is the only one of its kind.                            *)
QueueOrder ==
  \A i, j \in 1..Len(m_queue) :
    i < j /\ m_queue[i][2] = m_queue[j][2] => m_queue[i][1] = "add" /\ m_queue[j][1] # "add"

(* The callback has one owner, and none once the coroutine is resumed.       *)
OneOwner(x) ==
  /\ x \in armed => spc[x] # "taken" /\ ~CallQueued(x) /\ resumed[x] = 0
  /\ spc[x] = "taken" => ~CallQueued(x) /\ resumed[x] = 0
  /\ CallQueued(x) => resumed[x] = 0
  /\ resumed[x] <= 1

(* What the progress of await_suspend says of the callback and the handle.   *)
Phases(x) ==
  /\ apc[x] = "new" => x \in HandleFirst
  /\ apc[x] \in {"new", "created"} => x \notin armed /\ spc[x] # "taken" /\ ~CallQueued(x)
  /\ apc[x] = "armed" /\ x \notin OnWorker => spc[x] # "taken" /\ ~CallQueued(x)
  /\ apc[x] = "adding" <=> InQueue("add", x)
  /\ x \in m_multi => apc[x] = "suspended" /\ resumed[x] = 0 /\ ~InQueue("done", x)
  /\ InQueue("done", x) \/ resumed[x] > 0 => apc[x] = "suspended"

(* The coroutine destroys its objects after it was resumed, in their order.  *)
Lifetimes(x) ==
  /\ x \notin awaiters => resumed[x] > 0 /\ spc[x] = "idle"
  /\ x \notin handles =>
       apc[x] = "new" \/ (resumed[x] > 0 /\ (x \in HandleFirst \/ x \notin awaiters))
  /\ apc[x] = "new" => x \notin handles

IInv ==
  /\ TypeOK
  /\ QueueOrder
  /\ \A x \in Transfers : OneOwner(x) /\ Phases(x) /\ Lifetimes(x)
  /\ NoUseAfterDestroy

-------------------------------------------------------------------------------
LEMMA AfterEmplace ==
  ASSUME TypeOK, NEW kind \in {"add", "abort", "done"}, NEW x \in Transfers,
         m_queue' = Append(m_queue, <<kind, x>>)
  PROVE  /\ m_queue' \in Seq(Closures)
         /\ \A k, y : InQueue(k, y)' <=> InQueue(k, y) \/ (k = kind /\ y = x)
<1>1. <<kind, x>> \in Closures /\ m_queue \in Seq(Closures)
  BY DEF TypeOK, Closures
<1>2. m_queue' \in Seq(Closures) /\ Queued' = Queued \cup {<<kind, x>>}
  BY <1>1, AppendElements DEF Queued
<1> QED
  BY <1>2 DEF InQueue

LEMMA OrderAfterEmplace ==
  ASSUME TypeOK, QueueOrder, NEW kind \in {"add", "abort", "done"}, NEW x \in Transfers,
         m_queue' = Append(m_queue, <<kind, x>>), ~CallQueued(x),
         kind = "add" => ~InQueue("add", x)
  PROVE  QueueOrder'
<1>1. <<kind, x>> \in Closures /\ m_queue \in Seq(Closures)
  BY DEF TypeOK, Closures
<1>2. /\ Len(m_queue') = Len(m_queue) + 1 /\ Len(m_queue) \in Nat
      /\ \A i \in 1..Len(m_queue) : m_queue'[i] = m_queue[i]
      /\ m_queue'[Len(m_queue) + 1] = <<kind, x>>
  BY <1>1, AppendOrder
<1>3. ASSUME NEW i \in 1..Len(m_queue), m_queue[i][2] = x
      PROVE  m_queue[i][1] = "add" /\ kind # "add"
  <2>1. m_queue[i] \in Closures /\ m_queue[i] \in Queued
    BY <1>1, ElementOfSeq DEF Queued
  <2>2. PICK k \in {"add", "abort", "done"}, y \in Transfers : m_queue[i] = <<k, y>>
    BY <2>1 DEF Closures
  <2>3. y = x /\ InQueue(k, x)
    BY <1>3, <2>1, <2>2 DEF InQueue
  <2> QED
    BY <2>2, <2>3 DEF CallQueued
<1>4. ASSUME NEW i \in 1..Len(m_queue'), NEW j \in 1..Len(m_queue'), i < j,
             m_queue'[i][2] = m_queue'[j][2]
      PROVE  m_queue'[i][1] = "add" /\ m_queue'[j][1] # "add"
  <2>1. i \in 1..Len(m_queue) /\ m_queue'[i] = m_queue[i]
    BY <1>2, <1>4
  <2>2. CASE j \in 1..Len(m_queue)
    BY <1>2, <1>4, <2>1, <2>2 DEF QueueOrder
  <2>3. CASE j = Len(m_queue) + 1
    BY <1>2, <1>3, <1>4, <2>1, <2>3
  <2> QED
    BY <1>2, <1>4, <2>2, <2>3
<1> QED
  BY <1>4 DEF QueueOrder

LEMMA AfterPop ==
  ASSUME TypeOK, QueueOrder, NEW kind \in {"add", "abort", "done"}, NEW x \in Transfers,
         Runs(kind, x)
  PROVE  /\ m_queue' \in Seq(Closures) /\ QueueOrder'
         /\ InQueue(kind, x)
         /\ \A k, y : InQueue(k, y) <=> InQueue(k, y)' \/ (k = kind /\ y = x)
         /\ ~InQueue(kind, x)'
         /\ kind # "add" => ~InQueue("add", x) /\ ~CallQueued(x)'
<1>1. /\ m_queue \in Seq(Closures) /\ m_queue # <<>>
      /\ m_queue' = Tail(m_queue) /\ Head(m_queue) = <<kind, x>>
  BY DEF TypeOK, Runs
<1>2. m_queue' \in Seq(Closures) /\ Queued = Queued' \cup {<<kind, x>>}
  <2>1. {m_queue[i] : i \in 1..Len(m_queue)}
           = {Tail(m_queue)[i] : i \in 1..Len(Tail(m_queue))} \cup {Head(m_queue)}
    BY <1>1, TailElements
  <2>2. Tail(m_queue) \in Seq(Closures)
    BY <1>1, TailElements
  <2> QED
    BY <1>1, <2>1, <2>2 DEF Queued
<1>3. /\ m_queue[1] = <<kind, x>> /\ 1 \in 1..Len(m_queue)
      /\ \A i \in 1..Len(m_queue') :
           i \in Nat /\ i + 1 \in 1..Len(m_queue) /\ i + 1 > 1 /\ m_queue'[i] = m_queue[i + 1]
  BY <1>1, TailOrder
<1>4. QueueOrder'
  <2> SUFFICES ASSUME NEW i \in 1..Len(m_queue'), NEW j \in 1..Len(m_queue'),
                      i < j, m_queue'[i][2] = m_queue'[j][2]
               PROVE  m_queue'[i][1] = "add" /\ m_queue'[j][1] # "add"
    BY DEF QueueOrder
  <2>1. i + 1 \in 1..Len(m_queue) /\ m_queue'[i] = m_queue[i + 1]
    BY <1>3
  <2>2. j + 1 \in 1..Len(m_queue) /\ m_queue'[j] = m_queue[j + 1]
    BY <1>3
  <2>3. i + 1 < j + 1
    BY <1>3
  <2> QED
    BY <2>1, <2>2, <2>3 DEF QueueOrder
<1>5. ASSUME NEW k, <<k, x>> \in Queued' PROVE kind = "add" /\ k # "add"
  <2>1. PICK i \in 1..Len(m_queue') : m_queue'[i] = <<k, x>>
    BY <1>5 DEF Queued
  <2>2. m_queue[1][2] = m_queue[i + 1][2] /\ m_queue[1][1] = kind /\ m_queue[i + 1][1] = k
    BY <1>3, <2>1
  <2> QED
    BY <1>3, <2>2 DEF QueueOrder
<1> QED
  BY <1>2, <1>4, <1>5 DEF InQueue, CallQueued

-------------------------------------------------------------------------------
LEMMA UsesWhatExists ==
  ASSUME TypeOK, NoUseAfterDestroy, NEW who, NEW a, NEW h, Uses(who, a, h),
         a \subseteq awaiters, h \subseteq handles
  PROVE  misused' = misused /\ NoUseAfterDestroy'
<1>1. (a \ awaiters) \cup (h \ handles) = {}
  OBVIOUS
<1>2. {who} \X ((a \ awaiters) \cup (h \ handles)) = {}
  BY <1>1
<1> QED
  BY <1>2 DEF Uses, NoUseAfterDestroy

(* A stop request may find no handle only if its transfer is one of          *)
(* HandleFirst.                                                              *)
LEMMA StopUses ==
  ASSUME TypeOK, NoUseAfterDestroy, NEW x \in Transfers, Uses(Stopping(x), {x}, {x}),
         x \in awaiters, x \in handles \/ x \in HandleFirst
  PROVE  misused' \subseteq Users \X Transfers /\ NoUseAfterDestroy'
<1>1. Stopping(x) \in {"early stop", "stop"}
  BY DEF Stopping
<1>2. {Stopping(x)} \X (({x} \ awaiters) \cup ({x} \ handles)) \subseteq {"early stop", "stop"} \X HandleFirst
  BY <1>1
<1>3. NoUseAfterDestroy'
  BY <1>2 DEF Uses, NoUseAfterDestroy
<1>4. {"early stop", "stop"} \X HandleFirst \subseteq Users \X Transfers
  BY TransferAssumption DEF Users
<1> QED
  BY <1>3, <1>4 DEF NoUseAfterDestroy

LEMMA UsesTyped ==
  ASSUME TypeOK, NEW who \in Users, NEW a \in SUBSET Transfers, NEW h \in SUBSET Transfers,
         Uses(who, a, h)
  PROVE  misused' \subseteq Users \X Transfers
BY DEF TypeOK, Uses

LEMMA InvInit == Init => IInv
<1> SUFFICES ASSUME Init PROVE IInv
  OBVIOUS
<1>1. m_queue \in Seq(Closures) /\ Queued = {} /\ Len(m_queue) = 0
  BY DEF Init, Queued
<1>2. TypeOK
  BY <1>1 DEF Init, TypeOK
<1> QED
  BY <1>1, <1>2 DEF Init, IInv, NoUseAfterDestroy, QueueOrder, OneOwner, Phases, Lifetimes, CallQueued, InQueue

LEMMA InvAwait == ASSUME IInv, NEW x \in Transfers, Await(x) PROVE IInv'
<1> USE TransferAssumption DEF IInv
<1>1. OneOwner(x) /\ Phases(x) /\ Lifetimes(x)
  OBVIOUS
<1>5. CASE MakeHandle(x)
  <2>1. UNCHANGED <<QueueOrder, Queued, misused>> /\ apc[x] = "new" /\ resumed[x] = 0
    BY <1>1, <1>5 DEF MakeHandle, QueueOrder, Queued, TypeOK, Phases
  <2>2. TypeOK' /\ NoUseAfterDestroy'
    BY <1>5, <2>1 DEF MakeHandle, TypeOK, NoUseAfterDestroy
  <2>3. ASSUME NEW y \in Transfers PROVE OneOwner(y)' /\ Phases(y)' /\ Lifetimes(y)'
    BY <1>5, <2>1 DEF MakeHandle, TypeOK, OneOwner, Phases, Lifetimes, CallQueued, InQueue
  <2> QED
    BY <2>1, <2>2, <2>3
<1>2. CASE Arm(x)
  <2>1. UNCHANGED <<QueueOrder, Queued>> /\ apc[x] = "created" /\ resumed[x] = 0
    BY <1>1, <1>2 DEF Arm, QueueOrder, Queued, TypeOK, Phases
  <2>2. TypeOK' /\ NoUseAfterDestroy'
    <3>1. {} \subseteq awaiters /\ {x} \subseteq handles
      BY <1>1, <1>2, <2>1 DEF Arm, TypeOK, Lifetimes, Phases
    <3>2. misused' = misused /\ NoUseAfterDestroy'
      BY <1>2, <3>1, UsesWhatExists DEF Arm
    <3> QED
      BY <1>1, <1>2, <2>1, <3>2 DEF Arm, TypeOK
  <2>3. ASSUME NEW y \in Transfers PROVE OneOwner(y)' /\ Phases(y)' /\ Lifetimes(y)'
    BY <1>2, <2>1 DEF Arm, TypeOK, OneOwner, Phases, Lifetimes, CallQueued, InQueue
  <2> QED
    BY <2>1, <2>2, <2>3
<1>3. CASE AddInline(x)
  <2>1. UNCHANGED <<QueueOrder, Queued>> /\ resumed[x] = 0
    BY <1>1, <1>3 DEF AddInline, QueueOrder, Queued, TypeOK, Phases
  <2>2. TypeOK' /\ NoUseAfterDestroy'
    <3>1. {x} \subseteq awaiters /\ {x} \subseteq handles
      BY <1>1, <1>3, <2>1 DEF AddInline, TypeOK, Lifetimes, Phases
    <3>2. misused' = misused /\ NoUseAfterDestroy'
      BY <1>3, <3>1, UsesWhatExists DEF AddInline
    <3> QED
      BY <1>1, <1>3, <2>1, <3>2 DEF AddInline, Attach, TypeOK
  <2>3. ASSUME NEW y \in Transfers PROVE OneOwner(y)' /\ Phases(y)' /\ Lifetimes(y)'
    BY <1>3, <2>1 DEF AddInline, Attach, TypeOK, OneOwner, Phases, Lifetimes, CallQueued, InQueue
  <2> QED
    BY <2>1, <2>2, <2>3
<1>4. CASE AddQueued(x)
  <2>1. m_queue' = Append(m_queue, <<"add", x>>) /\ resumed[x] = 0
        /\ ~InQueue("add", x) /\ ~CallQueued(x)
    BY <1>1, <1>4 DEF AddQueued, TypeOK, Phases
  <2>2. QueueOrder' /\ m_queue' \in Seq(Closures)
        /\ \A k, y : InQueue(k, y)' <=> InQueue(k, y) \/ (k = "add" /\ y = x)
    BY <2>1, AfterEmplace, OrderAfterEmplace
  <2>3. TypeOK' /\ NoUseAfterDestroy'
    <3>1. {x} \subseteq awaiters /\ {x} \subseteq handles
      BY <1>1, <1>4, <2>1, <2>2 DEF AddQueued, TypeOK, Lifetimes, Phases
    <3>2. misused' = misused /\ NoUseAfterDestroy'
      BY <1>4, <3>1, UsesWhatExists DEF AddQueued
    <3> QED
      BY <1>1, <1>4, <2>1, <2>2, <3>2 DEF AddQueued, TypeOK
  <2>4. ASSUME NEW y \in Transfers PROVE OneOwner(y)' /\ Phases(y)' /\ Lifetimes(y)'
    BY <1>4, <2>1, <2>2 DEF AddQueued, TypeOK, OneOwner, Phases, Lifetimes, CallQueued
  <2> QED
    BY <2>2, <2>3, <2>4
<1> QED
  BY <1>2, <1>3, <1>4, <1>5 DEF Await

LEMMA InvStop ==
  ASSUME ~StopWhileAdding, IInv, NEW x \in Transfers, StopRequest(x) \/ StopPush(x)
  PROVE  IInv'
<1> USE TransferAssumption DEF IInv
<1>1. OneOwner(x) /\ Phases(x) /\ Lifetimes(x)
  OBVIOUS
<1>2. CASE StopRequest(x)
  <2>1. UNCHANGED <<QueueOrder, Queued>>
    BY <1>2 DEF StopRequest, QueueOrder, Queued
  <2>2. x \in awaiters /\ (x \in handles \/ x \in HandleFirst)
    BY <1>1, <1>2 DEF StopRequest, Lifetimes, Phases, TypeOK
  <2>3. TypeOK' /\ NoUseAfterDestroy'
    BY <1>2, <2>2, StopUses DEF StopRequest, TypeOK
  <2>4. ASSUME NEW y \in Transfers PROVE OneOwner(y)' /\ Phases(y)' /\ Lifetimes(y)'
    BY <1>2, <2>1, <2>2
    DEF StopRequest, StopAllowed, TypeOK, OneOwner, Phases, Lifetimes, CallQueued, InQueue
  <2> QED
    BY <2>1, <2>3, <2>4
<1>3. CASE StopPush(x)
  <2>1. m_queue' = Append(m_queue, <<"abort", x>>) /\ resumed[x] = 0 /\ ~CallQueued(x)
    BY <1>1, <1>3 DEF StopPush, OneOwner
  <2>2. QueueOrder' /\ m_queue' \in Seq(Closures)
        /\ \A k, y : InQueue(k, y)' <=> InQueue(k, y) \/ (k = "abort" /\ y = x)
    BY <2>1, AfterEmplace, OrderAfterEmplace
  <2>3. TypeOK' /\ NoUseAfterDestroy'
    <3>1. {x} \subseteq awaiters /\ {} \subseteq handles
      BY <1>1, <1>3, <2>1, <2>2 DEF StopPush, TypeOK, Lifetimes, Phases
    <3>2. misused' = misused /\ NoUseAfterDestroy'
      BY <1>3, <3>1, UsesWhatExists DEF StopPush
    <3> QED
      BY <1>1, <1>3, <2>1, <2>2, <3>2 DEF StopPush, TypeOK
  <2>4. ASSUME NEW y \in Transfers PROVE OneOwner(y)' /\ Phases(y)' /\ Lifetimes(y)'
    BY <1>3, <2>1, <2>2 DEF StopPush, TypeOK, OneOwner, Phases, Lifetimes, CallQueued
  <2> QED
    BY <2>2, <2>3, <2>4
<1> QED
  BY <1>2, <1>3

LEMMA InvRun == ASSUME IInv, NEW x \in Transfers, Run(x) PROVE IInv'
<1> USE TransferAssumption DEF IInv
<1>1. OneOwner(x) /\ Phases(x) /\ Lifetimes(x)
  OBVIOUS
<1>2. CASE RunAdd(x)
  <2>1. /\ m_queue' \in Seq(Closures) /\ QueueOrder' /\ InQueue("add", x) /\ ~InQueue("add", x)'
        /\ \A k, y : InQueue(k, y) <=> InQueue(k, y)' \/ (k = "add" /\ y = x)
    BY <1>2, AfterPop DEF RunAdd
  <2>2. apc[x] = "adding" /\ resumed[x] = 0
    BY <1>1, <2>1 DEF Phases, TypeOK
  <2>3. TypeOK' /\ NoUseAfterDestroy'
    <3>1. {} \subseteq awaiters /\ {x} \subseteq handles
      BY <1>1, <1>2, <2>1, <2>2 DEF RunAdd, TypeOK, Lifetimes, Phases
    <3>2. misused' = misused /\ NoUseAfterDestroy'
      BY <1>2, <3>1, UsesWhatExists DEF RunAdd
    <3> QED
      BY <1>1, <1>2, <2>1, <2>2, <3>2 DEF RunAdd, Attach, TypeOK
  <2>4. ASSUME NEW y \in Transfers PROVE OneOwner(y)' /\ Phases(y)' /\ Lifetimes(y)'
    BY <1>2, <2>1, <2>2 DEF RunAdd, Attach, TypeOK, OneOwner, Phases, Lifetimes, CallQueued
  <2> QED
    BY <2>1, <2>3, <2>4
<1>3. CASE RunDone(x)
  <2>1. /\ m_queue' \in Seq(Closures) /\ QueueOrder' /\ InQueue("done", x) /\ ~CallQueued(x)'
        /\ \A k, y : InQueue(k, y) <=> InQueue(k, y)' \/ (k = "done" /\ y = x)
    BY <1>3, AfterPop DEF RunDone
  <2>2. resumed[x] = 0 /\ apc[x] = "suspended" /\ x \notin m_multi /\ x \notin armed
    BY <1>1, <2>1 DEF OneOwner, Phases, CallQueued
  <2>3. TypeOK' /\ NoUseAfterDestroy'
    <3>1. {x} \subseteq awaiters /\ {} \subseteq handles
      BY <1>1, <1>3, <2>1, <2>2 DEF RunDone, TypeOK, Lifetimes, Phases
    <3>2. misused' = misused /\ NoUseAfterDestroy'
      BY <1>3, <3>1, UsesWhatExists DEF RunDone
    <3> QED
      BY <1>1, <1>3, <2>1, <2>2, <3>2 DEF RunDone, Resume, TypeOK
  <2>4. ASSUME NEW y \in Transfers PROVE OneOwner(y)' /\ Phases(y)' /\ Lifetimes(y)'
    BY <1>3, <2>1, <2>2 DEF RunDone, Resume, TypeOK, OneOwner, Phases, Lifetimes, CallQueued
  <2> QED
    BY <2>1, <2>3, <2>4
<1>4. CASE RunAbort(x)
  <2>1. /\ m_queue' \in Seq(Closures) /\ QueueOrder' /\ InQueue("abort", x) /\ ~CallQueued(x)'
        /\ \A k, y : InQueue(k, y) <=> InQueue(k, y)' \/ (k = "abort" /\ y = x)
        /\ ~InQueue("add", x)
    BY <1>4, AfterPop DEF RunAbort
  <2>2. resumed[x] = 0 /\ x \notin armed /\ apc[x] = "suspended"
    BY <1>1, <1>4, <2>1 DEF OneOwner, Phases, CallQueued, TypeOK, RunAbort, Runs, WorkerBusy
  <2>3. TypeOK' /\ NoUseAfterDestroy'
    <3>1. {x} \subseteq awaiters /\ {x} \subseteq handles
      BY <1>1, <1>4, <2>1, <2>2 DEF RunAbort, TypeOK, Lifetimes, Phases
    <3>2. misused' = misused /\ NoUseAfterDestroy'
      BY <1>4, <3>1, UsesWhatExists DEF RunAbort
    <3> QED
      BY <1>1, <1>4, <2>1, <2>2, <3>2 DEF RunAbort, Resume, TypeOK
  <2>4. ASSUME NEW y \in Transfers PROVE OneOwner(y)' /\ Phases(y)' /\ Lifetimes(y)'
    BY <1>4, <2>1, <2>2 DEF RunAbort, Resume, TypeOK, OneOwner, Phases, Lifetimes, CallQueued
  <2> QED
    BY <2>1, <2>3, <2>4
<1> QED
  BY <1>2, <1>3, <1>4 DEF Run

LEMMA InvComplete == ASSUME IInv, NEW x \in Transfers, Complete(x) PROVE IInv'
<1> USE TransferAssumption DEF IInv
<1>1. OneOwner(x) /\ Phases(x) /\ Lifetimes(x)
  OBVIOUS
<1>2. x \in m_multi /\ apc[x] = "suspended" /\ resumed[x] = 0 /\ ~InQueue("done", x)
  BY <1>1 DEF Complete, Phases
<1>3. x \in handles
  BY <1>1, <1>2 DEF Lifetimes
<1>4. misused' = misused /\ NoUseAfterDestroy'
  BY <1>3, UsesWhatExists DEF Complete
<1>5. CASE x \in armed
  <2>1. m_queue' = Append(m_queue, <<"done", x>>) /\ ~CallQueued(x)
    BY <1>1, <1>5 DEF Complete, OneOwner
  <2>2. QueueOrder' /\ m_queue' \in Seq(Closures)
        /\ \A k, y : InQueue(k, y)' <=> InQueue(k, y) \/ (k = "done" /\ y = x)
    BY <2>1, AfterEmplace, OrderAfterEmplace
  <2>3. TypeOK'
    BY <1>4, <2>2 DEF Complete, TypeOK
  <2>4. ASSUME NEW y \in Transfers PROVE OneOwner(y)' /\ Phases(y)' /\ Lifetimes(y)'
    BY <1>2, <1>5, <2>1, <2>2 DEF Complete, TypeOK, OneOwner, Phases, Lifetimes, CallQueued
  <2> QED
    BY <1>4, <2>2, <2>3, <2>4
<1>6. CASE x \notin armed
  <2>1. m_queue' = m_queue
    BY <1>6 DEF Complete
  <2>2. UNCHANGED <<QueueOrder, Queued>>
    BY <2>1 DEF QueueOrder, Queued
  <2>3. TypeOK'
    BY <1>4, <2>1 DEF Complete, TypeOK
  <2>4. ASSUME NEW y \in Transfers PROVE OneOwner(y)' /\ Phases(y)' /\ Lifetimes(y)'
    BY <1>2, <2>2 DEF Complete, TypeOK, OneOwner, Phases, Lifetimes, CallQueued, InQueue
  <2> QED
    BY <1>4, <2>2, <2>3, <2>4
<1> QED
  BY <1>5, <1>6

LEMMA InvDestroy == ASSUME IInv, NEW x \in Transfers, Destroy(x) PROVE IInv'
<1> USE TransferAssumption DEF IInv
<1>1. OneOwner(x) /\ Phases(x) /\ Lifetimes(x)
  OBVIOUS
<1>2. UNCHANGED <<m_queue, misused>>
  BY DEF Destroy, DestroyAwaiter, DestroyHandle
<1>3. UNCHANGED <<QueueOrder, Queued>>
  BY <1>2 DEF QueueOrder, Queued
<1>4. CASE DestroyAwaiter(x)
  <2>1. TypeOK'
    BY <1>2, <1>4 DEF DestroyAwaiter, TypeOK
  <2>2. ASSUME NEW y \in Transfers PROVE OneOwner(y)' /\ Phases(y)' /\ Lifetimes(y)'
    BY <1>3, <1>4 DEF DestroyAwaiter, TypeOK, OneOwner, Phases, Lifetimes, CallQueued, InQueue
  <2> QED
    BY <1>2, <1>3, <2>1, <2>2 DEF NoUseAfterDestroy
<1>5. CASE DestroyHandle(x)
  <2>1. TypeOK'
    BY <1>2, <1>5 DEF DestroyHandle, TypeOK
  <2>2. ASSUME NEW y \in Transfers PROVE OneOwner(y)' /\ Phases(y)' /\ Lifetimes(y)'
    BY <1>3, <1>5 DEF DestroyHandle, TypeOK, OneOwner, Phases, Lifetimes, CallQueued, InQueue
  <2> QED
    BY <1>2, <1>3, <2>1, <2>2 DEF NoUseAfterDestroy
<1> QED
  BY <1>4, <1>5 DEF Destroy

LEMMA InvNext == ASSUME ~StopWhileAdding, IInv, [Next]_vars PROVE IInv'
<1>1. CASE UNCHANGED vars
  <2>1. UNCHANGED <<QueueOrder, Queued>>
    BY <1>1 DEF vars, QueueOrder, Queued
  <2>2. TypeOK' /\ NoUseAfterDestroy'
    BY <1>1 DEF vars, IInv, TypeOK, NoUseAfterDestroy
  <2>3. ASSUME NEW y \in Transfers PROVE OneOwner(y)' /\ Phases(y)' /\ Lifetimes(y)'
    BY <1>1, <2>1 DEF vars, IInv, OneOwner, Phases, Lifetimes, CallQueued, InQueue
  <2> QED
    BY <2>1, <2>2, <2>3 DEF IInv
<1> QED
  BY <1>1, InvAwait, InvStop, InvRun, InvComplete, InvDestroy DEF Next

(* The inductive invariant, from which the other theorems are read off.      *)
THEOREM CallbackHasOneOwner == ASSUME ~StopWhileAdding PROVE Safe => []IInv
<1>1. IInv /\ [Next]_vars => IInv'
  BY InvNext
<1> QED
  BY <1>1, InvInit, PTL DEF Safe

(* Stop and completion never both resume the coroutine.                      *)
THEOREM CoroutineResumedOnce == ASSUME ~StopWhileAdding PROVE Safe => []ResumedOnce
<1>1. IInv => ResumedOnce
  BY DEF IInv, OneOwner, ResumedOnce
<1> QED
  BY <1>1, CallbackHasOneOwner, PTL

(* A resumed coroutine finds its handle detached.                            *)
THEOREM ResumedAfterFinish == ASSUME ~StopWhileAdding PROVE Safe => []ResumedMeansFinished
<1>1. IInv => ResumedMeansFinished
  BY DEF IInv, TypeOK, Phases, ResumedMeansFinished
<1> QED
  BY <1>1, CallbackHasOneOwner, PTL

(* Nothing the resumed coroutine destroys is used again, by whomever: only a *)
(* stop request can find the handle of an HTTP request gone, or not yet made. *)
THEOREM NothingUsedAfterDestroy == ASSUME ~StopWhileAdding PROVE Safe => []NoUseAfterDestroy
<1>1. IInv => NoUseAfterDestroy
  BY DEF IInv, NoUseAfterDestroy
<1> QED
  BY <1>1, CallbackHasOneOwner, PTL

LEMMA MisusedTyped == TypeOK /\ [Next]_vars => misused' \subseteq Users \X Transfers
<1> SUFFICES ASSUME TypeOK, [Next]_vars PROVE misused' \subseteq Users \X Transfers
  OBVIOUS
<1>1. misused \subseteq Users \X Transfers
  BY DEF TypeOK
<1>2. ASSUME NEW x \in Transfers, Await(x) \/ Run(x) \/ StopRequest(x) \/ StopPush(x) \/ Complete(x)
      PROVE  misused' \subseteq Users \X Transfers
  <2>1. {x} \in SUBSET Transfers /\ {} \in SUBSET Transfers
    OBVIOUS
  <2>2. Stopping(x) \in Users /\ "await" \in Users /\ "push" \in Users /\ "worker" \in Users
    BY DEF Stopping, Users
  <2>3. CASE MakeHandle(x)
    BY <1>1, <2>3 DEF MakeHandle
  <2>4. CASE Arm(x)
    BY <2>1, <2>2, <2>4, UsesTyped DEF Arm
  <2>5. CASE AddInline(x) \/ AddQueued(x)
    BY <2>1, <2>2, <2>5, UsesTyped DEF AddInline, AddQueued
  <2>6. CASE StopRequest(x)
    BY <2>1, <2>2, <2>6, UsesTyped DEF StopRequest
  <2>7. CASE StopPush(x)
    BY <2>1, <2>2, <2>7, UsesTyped DEF StopPush
  <2>8. CASE Run(x)
    BY <2>1, <2>2, <2>8, UsesTyped DEF Run, RunAdd, RunDone, RunAbort
  <2>9. CASE Complete(x)
    BY <2>1, <2>2, <2>9, UsesTyped DEF Complete
  <2> QED
    BY <1>2, <2>3, <2>4, <2>5, <2>6, <2>7, <2>8, <2>9 DEF Await
<1>3. ASSUME NEW x \in Transfers, Destroy(x) PROVE misused' \subseteq Users \X Transfers
  BY <1>1, <1>3 DEF Destroy, DestroyAwaiter, DestroyHandle
<1> QED
  BY <1>1, <1>2, <1>3 DEF Next, vars

(* The types hold whenever a stop request comes; the multi handle only has   *)
(* handles that know their executor.                                         *)
THEOREM TypesHold == Safe => []TypeOK
<1>1. Init => TypeOK
  BY InvInit DEF IInv
<1>2. TypeOK /\ [Next]_vars => TypeOK'
  <2> SUFFICES ASSUME TypeOK, [Next]_vars PROVE TypeOK'
    OBVIOUS
  <2>0. misused' \subseteq Users \X Transfers
    BY MisusedTyped
  <2>1. ASSUME NEW x \in Transfers, NEW kind \in {"add", "abort", "done"}
        PROVE  /\ Append(m_queue, <<kind, x>>) \in Seq(Closures)
               /\ Runs(kind, x) => m_queue' \in Seq(Closures)
    <3>1. <<kind, x>> \in Closures /\ m_queue \in Seq(Closures)
      BY DEF Closures, TypeOK
    <3>2. Append(m_queue, <<kind, x>>) \in Seq(Closures)
      BY <3>1, AppendProperties
    <3>3. ASSUME Runs(kind, x) PROVE m_queue' \in Seq(Closures)
      <4>1. m_queue # <<>> /\ m_queue' = Tail(m_queue)
        BY <3>3 DEF Runs
      <4> QED
        BY <3>1, <4>1, HeadTailProperties
    <3> QED
      BY <3>2, <3>3
  <2>2. ASSUME NEW x \in Transfers, Await(x) PROVE TypeOK'
    <3>4. CASE MakeHandle(x)
      BY <3>4 DEF MakeHandle, TypeOK
    <3>1. CASE Arm(x)
      BY <2>0, <3>1 DEF Arm, TypeOK
    <3>2. CASE AddInline(x)
      BY <2>0, <3>2 DEF AddInline, Attach, TypeOK
    <3>3. CASE AddQueued(x)
      BY <2>0, <2>1, <3>3 DEF AddQueued, TypeOK
    <3> QED
      BY <2>2, <3>1, <3>2, <3>3, <3>4 DEF Await
  <2>3. ASSUME NEW x \in Transfers, StopRequest(x) \/ StopPush(x) PROVE TypeOK'
    BY <2>0, <2>1, <2>3 DEF StopRequest, StopPush, TypeOK
  <2>4. ASSUME NEW x \in Transfers, Run(x) PROVE TypeOK'
    <3>1. CASE RunAdd(x)
      <4>1. m_queue' \in Seq(Closures)
        BY <2>1, <3>1 DEF RunAdd
      <4> QED
        BY <2>0, <3>1, <4>1 DEF RunAdd, Attach, TypeOK
    <3>2. CASE RunDone(x)
      <4>1. m_queue' \in Seq(Closures)
        BY <2>1, <3>2 DEF RunDone
      <4> QED
        BY <2>0, <3>2, <4>1 DEF RunDone, Resume, TypeOK
    <3>3. CASE RunAbort(x)
      <4>1. m_queue' \in Seq(Closures)
        BY <2>1, <3>3 DEF RunAbort
      <4> QED
        BY <2>0, <3>3, <4>1 DEF RunAbort, Resume, TypeOK
    <3> QED
      BY <2>4, <3>1, <3>2, <3>3 DEF Run
  <2>5. ASSUME NEW x \in Transfers, Complete(x) PROVE TypeOK'
    BY <2>0, <2>1, <2>5 DEF Complete, TypeOK
  <2>6. ASSUME NEW x \in Transfers, Destroy(x) PROVE TypeOK'
    BY <2>6 DEF Destroy, DestroyAwaiter, DestroyHandle, TypeOK
  <2>7. CASE UNCHANGED vars
    BY <2>7 DEF vars, TypeOK
  <2> QED
    BY <2>2, <2>3, <2>4, <2>5, <2>6, <2>7 DEF Next
<1> QED
  BY <1>1, <1>2, PTL DEF Safe
===============================================================================
