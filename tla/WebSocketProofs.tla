--------------------------- MODULE WebSocketProofs ---------------------------
(***************************************************************************)
(* For any number of threads, calls and frames: send() calls back once and   *)
(* no frame waits behind a sleeping send_task, a close is reported once, and *)
(* on_message gets whole messages.                                           *)
(***************************************************************************)
EXTENDS WebSocket, QueueLemmas, FiniteSetTheorems, FunctionTheorems, TLAPS

-------------------------------------------------------------------------------
(* Counting the elements of a sequence that are in a set X.                  *)
Places(s, X) == {k \in DOMAIN s : s[k] \in X}

Count(s, X) == Cardinality(Places(s, X))

Bit(b) == IF b THEN 1 ELSE 0

LEMMA CountType ==
  ASSUME NEW S, NEW s \in Seq(S), NEW X
  PROVE  IsFiniteSet(Places(s, X)) /\ Count(s, X) \in Nat
<1>1. Len(s) \in Nat /\ DOMAIN s = 1..Len(s)
  BY LenProperties
<1>2. IsFiniteSet(1..Len(s))
  BY <1>1, FS_Interval
<1>3. Places(s, X) \in SUBSET (1..Len(s))
  BY <1>1 DEF Places
<1> QED
  BY <1>2, <1>3, FS_Subset, FS_CardinalityType DEF Count

LEMMA CountEmpty == \A X : Count(<<>>, X) = 0
<1>1. DOMAIN <<>> = 1..Len(<<>>) /\ Len(<<>>) = 0
  BY EmptySeq, LenProperties
<1>2. ASSUME NEW X PROVE Places(<<>>, X) = {}
  BY <1>1 DEF Places
<1> QED
  BY <1>2, FS_EmptySet DEF Count

LEMMA CountAppend ==
  ASSUME NEW S, NEW s \in Seq(S), NEW e \in S, NEW X
  PROVE  Count(Append(s, e), X) = Count(s, X) + Bit(e \in X)
<1> DEFINE r == Append(s, e)
<1>1. /\ r \in Seq(S) /\ Len(s) \in Nat /\ Len(r) = Len(s) + 1
      /\ \A k \in 1..Len(s) : r[k] = s[k]
      /\ r[Len(s) + 1] = e
  BY AppendProperties, LenProperties
<1>2. DOMAIN s = 1..Len(s) /\ DOMAIN r = 1..Len(s) \cup {Len(s) + 1} /\ Len(s) + 1 \notin 1..Len(s)
  <2>1. DOMAIN r = 1..Len(r)
    BY <1>1, LenProperties
  <2> QED
    BY <1>1, <2>1, LenProperties
<1> HIDE DEF r
<1>3. Places(r, X) = IF e \in X THEN Places(s, X) \cup {Len(s) + 1} ELSE Places(s, X)
  BY <1>1, <1>2 DEF Places
<1>4. IsFiniteSet(Places(s, X)) /\ Count(s, X) \in Nat /\ Len(s) + 1 \notin Places(s, X)
  BY <1>2, CountType DEF Places
<1>5. Cardinality(Places(s, X) \cup {Len(s) + 1}) = Cardinality(Places(s, X)) + 1
  BY <1>4, FS_AddElement
<1>6. Count(r, X) = Count(s, X) + Bit(e \in X)
  BY <1>3, <1>4, <1>5 DEF Count, Bit
<1> QED
  BY <1>6 DEF r

(* Taking the first element shifts the places of the others by one.          *)
LEMMA CountTail ==
  ASSUME NEW S, NEW s \in Seq(S), s # <<>>, NEW X
  PROVE  /\ Tail(s) \in Seq(S) /\ Head(s) \in S
         /\ Count(s, X) = Count(Tail(s), X) + Bit(Head(s) \in X)
<1> DEFINE r == Tail(s)
           f == [k \in Places(r, X) |-> k + 1]
<1>1. /\ Head(s) \in S /\ r \in Seq(S) /\ Len(s) \in Nat \ {0} /\ Head(s) = s[1]
      /\ Len(r) = Len(s) - 1
      /\ \A k \in 1..Len(r) : r[k] = s[k + 1]
  BY HeadTailProperties, LenProperties, EmptySeq
<1>2. DOMAIN s = 1..Len(s) /\ DOMAIN r = 1..Len(r)
  BY <1>1, LenProperties
<1> HIDE DEF r
<1>3. \A k \in Places(s, X) \ {1} : k - 1 \in Places(r, X) /\ k = (k - 1) + 1
  BY <1>1, <1>2 DEF Places
<1>4. \A k \in Places(r, X) : k \in Nat /\ k + 1 \in Places(s, X) \ {1}
  BY <1>1, <1>2 DEF Places
<1>5. f \in Bijection(Places(r, X), Places(s, X) \ {1})
  <2>1. f \in [Places(r, X) -> Places(s, X) \ {1}]
    BY <1>4
  <2>2. \A j, k \in Places(r, X) : f[j] = f[k] => j = k
    BY <1>4
  <2>3. \A k \in Places(s, X) \ {1} : \E j \in Places(r, X) : f[j] = k
    <3> TAKE k \in Places(s, X) \ {1}
    <3>1. k - 1 \in Places(r, X) /\ f[k - 1] = k
      BY <1>3
    <3> QED
      BY <3>1
  <2> QED
    BY <2>1, <2>2, <2>3, Fun_IsBij
<1>6. IsFiniteSet(Places(r, X)) /\ Count(r, X) \in Nat
      /\ IsFiniteSet(Places(s, X)) /\ Count(s, X) \in Nat
  BY <1>1, CountType
<1>7. Cardinality(Places(s, X) \ {1}) = Cardinality(Places(r, X))
  BY <1>5, <1>6, FS_Bijection DEF ExistsBijection
<1>8. 1 \in Places(s, X) <=> Head(s) \in X
  BY <1>1, <1>2 DEF Places
<1>9. Cardinality(Places(s, X) \ {1})
        = IF 1 \in Places(s, X) THEN Cardinality(Places(s, X)) - 1 ELSE Cardinality(Places(s, X))
  BY <1>6, FS_RemoveElement
<1>10. Count(s, X) = Count(r, X) + Bit(Head(s) \in X)
  BY <1>6, <1>7, <1>8, <1>9 DEF Count, Bit
<1> QED
  BY <1>1, <1>10 DEF r

(* A sequence of one element, and that element in front of another sequence. *)
LEMMA CountFirst ==
  ASSUME NEW S, NEW s \in Seq(S), NEW e \in S, NEW X
  PROVE  /\ <<e>> \o s \in Seq(S)
         /\ Count(<<e>> \o s, X) = Count(s, X) + Bit(e \in X)
         /\ Count(<<e>>, X) = Bit(e \in X)
<1>1. /\ <<e>> \o s \in Seq(S) /\ <<e>> \o s # <<>>
      /\ Tail(<<e>> \o s) = s /\ Head(<<e>> \o s) = e
  OBVIOUS
<1>2. Count(<<e>> \o s, X) = Count(s, X) + Bit(e \in X)
  BY <1>1, CountTail
<1>3. /\ <<e>> \in Seq(S) /\ <<e>> # <<>>
      /\ Tail(<<e>>) = <<>> /\ Head(<<e>>) = e
  OBVIOUS
<1>4. Count(<<e>>, X) = Count(<<>>, X) + Bit(e \in X)
  BY <1>3, CountTail
<1>5. Count(<<e>>, X) = Bit(e \in X)
  BY <1>4, CountEmpty DEF Bit
<1> QED
  BY <1>1, <1>2, <1>5

-------------------------------------------------------------------------------
(* Types.  Before connect() nothing runs; a thread inside send() makes one   *)
(* of the calls; a message in parts has no more of them than frames came.    *)
TypeInv ==
  /\ TypeOK
  /\ con_state = "init" => hpc = "none" /\ spc = "none" /\ ~handler
  /\ \A t \in Threads : upc[t] = "emplace" => uarg[t] \in Calls
  /\ Len(fragment_payload) <= Len(received)

(* Its parts: the places of the tasks and flags, the frames on their way,    *)
(* the calls, and what was received.                                         *)
TypeStates ==
  /\ con_state \in {"init", "handshake", "open", "client_close", "server_close", "closed"}
  /\ hpc \in {"none", "request", "response", "answered", "opening", "dummy", "done", "failed"}
  /\ spc \in {"none", "check", "pop", "sending", "waiting", "drain", "disconnect", "cancel",
               "exited"}
  /\ wpc \in {"free", "replying", "terminated"}
  /\ wpc = "replying" => handler \/ hpc = "dummy"
  /\ send_event \in BOOLEAN /\ send_should_exit \in BOOLEAN
  /\ connected \in BOOLEAN /\ handler \in BOOLEAN /\ eof \in BOOLEAN /\ stuck \in BOOLEAN
  /\ handler => connected
  /\ dpc \in {"alive", "close", "reply", "first", "exchange", "wake", "exit", "exitWake", "gone"}
  /\ con_state = "init" => hpc = "none" /\ spc = "none" /\ ~handler

TypeQueue ==
  /\ send_queue \in Seq(Elements) /\ sending \in Elements \cup {Idle}
  /\ sending # Idle <=> spc = "sending"

TypeCalls ==
  /\ upc \in [Threads -> {"idle", "emplace", "set"}] /\ uarg \in [Threads -> Calls \cup {0}]
  /\ started \in 0..MaxSends /\ closes \in 0..MaxCloses
  /\ answered \in [Calls -> Nat] /\ reports \in Nat
  /\ \A t \in Threads : upc[t] = "emplace" => uarg[t] \in Calls

TypeFrames ==
  /\ fragment_code \in {"none", "text", "binary"}
  /\ fragment_payload \in Seq(1..MaxFrames) /\ fragment_validate_offset \in 0..MaxFrames
  /\ received \in Seq(PeerFrames)
  /\ delivered \in Seq([kind : {"text", "binary"}, parts : Seq(1..MaxFrames)])
  /\ Len(fragment_payload) <= Len(received)

LEMMA TypeParts == TypeInv <=> TypeStates /\ TypeQueue /\ TypeCalls /\ TypeFrames
  BY DEF TypeInv, TypeOK, TypeStates, TypeQueue, TypeCalls, TypeFrames

LEMMA TypePartsStep == TypeInv' <=> TypeStates' /\ TypeQueue' /\ TypeCalls' /\ TypeFrames'
  BY DEF TypeInv, TypeOK, TypeStates, TypeQueue, TypeCalls, TypeFrames

LEMMA KeptQueue ==
  ASSUME TypeQueue, UNCHANGED <<send_queue, sending, spc>> PROVE TypeQueue'
  BY DEF TypeQueue

LEMMA KeptCalls ==
  ASSUME TypeCalls, UNCHANGED <<upc, uarg, started, closes, answered, reports>> PROVE TypeCalls'
  BY DEF TypeCalls

LEMMA KeptFrames ==
  ASSUME TypeFrames,
         UNCHANGED <<fragment_code, fragment_payload, fragment_validate_offset, received, delivered>>
  PROVE  TypeFrames'
  BY DEF TypeFrames

LEMMA ElementTypes ==
  /\ \A i \in Calls : Data(i) \in Elements
  /\ Pong \in Elements
  /\ \A r \in BOOLEAN : Close(r) \in Elements
  /\ Idle \notin Elements
  BY DEF Elements, Data, Pong, Close, Idle

(* The states that closing leads to.                                         *)
AfterClose ==
  /\ con_state' \in {"init", "handshake", "open", "client_close", "closed"}
  /\ con_state' = "init" => con_state = "init"

LEMMA FailsTypes ==
  ASSUME TypeOK
  PROVE  /\ \A r \in BOOLEAN : Append(send_queue, Close(r)) \in Seq(Elements)
         /\ Append(send_queue, Pong) \in Seq(Elements)
         /\ \A i \in Calls : Append(send_queue, Data(i)) \in Seq(Elements)
         /\ \A e : ClosesWith(e) => AfterClose
         /\ FirstClose => /\ con_state' \in {con_state, "client_close"}
                          /\ con_state' = "init" => con_state = "init"
         /\ Fails => AfterClose /\ send_queue' \in Seq(Elements) /\ send_event' \in BOOLEAN
<1>1. ASSUME NEW e \in Elements PROVE Append(send_queue, e) \in Seq(Elements)
  BY AppendProperties DEF TypeOK
<1>2. \A e : ClosesWith(e) => AfterClose
  BY DEF TypeOK, ClosesWith, FirstClose, AfterClose
<1>3. FirstClose => con_state' \in {con_state, "client_close"} /\ (con_state' = "init" => con_state = "init")
  BY DEF FirstClose
<1>4. ASSUME Fails
      PROVE  AfterClose /\ send_queue' \in Seq(Elements) /\ send_event' \in BOOLEAN
  <2>1. CASE AlreadyClosing /\ UNCHANGED <<con_state, send_queue, send_event>>
    BY <2>1 DEF TypeOK, AlreadyClosing, AfterClose
  <2>2. ASSUME NEW r \in BOOLEAN, ClosesWith(Close(r)), Sends(Close(r))
        PROVE  AfterClose /\ send_queue' \in Seq(Elements) /\ send_event' \in BOOLEAN
    BY <1>1, <1>2, <2>2, ElementTypes DEF Sends
  <2> QED
    BY <1>4, <2>1, <2>2 DEF Fails
<1> QED
  BY <1>1, <1>2, <1>3, <1>4, ElementTypes

LEMMA InitTypes == Init => TypeInv
<1> SUFFICES ASSUME Init PROVE TypeInv
  OBVIOUS
<1>1. <<>> \in Seq(Elements) /\ <<>> \in Seq(1..MaxFrames) /\ <<>> \in Seq(PeerFrames)
      /\ <<>> \in Seq([kind : {"text", "binary"}, parts : Seq(1..MaxFrames)])
  BY EmptySeq
<1>2. /\ started \in 0..MaxSends /\ closes \in 0..MaxCloses
      /\ fragment_validate_offset \in 0..MaxFrames
      /\ answered \in [Calls -> Nat] /\ reports \in Nat
  BY WebSocketAssumption DEF Init
<1>3. upc \in [Threads -> {"idle", "emplace", "set"}] /\ uarg \in [Threads -> Calls \cup {0}]
  BY DEF Init
<1>4. TypeOK
  BY <1>1, <1>2, <1>3 DEF Init, TypeOK
<1> QED
  BY <1>4, EmptySeq DEF Init, TypeInv

LEMMA UserTypes ==
  ASSUME TypeInv, UserCall \/ \E t \in Threads : Continue(t)
  PROVE  TypeInv'
<1> USE DEF tasks, transmit, tcp, parser, users, inbound
<1>0. /\ TypeOK /\ TypeStates /\ TypeQueue /\ TypeCalls /\ TypeFrames
      /\ MaxSends \in Nat /\ MaxCloses \in Nat /\ Calls = 1..MaxSends
  BY WebSocketAssumption, TypeParts DEF Calls, TypeInv
<1>1. ASSUME NEW a \in Actors, SendRefused(a) PROVE TypeInv'
  <2>1. TypeStates' /\ TypeQueue' /\ TypeFrames'
    BY <1>0, <1>1, KeptQueue, KeptFrames DEF SendRefused, TypeStates
  <2>2. TypeCalls'
    BY <1>0, <1>1 DEF SendRefused, Called, TypeCalls
  <2> QED
    BY <2>1, <2>2, TypePartsStep
<1>2. CASE SendOnWorker
  <2>1. TypeStates' /\ TypeFrames'
    BY <1>0, <1>2, KeptFrames DEF SendOnWorker, Sends, TypeStates
  <2>2. TypeCalls' /\ started + 1 \in Calls
    BY <1>0, <1>2 DEF SendOnWorker, Called, TypeCalls
  <2>3. TypeQueue'
    BY <1>0, <1>2, <2>2, FailsTypes DEF SendOnWorker, Sends, TypeQueue
  <2> QED
    BY <2>1, <2>2, <2>3, TypePartsStep
<1>3. CASE CloseOnWorker
  <2>1. AfterClose /\ send_queue' \in Seq(Elements) /\ send_event' \in BOOLEAN
    BY <1>0, <1>3, FailsTypes DEF CloseOnWorker
  <2>2. TypeStates' /\ TypeQueue' /\ TypeFrames'
    BY <1>0, <1>3, <2>1, KeptFrames DEF CloseOnWorker, AfterClose, TypeStates, TypeQueue
  <2>3. TypeCalls'
    BY <1>0, <1>3 DEF CloseOnWorker, TypeCalls
  <2> QED
    BY <2>2, <2>3, TypePartsStep
<1>4. ASSUME NEW t \in Threads, SendChecked(t) PROVE TypeInv'
  <2>1. TypeStates' /\ TypeQueue' /\ TypeFrames'
    BY <1>0, <1>4, KeptQueue, KeptFrames DEF SendChecked, TypeStates
  <2>2. TypeCalls'
    BY <1>0, <1>4 DEF SendChecked, Called, TypeCalls
  <2> QED
    BY <2>1, <2>2, TypePartsStep
<1>5. ASSUME NEW t \in Threads, CloseCall(t) PROVE TypeInv'
  <2>1. AfterClose /\ send_queue' \in Seq(Elements)
    BY <1>0, <1>5, FailsTypes DEF CloseCall
  <2>2. TypeStates' /\ TypeQueue' /\ TypeFrames'
    BY <1>0, <1>5, <2>1, KeptFrames DEF CloseCall, AfterClose, TypeStates, TypeQueue
  <2>3. TypeCalls'
    BY <1>0, <1>5 DEF CloseCall, TypeCalls
  <2> QED
    BY <2>2, <2>3, TypePartsStep
<1>6. ASSUME NEW ok \in BOOLEAN, Connect(ok) PROVE TypeInv'
  <2>1. TypeCalls' /\ TypeFrames'
    BY <1>0, <1>6, KeptCalls, KeptFrames DEF Connect
  <2>2. /\ wpc' = "free" /\ con_state' = "handshake"
        /\ UNCHANGED <<send_queue, sending, send_event, handler, eof, stuck, dpc>>
        /\ connected' \in BOOLEAN
    BY <1>6 DEF Connect, Free
  <2>3. hpc' \in {"request", "failed"} /\ spc' \in {"check", spc} /\ send_should_exit' \in BOOLEAN
    BY <1>0, <1>6 DEF Connect, TypeStates
  <2>4. ~handler /\ spc = "none"
    BY <1>0, <1>6 DEF Connect, TypeStates
  <2>5. TypeStates' /\ TypeQueue'
    BY <1>0, <2>2, <2>3, <2>4 DEF TypeStates, TypeQueue
  <2> QED
    BY <2>1, <2>5, TypePartsStep
<1>7. ASSUME NEW t \in Threads, SendEmplace(t) PROVE TypeInv'
  <2>1. TypeStates' /\ TypeFrames'
    BY <1>0, <1>7, KeptFrames DEF SendEmplace, TypeStates
  <2>2. TypeCalls' /\ uarg[t] \in Calls
    BY <1>0, <1>7 DEF SendEmplace, TypeCalls
  <2>3. TypeQueue'
    BY <1>0, <1>7, <2>2, FailsTypes DEF SendEmplace, TypeQueue
  <2> QED
    BY <2>1, <2>2, <2>3, TypePartsStep
<1>8. ASSUME NEW t \in Threads, SetEvent(t) PROVE TypeInv'
  <2>1. TypeStates' /\ TypeQueue' /\ TypeFrames'
    BY <1>0, <1>8, KeptQueue, KeptFrames DEF SetEvent, TypeStates
  <2>2. TypeCalls'
    BY <1>0, <1>8 DEF SetEvent, TypeCalls
  <2> QED
    BY <2>1, <2>2, TypePartsStep
<1> QED
  BY <1>1, <1>2, <1>3, <1>4, <1>5, <1>6, <1>7, <1>8 DEF UserCall, Continue

LEMMA CallsBackTypes ==
  ASSUME TypeOK, NEW s \in Seq(Elements), CallsBack(s)
  PROVE  answered' \in [Calls -> Nat] /\ reports' \in Nat
<1>1. Len(s) \in Nat /\ DOMAIN s = 1..Len(s)
  BY LenProperties
<1>2. IsFiniteSet(1..Len(s))
  BY <1>1, FS_Interval
<1>3. \A i \in Calls : {k \in DOMAIN s : s[k].cb = i} \in SUBSET (1..Len(s))
  BY <1>1
<1>4. {k \in DOMAIN s : s[k].reports} \in SUBSET (1..Len(s))
  BY <1>1
<1>5. \A i \in Calls : Cardinality({k \in DOMAIN s : s[k].cb = i}) \in Nat
  BY <1>2, <1>3, FS_Subset, FS_CardinalityType
<1>6. Cardinality({k \in DOMAIN s : s[k].reports}) \in Nat
  BY <1>2, <1>4, FS_Subset, FS_CardinalityType
<1>7. answered \in [Calls -> Nat] /\ reports \in Nat
  BY DEF TypeOK
<1> QED
  BY <1>5, <1>6, <1>7 DEF CallsBack

LEMMA TaskTypes ==
  ASSUME TypeInv, HandshakeTask \/ SendTask
  PROVE  TypeInv'
<1> USE DEF tasks, transmit, tcp, parser, users, inbound
<1>0. TypeOK /\ TypeStates /\ TypeQueue /\ TypeCalls /\ TypeFrames
  BY TypeParts DEF TypeInv
<1>1. ASSUME HandshakeTask PROVE TypeInv'
  <2>1. UNCHANGED <<send_queue, sending, spc>>
        /\ UNCHANGED <<upc, uarg, started, closes, answered, reports>>
        /\ UNCHANGED <<fragment_code, fragment_payload, fragment_validate_offset, received, delivered>>
    BY <1>1 DEF HandshakeTask, H_Sent, H_Response, H_Refused, H_Disconnected, H_OnOpen, Handshake,
                H_Open, H_Throws, H_Install
  <2>2. TypeQueue' /\ TypeCalls' /\ TypeFrames'
    BY <1>0, <2>1, KeptQueue, KeptCalls, KeptFrames
  <2>3. ASSUME NEW from, NEW to \in {"response", "answered", "opening", "failed"},
               from \in {"request", "response", "answered"}, Handshake(from, to)
        PROVE  TypeStates'
    BY <1>0, <2>3 DEF Handshake, Free, TypeStates
  <2>4. ASSUME H_Sent \/ H_Response \/ H_Refused \/ H_Disconnected \/ H_OnOpen PROVE TypeStates'
    BY <2>3, <2>4 DEF H_Sent, H_Response, H_Refused, H_Disconnected, H_OnOpen
  <2>5. ASSUME H_Open PROVE TypeStates'
    BY <1>0, <2>5 DEF H_Open, Free, TypeStates
  <2>6. ASSUME H_Throws PROVE TypeStates'
    BY <1>0, <2>6 DEF H_Throws, Free, TypeStates
  <2>7. ASSUME H_Install PROVE TypeStates'
    BY <1>0, <2>7 DEF H_Install, Free, TypeStates
  <2>8. TypeStates'
    BY <1>1, <2>4, <2>5, <2>6, <2>7 DEF HandshakeTask
  <2> QED
    BY <2>2, <2>8, TypePartsStep
<1>2. CASE S_Pop
  <2>1. Head(send_queue) \in Elements /\ Tail(send_queue) \in Seq(Elements)
    BY <1>0, <1>2, HeadTailProperties DEF S_Pop, TypeQueue
  <2>2. TypeCalls' /\ TypeFrames'
    BY <1>0, <1>2, KeptCalls, KeptFrames DEF S_Pop
  <2>3. TypeQueue'
    BY <1>2, <2>1, ElementTypes DEF S_Pop, TypeQueue
  <2>4. TypeStates'
    BY <1>0, <1>2 DEF S_Pop, Free, TypeStates
  <2> QED
    BY <2>2, <2>3, <2>4, TypePartsStep
<1>3. ASSUME S_PopThrows \/ S_Empty \/ S_Wake \/ S_Check PROVE TypeInv'
  <2>1. /\ UNCHANGED <<send_queue, sending>>
        /\ UNCHANGED <<upc, uarg, started, closes, answered, reports>>
        /\ UNCHANGED <<fragment_code, fragment_payload, fragment_validate_offset, received, delivered>>
        /\ UNCHANGED <<con_state, hpc, send_should_exit, connected, handler, eof, stuck, dpc>>
        /\ spc \notin {"sending", "none"} /\ spc' \in {"pop", "waiting", "check", "drain"}
        /\ wpc = "free" /\ wpc' \in {"free", "terminated"} /\ send_event' \in BOOLEAN
    BY <1>0, <1>3 DEF S_PopThrows, S_Empty, S_Wake, S_Check, Free, TypeStates
  <2>2. TypeCalls' /\ TypeFrames' /\ TypeQueue'
    BY <1>0, <2>1, KeptCalls, KeptFrames DEF TypeQueue
  <2>3. TypeStates'
    BY <1>0, <2>1 DEF TypeStates
  <2> QED
    BY <2>2, <2>3, TypePartsStep
<1>4. CASE S_Sent
  <2>1. <<sending>> \in Seq(Elements)
    BY <1>0, <1>4 DEF S_Sent, TypeQueue
  <2>2. answered' \in [Calls -> Nat] /\ reports' \in Nat
    BY <1>0, <1>4, <2>1, CallsBackTypes DEF S_Sent
  <2>3. TypeCalls' /\ TypeFrames' /\ TypeQueue'
    BY <1>0, <1>4, <2>2, KeptFrames DEF S_Sent, TypeQueue, TypeCalls
  <2>4. TypeStates'
    BY <1>0, <1>4 DEF S_Sent, Free, TypeStates
  <2> QED
    BY <2>3, <2>4, TypePartsStep
<1>5. CASE S_Drain
  <2>1. answered' \in [Calls -> Nat] /\ reports' \in Nat
    BY <1>0, <1>5, CallsBackTypes DEF S_Drain, TypeQueue
  <2>2. TypeCalls' /\ TypeFrames' /\ TypeQueue'
    BY <1>0, <1>5, <2>1, KeptFrames, EmptySeq DEF S_Drain, TypeQueue, TypeCalls
  <2>3. TypeStates'
    BY <1>0, <1>5 DEF S_Drain, Free, TypeStates
  <2> QED
    BY <2>2, <2>3, TypePartsStep
<1>6. CASE S_Disconnect
  <2>1. TypeCalls' /\ TypeFrames' /\ TypeQueue'
    BY <1>0, <1>6, KeptCalls, KeptFrames DEF S_Disconnect, TypeQueue
  <2>2. con_state # "init" /\ wpc = "free"
    BY <1>0, <1>6 DEF S_Disconnect, Free, TypeStates
  <2>3. spc' \in {"cancel", "exited"}
    BY <1>6 DEF S_Disconnect
  <2>4. connected' \in BOOLEAN /\ handler' \in BOOLEAN /\ ~handler'
    BY <1>6 DEF S_Disconnect
  <2>5. UNCHANGED <<con_state, hpc, wpc, send_event, send_should_exit, eof, stuck, dpc>>
    BY <1>6 DEF S_Disconnect
  <2>6. TypeStates'
    BY <1>0, <2>2, <2>3, <2>4, <2>5 DEF TypeStates
  <2> QED
    BY <2>1, <2>6, TypePartsStep
<1>7. CASE S_Cancelled
  <2>1. TypeCalls' /\ TypeFrames' /\ TypeQueue'
    BY <1>0, <1>7, KeptFrames DEF S_Cancelled, Lost, TypeQueue, TypeCalls
  <2>2. TypeStates'
    BY <1>0, <1>7 DEF S_Cancelled, Lost, Free, TypeStates
  <2> QED
    BY <2>1, <2>2, TypePartsStep
<1> QED
  BY <1>1, <1>2, <1>3, <1>4, <1>5, <1>6, <1>7 DEF SendTask

(* A frame that was handled: the sizes of what it may be appended to.        *)
LEMMA ReceivedTypes ==
  ASSUME TypeInv, NEW f \in PeerFrames, Receives(f)
  PROVE  /\ received' \in Seq(PeerFrames) /\ Len(received') = Len(received) + 1
         /\ Len(received) \in Nat /\ Len(received) < MaxFrames /\ MaxFrames \in Nat
         /\ This \in 1..MaxFrames
         /\ Append(fragment_payload, This) \in Seq(1..MaxFrames)
         /\ Len(fragment_payload) \in Nat
         /\ Len(Append(fragment_payload, This)) = Len(fragment_payload) + 1
<1>1. /\ received \in Seq(PeerFrames) /\ fragment_payload \in Seq(1..MaxFrames)
      /\ received' = Append(received, f) /\ Len(received) < MaxFrames /\ MaxFrames \in Nat
  BY WebSocketAssumption DEF TypeInv, TypeOK, Receives
<1>2. received' \in Seq(PeerFrames) /\ Len(received') = Len(received) + 1 /\ Len(received) \in Nat
  BY <1>1, AppendProperties, LenProperties
<1>3. This \in 1..MaxFrames
  BY <1>1, <1>2 DEF This
<1> QED
  BY <1>1, <1>2, <1>3, AppendProperties, LenProperties

LEMMA DeliveredTypes ==
  ASSUME TypeInv, NEW kind \in {"text", "binary"}, NEW parts \in Seq(1..MaxFrames),
         Delivers(kind, parts)
  PROVE  delivered' \in Seq([kind : {"text", "binary"}, parts : Seq(1..MaxFrames)])
<1>1. delivered \in Seq([kind : {"text", "binary"}, parts : Seq(1..MaxFrames)])
  BY DEF TypeInv, TypeOK
<1>2. [kind |-> kind, parts |-> parts] \in [kind : {"text", "binary"}, parts : Seq(1..MaxFrames)]
  OBVIOUS
<1> QED
  BY <1>1, <1>2, AppendProperties DEF Delivers

LEMMA FrameTypes ==
  ASSUME TypeInv, NEW f \in PeerFrames, Frame(f)
  PROVE  TypeInv'
<1> USE DEF tasks, transmit, tcp, parser, users, inbound
<1>0. TypeOK /\ TypeStates /\ TypeQueue /\ TypeCalls /\ TypeFrames
  BY TypeParts DEF TypeInv
<1>1. /\ Receives(f)
      /\ UNCHANGED <<hpc, spc, sending, send_should_exit, connected, handler, eof, dpc>>
      /\ UNCHANGED <<upc, uarg, started, closes, answered>>
      /\ wpc = "free" /\ con_state \notin {"closed", "server_close"}
      /\ hpc = "dummy" \/ handler
  BY DEF Frame, W_Rejects, W_Masked, W_Ping, W_Pong, W_Message, W_FragmentStart, W_FragmentNext,
         W_FragmentEnd, W_CloseReply, W_CloseFrame, Receives, Free
<1>2. /\ received' \in Seq(PeerFrames) /\ Len(received') = Len(received) + 1
      /\ Len(received) \in Nat /\ Len(received) < MaxFrames /\ MaxFrames \in Nat
      /\ This \in 1..MaxFrames
      /\ Append(fragment_payload, This) \in Seq(1..MaxFrames)
      /\ Len(fragment_payload) \in Nat
      /\ Len(Append(fragment_payload, This)) = Len(fragment_payload) + 1
  BY <1>1, ReceivedTypes
<1>3. AfterClose /\ con_state # "init" => con_state' \in {"handshake", "open", "client_close", "closed"}
  BY DEF AfterClose
<1>4. con_state # "init"
  BY <1>0, <1>1 DEF TypeStates
<1>5. ASSUME Fails \/ Quiet
      PROVE  /\ con_state' \in {"handshake", "open", "client_close", "closed"}
             /\ send_queue' \in Seq(Elements) /\ send_event' \in BOOLEAN
  <2>1. CASE Fails
    BY <1>0, <1>3, <1>4, <2>1, FailsTypes
  <2>2. CASE Quiet
    BY <1>0, <1>1, <1>4, <2>2 DEF Quiet, TypeStates, TypeQueue
  <2> QED
    BY <1>5, <2>1, <2>2
<1>6. /\ TypeFrames'
      /\ con_state' \in {"handshake", "open", "client_close", "server_close", "closed"}
      /\ send_queue' \in Seq(Elements) /\ send_event' \in BOOLEAN /\ stuck' \in BOOLEAN
      /\ wpc' \in {"free", "replying"} /\ reports' \in {reports, reports + 1}
  <2>1. CASE W_Rejects(f)
    BY <1>0, <1>1, <1>2, <1>5, <2>1 DEF W_Rejects, NoMessage, TypeFrames, TypeStates
  <2>2. CASE W_Masked(f)
    BY <1>0, <1>1, <1>2, <1>5, <2>2 DEF W_Masked, NoMessage, TypeFrames, TypeStates
  <2>3. CASE W_Ping(f)
    <3>1. send_queue' \in Seq(Elements) /\ send_event' \in BOOLEAN
      BY <1>0, <2>3, FailsTypes DEF W_Ping, Sends, TypeStates, TypeQueue
    <3> QED
      BY <1>0, <1>1, <1>2, <1>4, <2>3, <3>1 DEF W_Ping, NoMessage, TypeFrames, TypeStates
  <2>4. CASE W_Pong(f)
    BY <1>0, <1>1, <1>2, <1>5, <2>4 DEF W_Pong, NoMessage, TypeFrames, TypeStates
  <2>5. CASE W_Message(f)
    <3>1. <<This>> \in Seq(1..MaxFrames)
      BY <1>2
    <3>2. delivered' \in Seq([kind : {"text", "binary"}, parts : Seq(1..MaxFrames)])
      BY <2>5, <3>1, DeliveredTypes DEF W_Message
    <3> QED
      BY <1>0, <1>1, <1>2, <1>5, <2>5, <3>2 DEF W_Message, TypeFrames, TypeStates
  <2>6. CASE W_FragmentStart(f)
    <3>1. <<This>> \in Seq(1..MaxFrames) /\ Len(<<This>>) = 1
      BY <1>2
    <3>2. fragment_validate_offset' \in 0..MaxFrames
      BY <1>0, <1>2, <2>6 DEF W_FragmentStart, TypeFrames
    <3>3. /\ fragment_code' \in {"text", "binary"} /\ fragment_payload' = <<This>>
          /\ UNCHANGED <<delivered, wpc, reports, stuck>>
          /\ Fails \/ Quiet
      BY <2>6 DEF W_FragmentStart, NoMessage
    <3>4. TypeFrames'
      BY <1>0, <1>2, <3>1, <3>2, <3>3 DEF TypeFrames
    <3> QED
      BY <1>0, <1>1, <1>5, <3>3, <3>4 DEF TypeStates
  <2>7. CASE W_FragmentNext(f)
    <3>1. /\ fragment_payload' = Append(fragment_payload, This)
          /\ UNCHANGED <<delivered, wpc, reports, stuck, fragment_code>>
          /\ fragment_validate_offset' \in {fragment_validate_offset, Len(fragment_payload')}
          /\ Fails \/ Quiet
      BY <2>7 DEF W_FragmentNext, NoMessage
    <3>2. fragment_validate_offset' \in 0..MaxFrames
      BY <1>0, <1>2, <3>1 DEF TypeFrames
    <3>3. TypeFrames'
      BY <1>0, <1>2, <3>1, <3>2 DEF TypeFrames
    <3> QED
      BY <1>0, <1>1, <1>5, <3>1, <3>3 DEF TypeStates
  <2>8. CASE W_FragmentEnd(f)
    <3>1. /\ fragment_payload' = <<>> /\ fragment_code' = "none" /\ fragment_code \in {"text", "binary"}
          /\ UNCHANGED <<wpc, reports, stuck, fragment_validate_offset>>
          /\ Fails \/ Quiet
      BY <1>0, <2>8 DEF W_FragmentEnd, InFragment, TypeFrames
    <3>2. Delivers(fragment_code, Append(fragment_payload, This)) \/ UNCHANGED delivered
      BY <2>8 DEF W_FragmentEnd
    <3>3. delivered' \in Seq([kind : {"text", "binary"}, parts : Seq(1..MaxFrames)])
      BY <1>0, <1>2, <3>1, <3>2, DeliveredTypes DEF TypeFrames
    <3>4. TypeFrames'
      BY <1>0, <1>2, <3>1, <3>3, EmptySeq DEF TypeFrames
    <3> QED
      BY <1>0, <1>1, <1>5, <3>1, <3>4 DEF TypeStates
  <2>9. CASE W_CloseReply(f)
    BY <1>0, <1>1, <1>2, <2>9 DEF W_CloseReply, TypeFrames, TypeStates, TypeQueue
  <2>10. CASE W_CloseFrame(f)
    BY <1>0, <1>1, <1>2, <2>10 DEF W_CloseFrame, TypeFrames, TypeStates, TypeQueue
  <2> QED
    BY <2>1, <2>2, <2>3, <2>4, <2>5, <2>6, <2>7, <2>8, <2>9, <2>10 DEF Frame
<1>7. TypeStates' /\ TypeQueue' /\ TypeCalls'
  BY <1>0, <1>1, <1>6 DEF TypeStates, TypeQueue, TypeCalls
<1> QED
  BY <1>6, <1>7, TypePartsStep

EndSteps == W_Reply \/ W_Eof \/ PeerEof \/ DestroyOnWorker \/ D_Check \/ Destructor

LEMMA EndTypes ==
  ASSUME TypeInv, EndSteps
  PROVE  TypeInv'
<1> USE DEF tasks, transmit, tcp, parser, users, inbound
<1>0. TypeOK /\ TypeStates /\ TypeQueue /\ TypeCalls /\ TypeFrames
  BY TypeParts DEF TypeInv
<1>1. CASE W_Reply
  <2>1. AfterClose /\ send_queue' \in Seq(Elements) /\ send_event' \in BOOLEAN
    BY <1>0, <1>1, FailsTypes DEF W_Reply
  <2>2. TypeStates' /\ TypeQueue' /\ TypeCalls' /\ TypeFrames'
    BY <1>0, <1>1, <2>1, KeptCalls, KeptFrames DEF W_Reply, AfterClose, TypeStates, TypeQueue
  <2> QED
    BY <2>2, TypePartsStep
<1>2. CASE W_Eof
  <2>1. TypeQueue' /\ TypeCalls' /\ TypeFrames'
    BY <1>0, <1>2, KeptQueue, KeptFrames DEF W_Eof, Lost, TypeCalls
  <2>2. TypeStates'
    <3>1. /\ con_state' = "closed" /\ ~handler' /\ handler' \in BOOLEAN /\ wpc = "free"
          /\ UNCHANGED <<hpc, spc, wpc, send_event, send_should_exit, connected, eof, stuck, dpc>>
      BY <1>2 DEF W_Eof, Lost, Free
    <3> QED
      BY <1>0, <3>1 DEF TypeStates
  <2> QED
    BY <2>1, <2>2, TypePartsStep
<1>3. CASE PeerEof
  <2>1. TypeQueue' /\ TypeCalls' /\ TypeFrames'
    BY <1>0, <1>3, KeptQueue, KeptCalls, KeptFrames DEF PeerEof
  <2>2. TypeStates'
    BY <1>0, <1>3 DEF PeerEof, TypeStates
  <2> QED
    BY <2>1, <2>2, TypePartsStep
<1>4. CASE DestroyOnWorker
  <2>1. TypeCalls' /\ TypeFrames'
    BY <1>0, <1>4, KeptCalls, KeptFrames DEF DestroyOnWorker
  <2>2. CASE Fails
    <3>1. AfterClose /\ send_queue' \in Seq(Elements)
      BY <1>0, <2>2, FailsTypes
    <3>2. TypeQueue'
      BY <1>0, <1>4, <3>1 DEF DestroyOnWorker, TypeQueue
    <3>3. TypeStates'
      BY <1>0, <1>4, <3>1 DEF DestroyOnWorker, AfterClose, Free, TypeStates
    <3> QED
      BY <2>1, <3>2, <3>3, TypePartsStep
  <2>3. CASE UNCHANGED <<con_state, send_queue>>
    <3>1. TypeQueue'
      BY <1>0, <1>4, <2>3 DEF DestroyOnWorker, TypeQueue
    <3>2. TypeStates'
      BY <1>0, <1>4, <2>3 DEF DestroyOnWorker, Free, TypeStates
    <3> QED
      BY <2>1, <3>1, <3>2, TypePartsStep
  <2> QED
    BY <1>4, <2>2, <2>3 DEF DestroyOnWorker
<1>5. ASSUME D_Check \/ Destructor PROVE TypeInv'
  <2>1. TypeCalls' /\ TypeFrames'
    BY <1>0, <1>5, KeptCalls, KeptFrames
       DEF D_Check, Destructor, D_Close, D_Reply, D_First, D_FirstOpen, D_Exchange, D_Wake, D_Exit,
           D_ExitWake, Destroying
  <2>2. /\ UNCHANGED <<hpc, spc, wpc, sending, connected, handler, eof, stuck>>
        /\ dpc' \in {"close", "reply", "first", "exchange", "wake", "exit", "exitWake", "gone"}
    BY <1>5 DEF D_Check, Destructor, D_Close, D_Reply, D_First, D_FirstOpen, D_Exchange, D_Wake, D_Exit,
                D_ExitWake, Destroying
  <2>3. send_event' \in BOOLEAN /\ send_should_exit' \in BOOLEAN
    BY <1>0, <1>5
       DEF D_Check, Destructor, D_Close, D_Reply, D_First, D_FirstOpen, D_Exchange, D_Wake, D_Exit,
           D_ExitWake, TypeStates
  <2>4. con_state' \in {con_state, "client_close", "closed"}
    BY <1>0, <1>5, FailsTypes
       DEF D_Check, Destructor, D_Close, D_Reply, D_First, D_FirstOpen, D_Exchange, D_Wake, D_Exit, D_ExitWake
  <2>5. send_queue' \in Seq(Elements)
    BY <1>0, <1>5, FailsTypes
       DEF D_Check, Destructor, D_Close, D_Reply, D_First, D_FirstOpen, D_Exchange, D_Wake, D_Exit,
           D_ExitWake, TypeQueue
  <2>6. TypeStates' /\ TypeQueue'
    BY <1>0, <2>2, <2>3, <2>4, <2>5 DEF TypeStates, TypeQueue
  <2> QED
    BY <2>1, <2>6, TypePartsStep
<1> QED
  BY <1>1, <1>2, <1>3, <1>4, <1>5 DEF EndSteps

LEMMA NextParts ==
  Next => \/ UserCall \/ \E t \in Threads : Continue(t)
          \/ HandshakeTask \/ SendTask
          \/ \E f \in PeerFrames : Frame(f)
          \/ EndSteps
  BY DEF Next, EndSteps

LEMMA StepTypes == TypeInv /\ [Next]_vars => TypeInv'
<1> SUFFICES ASSUME TypeInv, [Next]_vars PROVE TypeInv'
  OBVIOUS
<1>1. CASE Next
  BY <1>1, NextParts, UserTypes, TaskTypes, FrameTypes, EndTypes
<1>2. CASE UNCHANGED vars
  BY <1>2 DEF vars, tasks, transmit, tcp, parser, users, inbound, TypeInv, TypeOK
<1> QED
  BY <1>1, <1>2

LEMMA AlwaysTyped == Safe => []TypeInv
  BY InitTypes, StepTypes, PTL DEF Safe

(* Types of all state; frames are handled only over a connection, and the    *)
(* server's close is answered where its frame is handled.                    *)
THEOREM TypesHold == Safe => []TypeOK
<1>1. TypeInv => TypeOK
  BY DEF TypeInv
<1> QED
  BY <1>1, AlwaysTyped, PTL

-------------------------------------------------------------------------------
(* No frame waits behind a sleeping send_task: only SendEmplace, CloseCall   *)
(* and the destructor queue a frame before they set the event.               *)
THEOREM NoFrameIsLost == Safe => []NoLostFrame
<1>1. Init => NoLostFrame
  BY DEF Init, NoLostFrame
<1>2. ASSUME TypeInv, NoLostFrame, [Next]_vars PROVE NoLostFrame'
  <2> USE DEF tasks, transmit, tcp, parser, users, inbound
  <2>0. upc \in [Threads -> {"idle", "emplace", "set"}]
    BY <1>2 DEF TypeInv, TypeOK
  <2>1. CASE \E t \in Threads : SendEmplace(t) \/ CloseCall(t)
    BY <2>0, <2>1 DEF SendEmplace, CloseCall, NoLostFrame
  <2>2. CASE \/ \E t \in Threads : SetEvent(t)
             \/ SendOnWorker \/ DestroyOnWorker \/ D_Wake \/ D_ExitWake
    BY <2>2 DEF SetEvent, SendOnWorker, Sends, DestroyOnWorker, D_Wake, D_ExitWake, Destroying,
                NoLostFrame
  <2>3. ASSUME Fails \/ Quiet, UNCHANGED <<spc, upc, dpc>> PROVE NoLostFrame'
    BY <1>2, <2>3 DEF Fails, Sends, Quiet, NoLostFrame
  <2>4. ASSUME NEW t \in Threads, SendChecked(t) PROVE NoLostFrame'
    BY <1>2, <2>0, <2>4 DEF SendChecked, NoLostFrame
  <2>5. CASE \/ \E a \in Actors : SendRefused(a)
             \/ CloseOnWorker \/ HandshakeTask \/ W_Reply \/ W_Eof \/ PeerEof
    BY <1>2, <2>3, <2>5
       DEF SendRefused, CloseOnWorker, HandshakeTask, H_Sent, H_Response, H_Refused,
           H_Disconnected, H_OnOpen, Handshake, H_Open, H_Throws, H_Install, W_Reply, W_Eof, PeerEof,
           NoLostFrame
  <2>6. CASE \E ok \in BOOLEAN : Connect(ok)
    BY <1>2, <2>6 DEF Connect, NoLostFrame
  <2>7. CASE SendTask
    BY <2>7 DEF SendTask, S_Pop, S_PopThrows, S_Empty, S_Sent, S_Wake, S_Check, S_Drain, S_Disconnect,
                S_Cancelled, NoLostFrame
  <2>8. ASSUME NEW f \in PeerFrames, Frame(f) PROVE NoLostFrame'
    <3>1. /\ UNCHANGED <<spc, upc, dpc>>
          /\ Fails \/ Quiet \/ Sends(Pong) \/ UNCHANGED <<send_queue, send_event>>
      BY <2>8 DEF Frame, Receives, W_Rejects, W_Masked, W_Ping, W_Pong, W_Message, W_FragmentStart,
                  W_FragmentNext, W_FragmentEnd, W_CloseReply, W_CloseFrame
    <3>2. CASE Sends(Pong) \/ UNCHANGED <<send_queue, send_event>>
      BY <1>2, <3>1, <3>2 DEF Sends, NoLostFrame
    <3> QED
      BY <2>3, <3>1, <3>2
  <2>9. CASE D_Check \/ D_Close \/ D_Reply \/ D_First \/ D_FirstOpen \/ D_Exchange \/ D_Exit
    BY <1>2, <2>9 DEF D_Check, D_Close, D_Reply, D_First, D_FirstOpen, D_Exchange, D_Exit, Destroying, NoLostFrame
  <2>10. CASE UNCHANGED vars
    BY <1>2, <2>10 DEF vars, NoLostFrame
  <2> QED
    BY <1>2, <2>1, <2>2, <2>4, <2>5, <2>6, <2>7, <2>8, <2>9, <2>10, NextParts
       DEF UserCall, Continue, EndSteps, Destructor
<1> QED
  BY <1>1, <1>2, AlwaysTyped, PTL DEF Safe

-------------------------------------------------------------------------------
(* Every call of send is owned: by its answer, a frame in the queue, the     *)
(* frame being sent or the thread that makes it.  A call not yet made has no *)
(* owner, so that there is one when it is made.                              *)
Asks(i) == {e \in Elements \cup {Idle} : e.cb = i}

Made(i) == \E t \in Threads : upc[t] = "emplace" /\ uarg[t] = i

Owners(i) == answered[i] + Count(send_queue, Asks(i)) + Bit(sending \in Asks(i)) + Bit(Made(i))

OneMaker ==
  \A t, u \in Threads : upc[t] = "emplace" /\ upc[u] = "emplace" /\ uarg[t] = uarg[u] => t = u

AnswerInv == OneMaker /\ \A i \in Calls : Owners(i) = Bit(i <= started)

LEMMA WhoAsks ==
  ASSUME NEW i \in Calls
  PROVE  /\ \A j \in Calls : Data(j) \in Asks(i) <=> j = i
         /\ Pong \notin Asks(i) /\ Idle \notin Asks(i)
         /\ \A r \in BOOLEAN : Close(r) \notin Asks(i)
<1>1. i # 0
  BY WebSocketAssumption DEF Calls
<1>2. \A j \in Calls : Data(j) \in Elements
  BY ElementTypes
<1> QED
  BY <1>1, <1>2 DEF Asks, Data, Pong, Close, Idle

LEMMA AnswersAreCounted ==
  ASSUME NEW s \in Seq(Elements \cup {Idle}), NEW i
  PROVE  Cardinality({k \in DOMAIN s : s[k].cb = i}) = Count(s, Asks(i))
<1>1. \A k \in DOMAIN s : s[k] \in Elements \cup {Idle}
  BY LenProperties, ElementOfSeq
<1>2. {k \in DOMAIN s : s[k].cb = i} = Places(s, Asks(i))
  BY <1>1 DEF Places, Asks
<1> QED
  BY <1>2 DEF Count

LEMMA CallsBackOwners ==
  ASSUME TypeOK, NEW s \in Seq(Elements), CallsBack(s), NEW i \in Calls
  PROVE  answered'[i] = answered[i] + Count(s, Asks(i)) /\ Count(s, Asks(i)) \in Nat
<1>1. s \in Seq(Elements \cup {Idle})
  BY SeqMonotonic
<1> QED
  BY <1>1, AnswersAreCounted, CountType DEF CallsBack

LEMMA OwnerTypes ==
  ASSUME TypeOK, NEW i \in Calls
  PROVE  /\ answered[i] \in Nat /\ Count(send_queue, Asks(i)) \in Nat
         /\ Bit(sending \in Asks(i)) \in {0, 1} /\ Bit(Made(i)) \in {0, 1}
         /\ started \in Nat /\ i \in Nat
<1>1. answered[i] \in Nat /\ send_queue \in Seq(Elements) /\ started \in Nat /\ i \in Nat
  BY WebSocketAssumption DEF TypeOK, Calls
<1> QED
  BY <1>1, CountType DEF Bit

(* A frame that nobody asked for.                                            *)
LEMMA UnaskedOwners ==
  ASSUME TypeOK, NEW i \in Calls, NEW e \in {Pong, Close(TRUE), Close(FALSE)}
  PROVE  Count(Append(send_queue, e), Asks(i)) = Count(send_queue, Asks(i))
<1>1. e \in Elements /\ e \notin Asks(i)
  BY ElementTypes, WhoAsks, ZenonT(60)
<1>2. send_queue \in Seq(Elements) /\ Count(send_queue, Asks(i)) \in Nat
  BY CountType DEF TypeOK
<1> QED
  BY <1>1, <1>2, CountAppend DEF Bit

(* What a step may do to the queue without queueing a call.                  *)
Unasked ==
  \/ UNCHANGED send_queue
  \/ \E e \in {Pong, Close(TRUE), Close(FALSE)} : send_queue' = Append(send_queue, e)

LEMMA KeptOwners ==
  ASSUME TypeOK, AnswerInv, Unasked, UNCHANGED <<answered, sending, started>>,
         \A i \in Calls : Made(i)' <=> Made(i), OneMaker'
  PROVE  AnswerInv'
<1>1. ASSUME NEW i \in Calls PROVE Owners(i)' = Bit(i <= started)'
  <2>1. Count(send_queue', Asks(i)) = Count(send_queue, Asks(i))
    BY UnaskedOwners DEF Unasked
  <2>2. Bit(Made(i))' = Bit(Made(i))
    BY DEF Bit
  <2> QED
    BY <2>1, <2>2 DEF AnswerInv, Owners, Asks, Bit
<1> QED
  BY <1>1 DEF AnswerInv

LEMMA FailsUnasked == Fails \/ Quiet \/ Sends(Pong) => Unasked
  BY DEF Fails, Quiet, Sends, Unasked

LEMMA AnswerStep ==
  ASSUME TypeInv, AnswerInv, [Next]_vars
  PROVE  AnswerInv'
<1> USE DEF tasks, transmit, tcp, parser, users, inbound
<1>0. /\ TypeOK /\ OneMaker
      /\ upc \in [Threads -> {"idle", "emplace", "set"}] /\ uarg \in [Threads -> Calls \cup {0}]
      /\ \A t \in Threads : upc[t] = "emplace" => uarg[t] \in Calls
      /\ started \in Nat /\ answered \in [Calls -> Nat] /\ Calls = 1..MaxSends
      /\ MaxSends \in Nat /\ send_queue \in Seq(Elements)
  <2>1. TypeOK /\ OneMaker /\ \A t \in Threads : upc[t] = "emplace" => uarg[t] \in Calls
    BY DEF TypeInv, AnswerInv
  <2>2. started \in Nat
    BY <2>1, WebSocketAssumption DEF TypeOK
  <2>3. answered \in [Calls -> Nat] /\ send_queue \in Seq(Elements)
        /\ upc \in [Threads -> {"idle", "emplace", "set"}] /\ uarg \in [Threads -> Calls \cup {0}]
    BY <2>1 DEF TypeOK
  <2> QED
    BY <2>1, <2>2, <2>3, WebSocketAssumption DEF Calls
(* Steps that call nothing back and are not part of send().                  *)
<1>1. ASSUME Unasked, UNCHANGED <<answered, sending, started>>, UNCHANGED <<upc, uarg>>
      PROVE  AnswerInv'
  BY <1>0, <1>1, KeptOwners DEF Made, OneMaker
<1>2. ASSUME NEW t \in Threads, CloseCall(t) \/ SetEvent(t) PROVE AnswerInv'
  <2>1. UNCHANGED <<answered, sending, started>>
    BY <1>2 DEF CloseCall, SetEvent
  <2>2. Unasked
    BY <1>2 DEF CloseCall, SetEvent, Unasked
  <2>3. \A u \in Threads : upc'[u] = "emplace" <=> upc[u] = "emplace"
    BY <1>0, <1>2 DEF CloseCall, SetEvent
  <2>4. \A u \in Threads : upc[u] = "emplace" => uarg'[u] = uarg[u]
    BY <1>0, <1>2 DEF CloseCall, SetEvent
  <2>5. (\A i \in Calls : Made(i)' <=> Made(i)) /\ OneMaker'
    BY <1>0, <2>3, <2>4 DEF Made, OneMaker
  <2> QED
    BY <1>0, <2>1, <2>2, <2>5, KeptOwners
(* send(): a call gets its owner, and changes it.                            *)
<1>3. ASSUME NEW a \in Actors, SendRefused(a) PROVE AnswerInv'
  <2>1. OneMaker' /\ started' = started + 1 /\ started + 1 \in Calls
        /\ answered' = [answered EXCEPT ![started + 1] = @ + 1]
        /\ UNCHANGED <<send_queue, sending, upc, uarg>>
    BY <1>0, <1>3 DEF SendRefused, Called, OneMaker
  <2>2. ASSUME NEW i \in Calls PROVE Owners(i)' = Bit(i <= started)'
    <3>1. Owners(i) = Bit(i <= started) /\ Made(i)' = Made(i)
      BY <2>1 DEF AnswerInv, Made
    <3>2. Count(send_queue', Asks(i)) = Count(send_queue, Asks(i)) /\ sending' = sending
      BY <2>1
    <3>3. answered'[i] = IF i = started + 1 THEN answered[i] + 1 ELSE answered[i]
      BY <1>0, <2>1
    <3> QED
      BY <1>0, <2>1, <3>1, <3>2, <3>3, OwnerTypes, SMTT(60) DEF Owners, Bit, Asks
  <2> QED
    BY <2>1, <2>2 DEF AnswerInv
<1>4. CASE SendOnWorker
  <2>1. OneMaker' /\ started' = started + 1 /\ started + 1 \in Calls
        /\ send_queue' = Append(send_queue, Data(started + 1))
        /\ UNCHANGED <<answered, sending, upc, uarg>>
    BY <1>0, <1>4 DEF SendOnWorker, Called, Sends, OneMaker
  <2>2. ASSUME NEW i \in Calls PROVE Owners(i)' = Bit(i <= started)'
    <3>1. Owners(i) = Bit(i <= started) /\ Made(i)' = Made(i)
      BY <2>1 DEF AnswerInv, Made
    <3>2. Count(send_queue', Asks(i)) = Count(send_queue, Asks(i)) + Bit(i = started + 1)
      BY <1>0, <2>1, CountAppend, WhoAsks, ElementTypes DEF Bit
    <3>3. /\ answered[i] \in Nat /\ Count(send_queue, Asks(i)) \in Nat
          /\ Bit(sending \in Asks(i)) \in {0, 1} /\ Bit(Made(i)) \in {0, 1} /\ i \in Nat
      BY <1>0, OwnerTypes
    <3>4. /\ answered'[i] = answered[i] /\ Asks(i)' = Asks(i) /\ Bit(Made(i))' = Bit(Made(i))
          /\ Bit(sending \in Asks(i))' = Bit(sending \in Asks(i))
      BY <2>1, <3>1 DEF Bit, Asks
    <3>5. Owners(i)' = Owners(i) + Bit(i = started + 1)
      BY <3>2, <3>3, <3>4 DEF Owners, Bit
    <3> QED
      BY <1>0, <2>1, <3>1, <3>3, <3>5 DEF Bit
  <2> QED
    BY <2>1, <2>2 DEF AnswerInv
<1>5. ASSUME NEW t \in Threads, SendChecked(t) PROVE AnswerInv'
  <2>1. started' = started + 1 /\ started + 1 \in Calls
        /\ upc' = [upc EXCEPT ![t] = "emplace"] /\ uarg' = [uarg EXCEPT ![t] = started + 1]
        /\ upc[t] = "idle"
        /\ UNCHANGED <<answered, sending, send_queue>>
    BY <1>0, <1>5 DEF SendChecked, Called
  <2>2. ASSUME NEW i \in Calls PROVE Owners(i) = Bit(i <= started)
    BY DEF AnswerInv
  <2>3. ~Made(started + 1)
    <3> DEFINE i == started + 1
    <3>1. Owners(i) = 0
      BY <1>0, <2>1, <2>2 DEF Bit
    <3>2. answered[i] \in Nat /\ Count(send_queue, Asks(i)) \in Nat /\ Bit(sending \in Asks(i)) \in {0, 1}
          /\ Bit(Made(i)) \in {0, 1}
      BY <1>0, <2>1, OwnerTypes
    <3> HIDE DEF i
    <3>3. Bit(Made(i)) = 0
      BY <3>1, <3>2 DEF Owners
    <3>4. ~Made(i)
      BY <3>3 DEF Bit
    <3> QED
      BY <3>4 DEF i
  <2>4. OneMaker'
    BY <1>0, <2>1, <2>3 DEF OneMaker, Made
  <2>5. ASSUME NEW i \in Calls PROVE Owners(i)' = Bit(i <= started)'
    <3>1. Made(i)' <=> Made(i) \/ i = started + 1
      BY <1>0, <2>1 DEF Made
    <3>2. Count(send_queue', Asks(i)) = Count(send_queue, Asks(i)) /\ sending' = sending
          /\ answered'[i] = answered[i]
      BY <2>1
    <3>3. Owners(i)' = Owners(i) + Bit(i = started + 1)
      BY <2>3, <3>1, <3>2, OwnerTypes, <1>0 DEF Owners, Bit, Asks
    <3> QED
      BY <1>0, <2>1, <2>2, <3>3, OwnerTypes DEF Bit
  <2> QED
    BY <2>4, <2>5 DEF AnswerInv
<1>6. ASSUME NEW t \in Threads, SendEmplace(t) PROVE AnswerInv'
  <2>1. upc[t] = "emplace" /\ uarg[t] \in Calls
        /\ upc' = [upc EXCEPT ![t] = "set"]
        /\ send_queue' = Append(send_queue, Data(uarg[t]))
        /\ UNCHANGED <<answered, sending, started, uarg>>
    BY <1>0, <1>6 DEF SendEmplace
  <2>2. OneMaker'
    BY <1>0, <2>1 DEF OneMaker
  <2>3. ASSUME NEW i \in Calls PROVE Owners(i)' = Bit(i <= started)'
    <3>1. Made(i)' <=> Made(i) /\ i # uarg[t]
      BY <1>0, <2>1 DEF Made, OneMaker
    <3>2. i = uarg[t] => Made(i)
      BY <2>1 DEF Made
    <3>3. Count(send_queue', Asks(i)) = Count(send_queue, Asks(i)) + Bit(i = uarg[t])
      BY <1>0, <2>1, CountAppend, WhoAsks, ElementTypes DEF Bit
    <3>4. Owners(i) = Bit(i <= started)
      BY DEF AnswerInv
    <3> QED
      BY <1>0, <2>1, <3>1, <3>2, <3>3, <3>4, OwnerTypes, SMTT(60) DEF Owners, Bit, Asks
  <2> QED
    BY <2>2, <2>3 DEF AnswerInv
(* send_task: a frame is taken out, sent, or called back at the end.         *)
<1>7. CASE S_Pop
  <2>1. send_queue # <<>> /\ sending' = Head(send_queue) /\ send_queue' = Tail(send_queue)
        /\ UNCHANGED <<answered, started, upc, uarg>>
        /\ sending = Idle
    BY <1>0, <1>7 DEF S_Pop, TypeOK
  <2>2. OneMaker'
    BY <1>0, <2>1 DEF OneMaker
  <2>3. ASSUME NEW i \in Calls PROVE Owners(i)' = Bit(i <= started)'
    <3>1. Owners(i) = Bit(i <= started) /\ Made(i)' = Made(i)
      BY <2>1 DEF AnswerInv, Made
    <3>2. Count(send_queue, Asks(i)) = Count(send_queue', Asks(i)) + Bit(sending' \in Asks(i))
      BY <1>0, <2>1, CountTail
    <3>3. Count(send_queue', Asks(i)) \in Nat
      BY <1>0, <2>1, HeadTailProperties, CountType
    <3>4. Bit(sending \in Asks(i)) = 0
      BY <2>1, WhoAsks DEF Bit
    <3> QED
      BY <1>0, <2>1, <3>1, <3>2, <3>3, <3>4, OwnerTypes, SMTT(60) DEF Owners, Bit, Asks
  <2> QED
    BY <2>2, <2>3 DEF AnswerInv
<1>8. CASE S_Sent
  <2>1. CallsBack(<<sending>>) /\ sending' = Idle /\ sending \in Elements
        /\ UNCHANGED <<started, upc, uarg, send_queue>>
    BY <1>0, <1>8 DEF S_Sent, TypeOK
  <2>2. OneMaker'
    BY <1>0, <2>1 DEF OneMaker
  <2>3. ASSUME NEW i \in Calls PROVE Owners(i)' = Bit(i <= started)'
    <3>1. Owners(i) = Bit(i <= started) /\ Made(i)' = Made(i)
      BY <2>1 DEF AnswerInv, Made
    <3>2. <<sending>> \in Seq(Elements) /\ <<>> \in Seq(Elements)
      BY <2>1
    <3>3. Count(<<sending>>, Asks(i)) = Bit(sending \in Asks(i))
      BY <2>1, <3>2, CountFirst
    <3>4. answered'[i] = answered[i] + Bit(sending \in Asks(i))
      BY <1>0, <2>1, <3>2, <3>3, CallsBackOwners
    <3>5. Bit(sending' \in Asks(i)) = 0
      BY <2>1, WhoAsks DEF Bit
    <3> QED
      BY <1>0, <2>1, <3>1, <3>4, <3>5, OwnerTypes, SMTT(60) DEF Owners, Bit, Asks
  <2> QED
    BY <2>2, <2>3 DEF AnswerInv
<1>9. CASE S_Drain
  <2>1. CallsBack(send_queue) /\ send_queue' = <<>> /\ UNCHANGED <<started, upc, uarg, sending>>
    BY <1>9 DEF S_Drain
  <2>2. OneMaker'
    BY <1>0, <2>1 DEF OneMaker
  <2>3. ASSUME NEW i \in Calls PROVE Owners(i)' = Bit(i <= started)'
    <3>1. Owners(i) = Bit(i <= started) /\ Made(i)' = Made(i)
      BY <2>1 DEF AnswerInv, Made
    <3>2. answered'[i] = answered[i] + Count(send_queue, Asks(i))
      BY <1>0, <2>1, CallsBackOwners
    <3>3. Count(send_queue', Asks(i)) = 0
      BY <2>1, CountEmpty
    <3> QED
      BY <1>0, <2>1, <3>1, <3>2, <3>3, OwnerTypes, SMTT(60) DEF Owners, Bit, Asks
  <2> QED
    BY <2>2, <2>3 DEF AnswerInv
(* Everything else is of the first kind.                                     *)
<1>10. ASSUME NEW f \in PeerFrames, Frame(f) PROVE AnswerInv'
  <2>1. UNCHANGED <<answered, sending, started>> /\ UNCHANGED <<upc, uarg>>
    BY <1>10 DEF Frame, Receives, W_Rejects, W_Masked, W_Ping, W_Pong, W_Message, W_FragmentStart,
                 W_FragmentNext, W_FragmentEnd, W_CloseReply, W_CloseFrame
  <2>2. Fails \/ Quiet \/ Sends(Pong) \/ UNCHANGED send_queue
    BY <1>10 DEF Frame, W_Rejects, W_Masked, W_Ping, W_Pong, W_Message, W_FragmentStart,
                 W_FragmentNext, W_FragmentEnd, W_CloseReply, W_CloseFrame
  <2> QED
    BY <1>1, <2>1, <2>2, FailsUnasked DEF Unasked
<1>11. ASSUME EndSteps PROVE AnswerInv'
  <2>1. UNCHANGED <<answered, sending, started>> /\ UNCHANGED <<upc, uarg>>
    BY <1>11 DEF EndSteps, W_Reply, W_Eof, PeerEof, DestroyOnWorker, D_Check, Destructor, D_Close,
                 D_Reply, D_First, D_FirstOpen, D_Exchange, D_Wake, D_Exit, D_ExitWake, Destroying
  <2>2. Fails \/ Unasked
    BY <1>11 DEF EndSteps, W_Reply, W_Eof, PeerEof, DestroyOnWorker, D_Check, Destructor, D_Close,
                 D_Reply, D_First, D_FirstOpen, D_Exchange, D_Wake, D_Exit, D_ExitWake, Unasked
  <2> QED
    BY <1>1, <2>1, <2>2, FailsUnasked
<1>12. ASSUME \/ CloseOnWorker \/ (\E ok \in BOOLEAN : Connect(ok)) \/ HandshakeTask
              \/ S_PopThrows \/ S_Empty \/ S_Wake \/ S_Check \/ S_Disconnect \/ S_Cancelled
       PROVE  AnswerInv'
  <2>1. UNCHANGED <<answered, sending, started>> /\ UNCHANGED <<upc, uarg>>
    BY <1>12 DEF CloseOnWorker, Connect, HandshakeTask, H_Sent, H_Response, H_Refused, H_Disconnected,
                 H_OnOpen, Handshake, H_Open, H_Throws, H_Install, S_PopThrows, S_Empty, S_Wake, S_Check,
                 S_Disconnect, S_Cancelled
  <2>2. Fails \/ UNCHANGED send_queue
    BY <1>12 DEF CloseOnWorker, Connect, HandshakeTask, H_Sent, H_Response, H_Refused, H_Disconnected,
                 H_OnOpen, Handshake, H_Open, H_Throws, H_Install, S_PopThrows, S_Empty, S_Wake, S_Check,
                 S_Disconnect, S_Cancelled
  <2> QED
    BY <1>1, <2>1, <2>2, FailsUnasked DEF Unasked
<1>13. CASE UNCHANGED vars
  BY <1>1, <1>13 DEF vars, Unasked
<1> QED
  BY <1>2, <1>3, <1>4, <1>5, <1>6, <1>7, <1>8, <1>9, <1>10, <1>11, <1>12, <1>13, NextParts
     DEF UserCall, Continue, SendTask

(* send() calls back exactly once, for any number of threads and calls.      *)
THEOREM SendsAreAnsweredOnce == Safe => []OneAnswer
<1>1. Init => AnswerInv
  <2> SUFFICES ASSUME Init PROVE AnswerInv
    OBVIOUS
  <2>1. ASSUME NEW i \in Calls PROVE Owners(i) = Bit(i <= started)
    <3>1. answered[i] = 0 /\ ~Made(i) /\ ~(i <= started) /\ sending = Idle /\ send_queue = <<>>
      BY WebSocketAssumption DEF Init, Made, Calls
    <3>2. Count(send_queue, Asks(i)) = 0 /\ sending \notin Asks(i)
      BY <3>1, CountEmpty, WhoAsks
    <3> QED
      BY <3>1, <3>2 DEF Owners, Bit
  <2> QED
    BY <2>1 DEF AnswerInv, OneMaker, Init
<1>2. TypeInv /\ AnswerInv => OneAnswer
  <2> SUFFICES ASSUME TypeInv, AnswerInv, NEW i \in 1..started
               PROVE  answered[i] + Cardinality({k \in DOMAIN Outgoing : Outgoing[k].cb = i})
                        + Cardinality({t \in Threads : upc[t] = "emplace" /\ uarg[t] = i}) = 1
    BY DEF OneAnswer
  <2>0. TypeOK /\ i \in Calls /\ i <= started
    BY WebSocketAssumption DEF TypeInv, TypeOK, Calls
  <2>1. send_queue \in Seq(Elements \cup {Idle}) /\ sending \in Elements \cup {Idle}
    BY <2>0, SeqMonotonic DEF TypeOK
  <2>2. Cardinality({k \in DOMAIN Outgoing : Outgoing[k].cb = i})
          = Count(send_queue, Asks(i)) + Bit(sending \in Asks(i))
    <3>1. Outgoing \in Seq(Elements \cup {Idle})
          /\ Count(Outgoing, Asks(i)) = Count(send_queue, Asks(i)) + Bit(sending \in Asks(i))
      BY <2>1, CountFirst DEF Outgoing
    <3> QED
      BY <3>1, AnswersAreCounted
  <2>3. Cardinality({t \in Threads : upc[t] = "emplace" /\ uarg[t] = i}) = Bit(Made(i))
    <3>1. CASE Made(i)
      <4>1. PICK t \in Threads : upc[t] = "emplace" /\ uarg[t] = i
        BY <3>1 DEF Made
      <4>2. {u \in Threads : upc[u] = "emplace" /\ uarg[u] = i} = {t}
        BY <4>1 DEF AnswerInv, OneMaker
      <4> QED
        BY <3>1, <4>2, FS_Singleton DEF Bit
    <3>2. CASE ~Made(i)
      <4>1. {u \in Threads : upc[u] = "emplace" /\ uarg[u] = i} = {}
        BY <3>2 DEF Made
      <4> QED
        BY <3>2, <4>1, FS_EmptySet DEF Bit
    <3> QED
      BY <3>1, <3>2
  <2>4. Owners(i) = 1
    BY <2>0 DEF AnswerInv, Bit
  <2> QED
    BY <2>0, <2>2, <2>3, <2>4, OwnerTypes DEF Owners
<1> QED
  BY <1>1, <1>2, AnswerStep, AlwaysTyped, PTL DEF Safe

-------------------------------------------------------------------------------
(* A close is reported once if nobody destroys the websocket.  server_close  *)
(* is left by the reply to the server before anything else looks at it, and  *)
(* nothing is closed before on_open(0).                                      *)
Reporting == {e \in Elements \cup {Idle} : e.reports}

Undisturbed ==
  /\ dpc = "alive" /\ ~send_should_exit
  /\ spc \notin {"drain", "disconnect", "cancel", "exited"}
  /\ hpc \notin {"dummy", "done"} => con_state \in {"init", "handshake"} /\ ~handler
  /\ wpc = "free" => con_state # "server_close"
  /\ wpc = "replying" => con_state = "server_close"

Reported == reports + Count(send_queue, Reporting) + Bit(sending \in Reporting)

ReportInv == Undisturbed /\ Reported = Bit(con_state = "closed")

LEMMA WhoReports ==
  /\ Close(TRUE) \in Reporting /\ Close(FALSE) \notin Reporting
  /\ Pong \notin Reporting /\ Idle \notin Reporting
  /\ \A i \in Calls : Data(i) \notin Reporting
<1>1. Close(TRUE) \in Elements /\ Close(TRUE).reports
  BY ElementTypes DEF Close
<1> QED
  BY <1>1 DEF Reporting, Data, Pong, Close, Idle

LEMMA ReportsAreCounted ==
  ASSUME NEW s \in Seq(Elements \cup {Idle})
  PROVE  Cardinality({k \in DOMAIN s : s[k].reports}) = Count(s, Reporting)
<1>1. \A k \in DOMAIN s : s[k] \in Elements \cup {Idle}
  BY LenProperties, ElementOfSeq
<1>2. {k \in DOMAIN s : s[k].reports} = Places(s, Reporting)
  BY <1>1 DEF Places, Reporting
<1> QED
  BY <1>2 DEF Count

LEMMA ReportTypes ==
  ASSUME TypeOK
  PROVE  /\ reports \in Nat /\ Count(send_queue, Reporting) \in Nat
         /\ Bit(sending \in Reporting) \in {0, 1}
  BY CountType DEF TypeOK, Bit

(* Steps that report nothing: a frame that does not report may be queued.    *)
Unreported ==
  /\ UNCHANGED <<reports, sending>>
  /\ \/ UNCHANGED send_queue
     \/ \E e \in Elements \ Reporting : send_queue' = Append(send_queue, e)

LEMMA KeptReports ==
  ASSUME TypeOK, Unreported
  PROVE  Reported' = Reported
<1>1. send_queue \in Seq(Elements)
  BY DEF TypeOK
<1>2. ASSUME NEW e \in Elements \ Reporting
      PROVE  Count(Append(send_queue, e), Reporting) = Count(send_queue, Reporting)
  BY <1>1, CountAppend, ReportTypes DEF Bit
<1>3. Count(send_queue', Reporting) = Count(send_queue, Reporting)
  <2>1. CASE UNCHANGED send_queue
    BY <2>1
  <2>2. CASE \E e \in Elements \ Reporting : send_queue' = Append(send_queue, e)
    <3>1. PICK e \in Elements \ Reporting : send_queue' = Append(send_queue, e)
      BY <2>2
    <3> QED
      BY <1>2, <3>1
  <2> QED
    BY <2>1, <2>2 DEF Unreported
<1>4. Reporting' = Reporting /\ reports' = reports /\ sending' = sending
  BY DEF Unreported, Reporting
<1> QED
  BY <1>3, <1>4 DEF Reported

(* close() when the server has not closed.                                   *)
LEMMA FailsReports ==
  ASSUME TypeOK, con_state # "server_close", Fails, UNCHANGED <<reports, sending>>
  PROVE  /\ Unreported
         /\ con_state' = "closed" <=> con_state = "closed"
         /\ con_state' # "server_close"
         /\ con_state \in {"init", "handshake"} => con_state' = con_state
<1>1. CASE AlreadyClosing /\ UNCHANGED <<con_state, send_queue, send_event>>
  BY <1>1 DEF Unreported
<1>2. ASSUME NEW r \in BOOLEAN, ClosesWith(Close(r)), Sends(Close(r))
      PROVE  /\ Unreported
             /\ con_state' = "closed" <=> con_state = "closed"
             /\ con_state' # "server_close"
             /\ con_state \in {"init", "handshake"} => con_state' = con_state
  <2>1. Close(r) = Close(FALSE) /\ FirstClose /\ con_state \notin {"closed", "client_close"}
    BY <1>2 DEF ClosesWith
  <2>2. Close(FALSE) \in Elements \ Reporting
    BY ElementTypes, WhoReports
  <2> QED
    BY <1>2, <2>1, <2>2 DEF Sends, FirstClose, Unreported
<1> QED
  BY <1>1, <1>2 DEF Fails

LEMMA ReportStep ==
  ASSUME Destroyers = {}, TypeInv, ReportInv, [Next]_vars
  PROVE  ReportInv'
<1> USE DEF tasks, transmit, tcp, parser, users, inbound
<1>0. TypeOK /\ TypeStates /\ TypeQueue /\ Undisturbed /\ Reported = Bit(con_state = "closed")
  BY TypeParts DEF TypeInv, ReportInv
(* Steps that change neither what is reported nor whether it is closed.      *)
<1>1. ASSUME Unreported, con_state' = "closed" <=> con_state = "closed", Undisturbed'
      PROVE  ReportInv'
  BY <1>0, <1>1, KeptReports DEF ReportInv, Bit
<1>2. ASSUME Unreported, UNCHANGED <<con_state, hpc, wpc, handler, send_should_exit, dpc>>,
             spc' \in {spc, "pop", "waiting", "check", "sending"}
      PROVE  ReportInv'
  <2>1. Undisturbed'
    BY <1>0, <1>2 DEF Undisturbed
  <2> QED
    BY <1>1, <1>2, <2>1
<1>3. ASSUME wpc = "free", Fails, UNCHANGED <<hpc, spc, wpc, handler, send_should_exit, dpc, reports, sending>>
      PROVE  ReportInv'
  <2>1. con_state # "server_close"
    BY <1>0, <1>3 DEF Undisturbed
  <2>2. /\ Unreported
        /\ con_state' = "closed" <=> con_state = "closed"
        /\ con_state' # "server_close"
        /\ con_state \in {"init", "handshake"} => con_state' = con_state
    BY <1>0, <1>3, <2>1, FailsReports
  <2>3. Undisturbed'
    BY <1>0, <1>3, <2>2 DEF Undisturbed
  <2> QED
    BY <1>1, <2>2, <2>3
(* Users.                                                                    *)
<1>4. ASSUME NEW a \in Actors, SendRefused(a) PROVE ReportInv'
  BY <1>2, <1>4 DEF SendRefused, Unreported
<1>5. ASSUME SendOnWorker PROVE ReportInv'
  <2>1. started + 1 \in Calls
    BY <1>0, <1>5, WebSocketAssumption DEF SendOnWorker, Called, TypeOK, Calls
  <2>2. Data(started + 1) \in Elements \ Reporting
    BY <2>1, ElementTypes, WhoReports
  <2> QED
    BY <1>2, <1>5, <2>2 DEF SendOnWorker, Sends, Unreported
<1>6. ASSUME NEW t \in Threads, SendChecked(t) \/ SetEvent(t) PROVE ReportInv'
  BY <1>2, <1>6 DEF SendChecked, SetEvent, Unreported
<1>7. ASSUME NEW t \in Threads, SendEmplace(t) PROVE ReportInv'
  <2>1. Data(uarg[t]) \in Elements \ Reporting
    BY <1>7, ElementTypes, WhoReports DEF SendEmplace, TypeInv
  <2> QED
    BY <1>2, <1>7, <2>1 DEF SendEmplace, Unreported
<1>8. ASSUME CloseOnWorker PROVE ReportInv'
  BY <1>3, <1>8 DEF CloseOnWorker, Free
<1>9. ASSUME NEW t \in Threads, CloseCall(t) PROVE ReportInv'
  <2>1. PICK r \in BOOLEAN : ClosesWith(Close(r)) /\ send_queue' = Append(send_queue, Close(r))
    BY <1>9 DEF CloseCall
  <2>2. /\ wpc = "free" /\ con_state # "server_close"
        /\ UNCHANGED <<hpc, spc, wpc, handler, send_should_exit, dpc, reports, sending>>
    BY <1>0, <1>9 DEF CloseCall, Free, Undisturbed
  <2>3. Close(r) = Close(FALSE) /\ FirstClose /\ con_state \notin {"closed", "client_close"}
    BY <2>1, <2>2 DEF ClosesWith
  <2>4. Unreported
    BY <2>1, <2>2, <2>3, ElementTypes, WhoReports DEF Unreported
  <2>5. Undisturbed' /\ (con_state' = "closed" <=> con_state = "closed")
    BY <1>0, <2>2, <2>3 DEF FirstClose, Undisturbed
  <2> QED
    BY <1>1, <2>4, <2>5
<1>10. ASSUME NEW ok \in BOOLEAN, Connect(ok) PROVE ReportInv'
  <2>1. /\ Unreported /\ con_state = "init" /\ con_state' = "handshake"
        /\ spc = "none" /\ hpc = "none" /\ ~handler /\ ~handler' /\ wpc' = "free"
    BY <1>0, <1>10 DEF Connect, Free, Unreported, TypeStates
  <2>2. hpc' \in {"request", "failed"} /\ spc' \in {"none", "check"} /\ ~send_should_exit' /\ dpc' = dpc
    BY <1>0, <1>10, <2>1 DEF Connect, Undisturbed
  <2>3. Undisturbed'
    BY <1>0, <2>1, <2>2 DEF Undisturbed
  <2> QED
    BY <1>1, <2>1, <2>3
(* The tasks.                                                                *)
<1>11. ASSUME HandshakeTask PROVE ReportInv'
  <2>1. /\ Unreported /\ wpc = "free"
        /\ UNCHANGED <<spc, send_should_exit, dpc>>
    BY <1>11 DEF HandshakeTask, H_Sent, H_Response, H_Refused, H_Disconnected, H_OnOpen, Handshake,
                 H_Open, H_Throws, H_Install, Free, Unreported
  <2>2. CASE H_Open
    <3>1. con_state \in {"init", "handshake"} /\ ~handler /\ con_state' = "open" /\ hpc' = "dummy"
          /\ UNCHANGED <<wpc, handler>>
      BY <1>0, <2>2 DEF H_Open, Undisturbed
    <3>2. Undisturbed'
      BY <1>0, <2>1, <3>1 DEF Undisturbed
    <3> QED
      BY <1>1, <2>1, <3>1, <3>2
  <2>3. CASE H_Throws
    <3>1. wpc' = "terminated" /\ UNCHANGED <<con_state, hpc, handler>>
      BY <2>3 DEF H_Throws
    <3>2. Undisturbed'
      BY <1>0, <2>1, <3>1 DEF Undisturbed
    <3> QED
      BY <1>1, <2>1, <3>1, <3>2
  <2>4. CASE H_Install
    <3>1. hpc' = "done" /\ UNCHANGED <<con_state, wpc>>
      BY <2>4 DEF H_Install
    <3>2. Undisturbed'
      BY <1>0, <2>1, <3>1 DEF Undisturbed
    <3> QED
      BY <1>1, <2>1, <3>1, <3>2
  <2>5. CASE H_Sent \/ H_Response \/ H_Refused \/ H_Disconnected \/ H_OnOpen
    <3>1. hpc \notin {"dummy", "done"} /\ UNCHANGED <<con_state, wpc, handler>>
      BY <2>5 DEF H_Sent, H_Response, H_Refused, H_Disconnected, H_OnOpen, Handshake
    <3>2. Undisturbed'
      BY <1>0, <2>1, <3>1 DEF Undisturbed
    <3> QED
      BY <1>1, <2>1, <3>1, <3>2
  <2> QED
    BY <1>11, <2>2, <2>3, <2>4, <2>5 DEF HandshakeTask
<1>12. ASSUME S_Pop PROVE ReportInv'
  <2>1. /\ send_queue # <<>> /\ sending' = Head(send_queue) /\ send_queue' = Tail(send_queue)
        /\ UNCHANGED <<reports, con_state, hpc, wpc, handler, send_should_exit, dpc>>
        /\ spc' = "sending" /\ sending = Idle /\ send_queue \in Seq(Elements)
    BY <1>0, <1>12 DEF S_Pop, TypeQueue
  <2>2. Count(send_queue, Reporting) = Count(send_queue', Reporting) + Bit(sending' \in Reporting)
        /\ Count(send_queue', Reporting) \in Nat
    BY <2>1, CountTail, CountType
  <2>3. Bit(sending \in Reporting) = 0 /\ Reporting' = Reporting
    BY <2>1, WhoReports DEF Bit, Reporting
  <2>4. Reported' = Reported
    <3>1. Bit(sending' \in Reporting) \in {0, 1} /\ reports' = reports /\ reports \in Nat
      BY <1>0, <2>1, ReportTypes DEF Bit
    <3> QED
      BY <2>2, <2>3, <3>1 DEF Reported
  <2>5. Undisturbed'
    BY <1>0, <2>1 DEF Undisturbed
  <2> QED
    BY <1>0, <2>1, <2>4, <2>5 DEF ReportInv, Bit
<1>13. ASSUME S_Sent PROVE ReportInv'
  <2>1. /\ CallsBack(<<sending>>) /\ sending' = Idle /\ sending \in Elements
        /\ UNCHANGED <<send_queue, con_state, hpc, wpc, handler, send_should_exit, dpc>> /\ spc' = "pop"
    BY <1>0, <1>13 DEF S_Sent, TypeQueue
  <2>2. <<sending>> \in Seq(Elements \cup {Idle}) /\ <<>> \in Seq(Elements)
    BY <2>1
  <2>3. Count(<<sending>>, Reporting) = Bit(sending \in Reporting)
    BY <2>1, <2>2, CountFirst
  <2>4. reports' = reports + Bit(sending \in Reporting)
    BY <2>1, <2>2, <2>3, ReportsAreCounted DEF CallsBack
  <2>5. Bit(sending' \in Reporting) = 0 /\ Reporting' = Reporting
    BY <2>1, WhoReports DEF Bit, Reporting
  <2>6. Reported' = Reported
    <3>1. Count(send_queue', Reporting) = Count(send_queue, Reporting)
      BY <2>1
    <3> QED
      BY <1>0, <2>4, <2>5, <3>1, ReportTypes DEF Reported
  <2>7. Undisturbed'
    BY <1>0, <2>1 DEF Undisturbed
  <2> QED
    BY <1>0, <2>1, <2>6, <2>7 DEF ReportInv, Bit
<1>14. ASSUME S_PopThrows PROVE ReportInv'
  <2>1. Unreported /\ UNCHANGED <<con_state, hpc, spc, handler, send_should_exit, dpc>> /\ wpc' = "terminated"
    BY <1>14 DEF S_PopThrows, Unreported
  <2>2. Undisturbed'
    BY <1>0, <2>1 DEF Undisturbed
  <2> QED
    BY <1>1, <2>1, <2>2
<1>15. ASSUME S_Empty \/ S_Wake \/ S_Check PROVE ReportInv'
  <2>1. /\ Unreported /\ UNCHANGED <<con_state, hpc, wpc, handler, send_should_exit, dpc>>
        /\ spc' \in {"pop", "waiting", "check"}
    BY <1>0, <1>15 DEF S_Empty, S_Wake, S_Check, Unreported, Undisturbed
  <2> QED
    BY <1>2, <2>1
<1>16. ~S_Drain /\ ~S_Disconnect /\ ~S_Cancelled
  BY <1>0 DEF S_Drain, S_Disconnect, S_Cancelled, Undisturbed
(* The worker's frames, and the end of the connection.                       *)
<1>17. ASSUME NEW f \in PeerFrames, Frame(f) PROVE ReportInv'
  <2>1. /\ UNCHANGED <<hpc, spc, handler, send_should_exit, dpc, sending>>
        /\ wpc = "free" /\ con_state \notin {"closed", "server_close"}
        /\ hpc \in {"dummy", "done"}
    <3>1. Receives(f)
      BY <1>17 DEF Frame, W_Rejects, W_Masked, W_Ping, W_Pong, W_Message, W_FragmentStart,
                   W_FragmentNext, W_FragmentEnd, W_CloseReply, W_CloseFrame
    <3>2. /\ UNCHANGED <<hpc, spc, handler, send_should_exit, dpc, sending>>
          /\ wpc = "free" /\ con_state \notin {"closed", "server_close"}
          /\ hpc = "dummy" \/ handler
      BY <3>1 DEF Receives, Free
    <3>3. handler => hpc \in {"dummy", "done"}
      BY <1>0 DEF Undisturbed
    <3> QED
      BY <3>2, <3>3
  <2>2. \/ W_CloseReply(f) \/ W_CloseFrame(f)
        \/ Fails /\ UNCHANGED <<wpc, reports>>
        \/ Quiet /\ UNCHANGED <<wpc, reports>>
        \/ Sends(Pong) /\ UNCHANGED <<con_state, wpc, reports>>
    <3>1. W_Ping(f) => Quiet \/ (Sends(Pong) /\ UNCHANGED con_state)
      BY DEF W_Ping, Quiet
    <3>2. W_FragmentStart(f) \/ W_FragmentNext(f) \/ W_FragmentEnd(f) => Fails \/ Quiet
      BY DEF W_FragmentStart, W_FragmentNext, W_FragmentEnd
    <3>3. W_Rejects(f) \/ W_Masked(f) \/ W_Pong(f) \/ W_Message(f) => Fails \/ Quiet
      BY DEF W_Rejects, W_Masked, W_Pong, W_Message
    <3>4. W_CloseReply(f) \/ W_CloseFrame(f) \/ UNCHANGED <<wpc, reports>>
      BY <1>17 DEF Frame, W_Rejects, W_Masked, W_Ping, W_Pong, W_Message, W_FragmentStart,
                   W_FragmentNext, W_FragmentEnd, NoMessage
    <3> QED
      BY <1>17, <3>1, <3>2, <3>3, <3>4 DEF Frame
  <2>3. CASE W_CloseReply(f)
    <3>1. /\ reports' = reports + 1 /\ con_state' = "closed" /\ UNCHANGED <<send_queue, wpc>>
      BY <2>3 DEF W_CloseReply
    <3>2. Reported' = Reported + 1
      BY <1>0, <2>1, <3>1, ReportTypes DEF Reported, Reporting, Bit
    <3>3. Undisturbed'
      BY <1>0, <2>1, <3>1 DEF Undisturbed
    <3> QED
      BY <1>0, <2>1, <3>1, <3>2, <3>3 DEF ReportInv, Bit
  <2>4. CASE W_CloseFrame(f)
    <3>1. con_state' = "server_close" /\ wpc' = "replying" /\ UNCHANGED <<send_queue, reports>>
      BY <2>4 DEF W_CloseFrame
    <3>2. Undisturbed'
      BY <1>0, <2>1, <3>1 DEF Undisturbed
    <3> QED
      BY <1>1, <2>1, <3>1, <3>2 DEF Unreported
  <2>5. CASE Fails /\ UNCHANGED <<wpc, reports>>
    BY <1>3, <2>1, <2>5
  <2>6. CASE Quiet /\ UNCHANGED <<wpc, reports>>
    BY <1>2, <2>1, <2>6 DEF Quiet, Unreported
  <2>7. CASE Sends(Pong) /\ UNCHANGED <<con_state, wpc, reports>>
    <3>1. Pong \in Elements \ Reporting
      BY ElementTypes, WhoReports
    <3> QED
      BY <1>2, <2>1, <2>7, <3>1 DEF Sends, Unreported
  <2> QED
    BY <2>2, <2>3, <2>4, <2>5, <2>6, <2>7
<1>18. ASSUME W_Reply PROVE ReportInv'
  <2>1. /\ con_state = "server_close" /\ wpc' = "free" /\ Fails
        /\ UNCHANGED <<hpc, spc, handler, send_should_exit, dpc, sending, reports>>
    BY <1>0, <1>18 DEF W_Reply, Undisturbed
  <2>2. send_queue' = Append(send_queue, Close(TRUE)) /\ con_state' = "closed"
    <3>1. PICK r \in BOOLEAN : ClosesWith(Close(r)) /\ Sends(Close(r))
      BY <2>1 DEF Fails, AlreadyClosing
    <3>2. Close(r) = Close(TRUE) /\ con_state' = "closed"
      BY <2>1, <3>1 DEF ClosesWith
    <3> QED
      BY <3>1, <3>2 DEF Sends
  <2>3. Count(send_queue', Reporting) = Count(send_queue, Reporting) + 1
    <3> DEFINE e == Close(TRUE)
    <3>1. send_queue \in Seq(Elements) /\ e \in Elements /\ e \in Reporting
      BY <1>0, ElementTypes, WhoReports DEF TypeQueue
    <3>2. send_queue' = Append(send_queue, e)
      BY <2>2
    <3> HIDE DEF e
    <3>3. Count(Append(send_queue, e), Reporting) = Count(send_queue, Reporting) + Bit(e \in Reporting)
      BY <3>1, CountAppend
    <3> QED
      BY <3>1, <3>2, <3>3 DEF Bit
  <2>4. Reported' = Reported + 1
    <3>1. Reporting' = Reporting /\ reports' = reports
          /\ Bit(sending' \in Reporting) = Bit(sending \in Reporting)
      BY <2>1 DEF Reporting
    <3>2. /\ reports \in Nat /\ Count(send_queue, Reporting) \in Nat
          /\ Bit(sending \in Reporting) \in {0, 1}
      BY <1>0, ReportTypes
    <3> QED
      BY <2>3, <3>1, <3>2 DEF Reported
  <2>5. Undisturbed'
    <3>1. hpc \in {"dummy", "done"}
      BY <1>0, <2>1 DEF Undisturbed
    <3> QED
      BY <1>0, <2>1, <2>2, <3>1 DEF Undisturbed
  <2> QED
    BY <1>0, <2>1, <2>2, <2>4, <2>5 DEF ReportInv, Bit
<1>19. ASSUME W_Eof PROVE ReportInv'
  <2>1. /\ wpc = "free" /\ wpc' = "free" /\ con_state # "server_close" /\ hpc \in {"dummy", "done"}
        /\ con_state' = "closed" /\ ~handler'
        /\ reports' = IF con_state = "closed" THEN reports ELSE reports + 1
        /\ UNCHANGED <<hpc, spc, send_should_exit, dpc, send_queue, sending>>
    BY <1>0, <1>19 DEF W_Eof, Lost, Free, Undisturbed
  <2>2. Reported' = IF con_state = "closed" THEN Reported ELSE Reported + 1
    BY <1>0, <2>1, ReportTypes DEF Reported, Reporting, Bit
  <2>3. Undisturbed'
    BY <1>0, <2>1 DEF Undisturbed
  <2> QED
    BY <1>0, <2>1, <2>2, <2>3 DEF ReportInv, Bit
<1>20. ASSUME PeerEof PROVE ReportInv'
  BY <1>2, <1>20 DEF PeerEof, Unreported
<1>21. ~DestroyOnWorker /\ ~D_Check /\ ~Destructor
  BY <1>0 DEF DestroyOnWorker, D_Check, Destructor, D_Close, D_Reply, D_First, D_FirstOpen, D_Exchange, D_Wake, D_Exit,
              D_ExitWake, Destroying, Undisturbed
<1>22. ASSUME UNCHANGED vars PROVE ReportInv'
  BY <1>2, <1>22 DEF vars, Unreported
<1> QED
  BY <1>4, <1>5, <1>6, <1>7, <1>8, <1>9, <1>10, <1>11, <1>12, <1>13, <1>14, <1>15, <1>16, <1>17, <1>18,
     <1>19, <1>20, <1>21, <1>22, NextParts
     DEF UserCall, Continue, SendTask, EndSteps

(* on_close is called exactly once for a connection that was closed, and for *)
(* no other, whoever calls close(), however often, and whatever the server   *)
(* sends, as long as nobody destroys the websocket.                          *)
THEOREM CloseIsReportedOnce ==
  ASSUME Destroyers = {}
  PROVE  Safe => []CloseReportedOnce
<1>1. Init => ReportInv
  <2> SUFFICES ASSUME Init PROVE ReportInv
    OBVIOUS
  <2>1. Count(send_queue, Reporting) = 0 /\ Bit(sending \in Reporting) = 0
    BY CountEmpty, WhoReports DEF Init, Bit
  <2>2. reports = 0 /\ con_state = "init"
    BY DEF Init
  <2>3. Undisturbed
    BY DEF Init, Undisturbed
  <2> QED
    BY <2>1, <2>2, <2>3 DEF ReportInv, Reported, Bit
<1>2. TypeInv /\ ReportInv => CloseReportedOnce
  <2> SUFFICES ASSUME TypeInv, ReportInv PROVE CloseReportedOnce
    OBVIOUS
  <2>0. TypeOK
    BY DEF TypeInv
  <2>1. send_queue \in Seq(Elements \cup {Idle}) /\ sending \in Elements \cup {Idle}
    BY <2>0, SeqMonotonic DEF TypeOK
  <2>2. Outgoing \in Seq(Elements \cup {Idle})
        /\ Count(Outgoing, Reporting) = Count(send_queue, Reporting) + Bit(sending \in Reporting)
    BY <2>1, CountFirst DEF Outgoing
  <2>3. Cardinality({k \in DOMAIN Outgoing : Outgoing[k].reports})
          = Count(send_queue, Reporting) + Bit(sending \in Reporting)
    BY <2>2, ReportsAreCounted
  <2> QED
    BY <2>0, <2>3, ReportTypes DEF CloseReportedOnce, ReportInv, Reported, Bit
<1>3. TypeInv /\ ReportInv /\ [Next]_vars => ReportInv'
  BY ReportStep
<1> QED
  BY <1>1, <1>2, <1>3, AlwaysTyped, PTL DEF Safe

-------------------------------------------------------------------------------
(* on_message gets whole messages.  While fragments are collected they are   *)
(* the first frame and every continuation since, none of them the last; what *)
(* was delivered stays true of the frames that were received.                *)
Collects(p, rec) ==
  /\ Len(p) > 0
  /\ \A k \in 1..Len(p) : p[k] \in 1..Len(rec)
  /\ {p[k] : k \in 2..Len(p)} = {k \in p[1] + 1..Len(rec) : rec[k].kind = "cont"}
  /\ \A k \in 1..Len(p) - 1 : ~rec[p[k]].fin /\ p[k] < p[k + 1]

FragmentInv ==
  InFragment => /\ Collects(fragment_payload, received)
                /\ received[fragment_payload[1]].kind = fragment_code
                /\ ~received[fragment_payload[Len(fragment_payload)]].fin

IsMessage(msg, rec) ==
  LET parts == msg.parts
      first == parts[1]
      last  == parts[Len(parts)] IN
  /\ Len(parts) > 0
  /\ \A k \in 1..Len(parts) : parts[k] \in 1..Len(rec)
  /\ rec[first].kind = msg.kind
  /\ rec[last].fin
  /\ {parts[k] : k \in 2..Len(parts)} = {k \in first + 1..last : rec[k].kind = "cont"}
  /\ \A k \in 1..Len(parts) - 1 : ~rec[parts[k]].fin /\ parts[k] < parts[k + 1]

MessageInv == FragmentInv /\ \A m \in DOMAIN delivered : IsMessage(delivered[m], received)

Messages == [kind : {"text", "binary"}, parts : Seq(1..MaxFrames)]

LEMMA Grown ==
  ASSUME TypeInv, NEW f \in PeerFrames, Receives(f)
  PROVE  /\ Len(received) \in Nat /\ This = Len(received) + 1
         /\ Len(received') = This /\ received'[This] = f
         /\ \A k \in 1..Len(received) : received'[k] = received[k]
<1>1. received \in Seq(PeerFrames) /\ received' = Append(received, f)
  BY DEF TypeInv, TypeOK, Receives
<1> QED
  BY <1>1, AppendProperties, LenProperties DEF This

(* A message that was delivered is not affected by a later frame.            *)
LEMMA MessageKept ==
  ASSUME TypeInv, NEW f \in PeerFrames, Receives(f), NEW msg \in Messages, IsMessage(msg, received)
  PROVE  IsMessage(msg, received')
<1> DEFINE parts == msg.parts
           n == Len(parts)
<1>1. /\ Len(received) \in Nat /\ Len(received') = Len(received) + 1
      /\ \A k \in 1..Len(received) : received'[k] = received[k]
  BY Grown
<1>2. parts \in Seq(1..MaxFrames) /\ n \in Nat
  BY LenProperties DEF Messages
<1>3. /\ n > 0
      /\ \A k \in 1..n : parts[k] \in 1..Len(received)
      /\ received[parts[1]].kind = msg.kind
      /\ received[parts[n]].fin
      /\ {parts[k] : k \in 2..n} = {k \in parts[1] + 1..parts[n] : received[k].kind = "cont"}
      /\ \A k \in 1..n - 1 : ~received[parts[k]].fin /\ parts[k] < parts[k + 1]
  BY DEF IsMessage
<1> HIDE DEF n, parts
<1>4. parts[1] \in 1..Len(received) /\ parts[n] \in 1..Len(received)
  BY <1>2, <1>3
<1>5. \A k \in parts[1] + 1..parts[n] : k \in 1..Len(received) /\ received'[k] = received[k]
  BY <1>1, <1>4
<1>6. {k \in parts[1] + 1..parts[n] : received'[k].kind = "cont"}
        = {k \in parts[1] + 1..parts[n] : received[k].kind = "cont"}
  BY <1>5
<1>7. \A k \in 1..n - 1 : ~received'[parts[k]].fin /\ parts[k] < parts[k + 1]
  <2> TAKE k \in 1..n - 1
  <2>1. k \in 1..n /\ parts[k] \in 1..Len(received) /\ received'[parts[k]] = received[parts[k]]
    <3>1. k \in 1..n
      BY <1>2
    <3>2. parts[k] \in 1..Len(received)
      BY <1>3, <3>1
    <3> QED
      BY <1>1, <3>1, <3>2
  <2> QED
    BY <1>3, <2>1
<1>8. /\ \A k \in 1..n : parts[k] \in 1..Len(received')
      /\ received'[parts[1]].kind = msg.kind
      /\ received'[parts[n]].fin
  BY <1>1, <1>3, <1>4
<1> QED
  BY <1>3, <1>6, <1>7, <1>8 DEF IsMessage, n, parts

(* A frame that is no continuation, while fragments are collected.           *)
LEMMA FragmentsKept ==
  ASSUME TypeInv, FragmentInv, NEW f \in PeerFrames, Receives(f), InFragment => f.kind # "cont",
         UNCHANGED <<fragment_code, fragment_payload>>
  PROVE  FragmentInv'
<1> DEFINE p == fragment_payload
           n == Len(p)
<1> SUFFICES ASSUME InFragment
             PROVE  /\ Collects(p, received')
                    /\ received'[p[1]].kind = fragment_code /\ ~received'[p[n]].fin
  BY DEF FragmentInv, InFragment
<1>1. /\ Len(received) \in Nat /\ Len(received') = Len(received) + 1
      /\ received'[Len(received) + 1] = f /\ f.kind # "cont"
      /\ \A k \in 1..Len(received) : received'[k] = received[k]
  BY Grown
<1>2. p \in Seq(1..MaxFrames) /\ n \in Nat
  BY LenProperties DEF TypeInv, TypeOK
<1>3. /\ n > 0
      /\ \A k \in 1..n : p[k] \in 1..Len(received)
      /\ {p[k] : k \in 2..n} = {k \in p[1] + 1..Len(received) : received[k].kind = "cont"}
      /\ \A k \in 1..n - 1 : ~received[p[k]].fin /\ p[k] < p[k + 1]
      /\ received[p[1]].kind = fragment_code /\ ~received[p[n]].fin
  BY DEF FragmentInv, Collects
<1> HIDE DEF n, p
<1>4. p[1] \in 1..Len(received) /\ p[n] \in 1..Len(received)
  BY <1>2, <1>3
<1>5. {k \in p[1] + 1..Len(received') : received'[k].kind = "cont"}
        = {k \in p[1] + 1..Len(received) : received[k].kind = "cont"}
  BY <1>1, <1>4
<1>6. \A k \in 1..n - 1 : ~received'[p[k]].fin /\ p[k] < p[k + 1]
  <2> TAKE k \in 1..n - 1
  <2>1. k \in 1..n /\ p[k] \in 1..Len(received) /\ received'[p[k]] = received[p[k]]
    <3>1. k \in 1..n
      BY <1>2
    <3>2. p[k] \in 1..Len(received)
      BY <1>3, <3>1
    <3> QED
      BY <1>1, <3>1, <3>2
  <2> QED
    BY <1>3, <2>1
<1>7. /\ \A k \in 1..n : p[k] \in 1..Len(received')
      /\ received'[p[1]].kind = fragment_code /\ ~received'[p[n]].fin
  BY <1>1, <1>3, <1>4
<1> QED
  BY <1>3, <1>5, <1>6, <1>7 DEF Collects, n, p

(* A continuation is appended to the fragments.                              *)
LEMMA FragmentAdded ==
  ASSUME TypeInv, FragmentInv, InFragment, NEW f \in PeerFrames, Receives(f), f.kind = "cont"
  PROVE  LET q == Append(fragment_payload, This) IN
           /\ q \in Seq(1..MaxFrames)
           /\ Collects(q, received')
           /\ received'[q[1]].kind = fragment_code
           /\ q[Len(q)] = This /\ received'[This] = f
<1> DEFINE p == fragment_payload
           n == Len(p)
           q == Append(p, This)
<1>1. /\ Len(received) \in Nat /\ Len(received') = Len(received) + 1
      /\ This = Len(received) + 1 /\ received'[This] = f
      /\ \A k \in 1..Len(received) : received'[k] = received[k]
  BY Grown
<1>2. /\ p \in Seq(1..MaxFrames) /\ n \in Nat /\ q \in Seq(1..MaxFrames)
      /\ Len(q) = n + 1 /\ q[n + 1] = This /\ \A k \in 1..n : q[k] = p[k]
  <2>1. p \in Seq(1..MaxFrames) /\ This \in 1..MaxFrames
    BY ReceivedTypes DEF TypeInv, TypeOK
  <2> QED
    BY <2>1, AppendProperties, LenProperties
<1>3. /\ n > 0
      /\ \A k \in 1..n : p[k] \in 1..Len(received)
      /\ {p[k] : k \in 2..n} = {k \in p[1] + 1..Len(received) : received[k].kind = "cont"}
      /\ \A k \in 1..n - 1 : ~received[p[k]].fin /\ p[k] < p[k + 1]
      /\ received[p[1]].kind = fragment_code /\ ~received[p[n]].fin
  BY DEF FragmentInv, Collects
<1> HIDE DEF n, p, q
<1>4. p[1] \in 1..Len(received) /\ q[1] = p[1] /\ p[n] \in 1..Len(received)
  BY <1>2, <1>3
<1>5. {q[k] : k \in 2..Len(q)} = {p[k] : k \in 2..n} \cup {This}
  <2>1. \A k \in 2..n : k \in 2..Len(q) /\ q[k] = p[k]
    BY <1>2
  <2>2. n + 1 \in 2..Len(q) /\ q[n + 1] = This
    BY <1>2, <1>3
  <2>3. \A k \in 2..Len(q) : k \in 2..n \/ k = n + 1
    BY <1>2
  <2> QED
    BY <2>1, <2>2, <2>3
<1>6. {k \in q[1] + 1..Len(received') : received'[k].kind = "cont"}
        = {k \in p[1] + 1..Len(received) : received[k].kind = "cont"} \cup {This}
  BY <1>1, <1>4
<1>7. \A k \in 1..Len(q) - 1 : ~received'[q[k]].fin /\ q[k] < q[k + 1]
  <2> TAKE k \in 1..Len(q) - 1
  <2>1. k \in 1..n /\ q[k] = p[k] /\ p[k] \in 1..Len(received) /\ received'[p[k]] = received[p[k]]
    <3>1. k \in 1..n /\ q[k] = p[k]
      BY <1>2
    <3>2. p[k] \in 1..Len(received)
      BY <1>3, <3>1
    <3> QED
      BY <1>1, <3>1, <3>2
  <2>2. CASE k = n
    BY <1>1, <1>2, <1>3, <2>1, <2>2
  <2>3. CASE k # n
    <3>1. k \in 1..n - 1 /\ k + 1 \in 1..n
      BY <1>2, <2>1, <2>3
    <3> QED
      BY <1>2, <1>3, <2>1, <3>1
  <2> QED
    BY <2>2, <2>3
<1>8. \A k \in 1..Len(q) : q[k] \in 1..Len(received')
  <2> TAKE k \in 1..Len(q)
  <2>1. CASE k \in 1..n
    <3>1. q[k] = p[k]
      BY <1>2, <2>1
    <3>2. p[k] \in 1..Len(received)
      BY <1>3, <2>1
    <3>3. p[k] \in 1..Len(received')
      BY <1>1, <3>2
    <3> QED
      BY <3>1, <3>3
  <2>2. CASE k = n + 1
    <3>1. This \in 1..Len(received')
      BY <1>1
    <3> QED
      BY <1>2, <2>2, <3>1
  <2> QED
    BY <1>2, <2>1, <2>2
<1>9. Collects(q, received')
  <2>1. {q[k] : k \in 2..Len(q)} = {k \in q[1] + 1..Len(received') : received'[k].kind = "cont"}
    BY <1>3, <1>5, <1>6
  <2>2. Len(q) > 0
    BY <1>2
  <2> QED
    BY <1>7, <1>8, <2>1, <2>2 DEF Collects
<1>10. q \in Seq(1..MaxFrames) /\ received'[q[1]].kind = fragment_code /\ q[Len(q)] = This
  BY <1>1, <1>2, <1>3, <1>4
<1> QED
  BY <1>1, <1>9, <1>10 DEF q, p

(* What on_message gets is one frame, or the fragments with the last of them.*)
LEMMA MessageDelivered ==
  ASSUME TypeInv, FragmentInv, NEW f \in PeerFrames,
         W_Message(f) \/ (W_FragmentEnd(f) /\ delivered' # delivered)
  PROVE  \E msg \in Messages : delivered' = Append(delivered, msg) /\ IsMessage(msg, received')
<1>1. CASE W_Message(f)
  <2> DEFINE parts == <<This>>
             msg == [kind |-> f.kind, parts |-> parts]
  <2>1. /\ Receives(f) /\ f.kind \in {"text", "binary"} /\ f.fin
        /\ delivered' = Append(delivered, msg)
    BY <1>1 DEF W_Message, Delivers
  <2>2. This \in 1..MaxFrames /\ received'[This] = f /\ Len(received') = This /\ This \in Nat
    BY <2>1, Grown, ReceivedTypes
  <2>3. parts \in Seq(1..MaxFrames) /\ Len(parts) = 1 /\ parts[1] = This
    BY <2>2
  <2>4. msg \in Messages /\ msg.kind = f.kind /\ msg.parts = parts
    BY <2>1, <2>3 DEF Messages
  <2> HIDE DEF msg, parts
  <2>5. {parts[k] : k \in 2..Len(parts)} = {}
        /\ {k \in parts[1] + 1..parts[Len(parts)] : received'[k].kind = "cont"} = {}
    BY <2>2, <2>3
  <2>6. /\ Len(parts) > 0 /\ \A k \in 1..Len(parts) : parts[k] \in 1..Len(received')
        /\ received'[parts[1]].kind = msg.kind /\ received'[parts[Len(parts)]].fin
        /\ \A k \in 1..Len(parts) - 1 : ~received'[parts[k]].fin /\ parts[k] < parts[k + 1]
    BY <2>1, <2>2, <2>3, <2>4
  <2>7. IsMessage(msg, received')
    BY <2>4, <2>5, <2>6 DEF IsMessage
  <2> QED
    BY <2>1, <2>4, <2>7
<1>2. CASE W_FragmentEnd(f) /\ delivered' # delivered
  <2> DEFINE parts == Append(fragment_payload, This)
             msg == [kind |-> fragment_code, parts |-> parts]
  <2>1. /\ Receives(f) /\ f.kind = "cont" /\ f.fin /\ InFragment
        /\ delivered' = Append(delivered, msg)
    BY <1>2 DEF W_FragmentEnd, Delivers
  <2>2. fragment_code \in {"text", "binary"}
    BY <2>1 DEF InFragment, TypeInv, TypeOK
  <2>3. /\ parts \in Seq(1..MaxFrames)
        /\ Collects(parts, received')
        /\ received'[parts[1]].kind = fragment_code
        /\ parts[Len(parts)] = This /\ received'[This] = f
    BY <2>1, FragmentAdded
  <2>4. Len(received') = This
    BY <2>1, Grown
  <2>5. msg \in Messages /\ msg.kind = fragment_code /\ msg.parts = parts
    BY <2>2, <2>3 DEF Messages
  <2> HIDE DEF msg, parts
  <2>6. Collects(msg.parts, received')
    BY <2>3, <2>5
  <2>7. /\ received'[msg.parts[1]].kind = msg.kind
        /\ received'[msg.parts[Len(msg.parts)]].fin
        /\ msg.parts[Len(msg.parts)] = Len(received')
    BY <2>1, <2>3, <2>4, <2>5
  <2>8. IsMessage(msg, received')
    BY <2>6, <2>7 DEF IsMessage, Collects
  <2> QED
    BY <2>1, <2>5, <2>8
<1> QED
  BY <1>1, <1>2

LEMMA MessageStep ==
  ASSUME TypeInv, MessageInv, [Next]_vars
  PROVE  MessageInv'
<1> USE DEF tasks, transmit, tcp, parser, users, inbound
<1>0. FragmentInv /\ (\A m \in DOMAIN delivered : IsMessage(delivered[m], received))
      /\ delivered \in Seq(Messages)
  BY DEF MessageInv, TypeInv, TypeOK, Messages
<1>1. ASSUME UNCHANGED <<received, delivered, fragment_code, fragment_payload>> PROVE MessageInv'
  BY <1>0, <1>1 DEF MessageInv, FragmentInv, InFragment
<1>2. ASSUME NEW f \in PeerFrames, Frame(f) PROVE MessageInv'
  <2>1. Receives(f)
    BY <1>2 DEF Frame, W_Rejects, W_Masked, W_Ping, W_Pong, W_Message, W_FragmentStart,
                W_FragmentNext, W_FragmentEnd, W_CloseReply, W_CloseFrame
  <2>2. \A m \in DOMAIN delivered : IsMessage(delivered[m], received')
    <3>1. ASSUME NEW m \in DOMAIN delivered PROVE delivered[m] \in Messages
      BY <1>0, LenProperties, ElementOfSeq
    <3> QED
      BY <1>0, <2>1, <3>1, MessageKept
  <2>3. \A m \in DOMAIN delivered' : IsMessage(delivered'[m], received')
    <3>1. CASE delivered' = delivered
      BY <2>2, <3>1
    <3>2. CASE \E msg \in Messages : delivered' = Append(delivered, msg) /\ IsMessage(msg, received')
      <4>1. PICK msg \in Messages : delivered' = Append(delivered, msg) /\ IsMessage(msg, received')
        BY <3>2
      <4>2. /\ Len(delivered) \in Nat /\ DOMAIN delivered = 1..Len(delivered)
            /\ delivered' \in Seq(Messages) /\ Len(delivered') = Len(delivered) + 1
            /\ \A m \in 1..Len(delivered) : delivered'[m] = delivered[m]
            /\ delivered'[Len(delivered) + 1] = msg
        BY <1>0, <4>1, AppendProperties, LenProperties
      <4>3. DOMAIN delivered' = 1..Len(delivered')
        BY <4>2, LenProperties
      <4>4. \A m \in DOMAIN delivered' : m \in DOMAIN delivered \/ m = Len(delivered) + 1
        BY <4>2, <4>3
      <4> QED
        BY <2>2, <4>1, <4>2, <4>4
    <3>3. delivered' = delivered \/ W_Message(f) \/ W_FragmentEnd(f)
      BY <1>2 DEF Frame, W_Rejects, W_Masked, W_Ping, W_Pong, W_FragmentStart, W_FragmentNext,
                  W_CloseReply, W_CloseFrame, NoMessage
    <3> QED
      BY <1>0, <3>1, <3>2, <3>3, MessageDelivered
  <2>4. FragmentInv'
    <3>1. ASSUME UNCHANGED <<fragment_code, fragment_payload>>, InFragment => f.kind # "cont"
          PROVE  FragmentInv'
      BY <1>0, <2>1, <3>1, FragmentsKept
    <3>2. CASE W_Rejects(f) \/ W_Masked(f) \/ W_Ping(f) \/ W_Pong(f) \/ W_Message(f)
               \/ W_CloseReply(f) \/ W_CloseFrame(f)
      BY <3>1, <3>2 DEF W_Rejects, W_Masked, W_Ping, W_Pong, W_Message, W_CloseReply, W_CloseFrame
    <3>3. CASE W_FragmentStart(f)
      <4>1. /\ fragment_code' = f.kind /\ fragment_payload' = <<This>> /\ ~f.fin
        BY <3>3 DEF W_FragmentStart
      <4>2. This \in Nat /\ This > 0 /\ received'[This] = f /\ Len(received') = This
        BY <2>1, Grown
      <4> DEFINE p == <<This>>
      <4>3. Len(p) = 1 /\ p[1] = This
        OBVIOUS
      <4> HIDE DEF p
      <4>4. {p[k] : k \in 2..Len(p)} = {} /\ {k \in p[1] + 1..Len(received') : received'[k].kind = "cont"} = {}
        BY <4>2, <4>3
      <4>5. Collects(p, received')
        BY <4>2, <4>3, <4>4 DEF Collects
      <4>6. fragment_payload' = p
        BY <4>1 DEF p
      <4> QED
        BY <4>1, <4>2, <4>3, <4>5, <4>6 DEF FragmentInv
    <3>4. CASE W_FragmentNext(f)
      <4>1. /\ f.kind = "cont" /\ ~f.fin /\ InFragment /\ fragment_code' = fragment_code
            /\ fragment_payload' = Append(fragment_payload, This)
        BY <3>4 DEF W_FragmentNext
      <4> DEFINE q == Append(fragment_payload, This)
      <4>2. /\ Collects(q, received')
            /\ received'[q[1]].kind = fragment_code
            /\ q[Len(q)] = This /\ received'[This] = f
        BY <1>0, <2>1, <4>1, FragmentAdded
      <4>3. fragment_payload' = q
        BY <4>1
      <4> HIDE DEF q
      <4> QED
        BY <4>1, <4>2, <4>3 DEF FragmentInv
    <3>5. CASE W_FragmentEnd(f)
      BY <3>5 DEF W_FragmentEnd, FragmentInv, InFragment
    <3> QED
      BY <1>2, <3>2, <3>3, <3>4, <3>5 DEF Frame
  <2> QED
    BY <2>3, <2>4 DEF MessageInv
<1>3. ASSUME UserCall \/ \E t \in Threads : Continue(t) PROVE MessageInv'
  BY <1>1, <1>3 DEF UserCall, Continue, SendRefused, SendOnWorker, CloseOnWorker, SendChecked, CloseCall,
                    Connect, SendEmplace, SetEvent
<1>4. ASSUME HandshakeTask \/ SendTask PROVE MessageInv'
  BY <1>1, <1>4 DEF HandshakeTask, H_Sent, H_Response, H_Refused, H_Disconnected, H_OnOpen, Handshake,
                    H_Open, H_Throws, H_Install, SendTask, S_Pop, S_PopThrows, S_Empty, S_Sent, S_Wake,
                    S_Check, S_Drain, S_Disconnect, S_Cancelled
<1>5. ASSUME EndSteps PROVE MessageInv'
  BY <1>1, <1>5 DEF EndSteps, W_Reply, W_Eof, PeerEof, DestroyOnWorker, D_Check, Destructor, D_Close,
                    D_Reply, D_First, D_FirstOpen, D_Exchange, D_Wake, D_Exit, D_ExitWake, Destroying
<1>6. ASSUME UNCHANGED vars PROVE MessageInv'
  BY <1>1, <1>6 DEF vars
<1> QED
  BY <1>2, <1>3, <1>4, <1>5, <1>6, NextParts

(* A message is a first frame and all continuations up to the one with the   *)
(* FIN bit, with nothing lost, repeated or taken from another message, for   *)
(* any sequence of frames and control frames between them.                   *)
THEOREM MessagesAreWhole == Safe => []WholeMessages
<1>1. Init => MessageInv
  <2> SUFFICES ASSUME Init PROVE MessageInv
    OBVIOUS
  <2>1. delivered = <<>> /\ fragment_code = "none"
    BY DEF Init
  <2>2. DOMAIN delivered = {}
    BY <2>1
  <2> QED
    BY <2>1, <2>2 DEF MessageInv, FragmentInv, InFragment
<1>2. MessageInv => WholeMessages
  BY DEF MessageInv, IsMessage, WholeMessages
<1>3. TypeInv /\ MessageInv /\ [Next]_vars => MessageInv'
  BY MessageStep
<1> QED
  BY <1>1, <1>2, <1>3, AlwaysTyped, PTL DEF Safe

===============================================================================
