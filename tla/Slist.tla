-------------------------------- MODULE Slist --------------------------------
(***************************************************************************)
(* asyncpp::curl::slist (slist.h, slist.cpp): singly linked lists with a    *)
(* pointer to the last node, over curl_slist nodes.  `items` is what the    *)
(* lists are meant to hold: every operation also has its effect on plain    *)
(* sequences, and the pointers must agree with them.                        *)
(***************************************************************************)
EXTENDS Integers, FiniteSets, SequencesExt

CONSTANTS
  Lists,      (* slist objects                                              *)
  Nodes,      (* memory for curl_slist nodes                                *)
  Data,       (* strings                                                    *)
  Null,
  MaxCopied   (* bound: the longest list that is copied                     *)

ASSUME ListAssumption ==
  /\ Null \notin Nodes /\ IsFiniteSet(Nodes) /\ Data # {}
  /\ "caller" \notin Lists /\ MaxCopied \in Nat

VARIABLES
  next, data,                 (* curl_slist::next and ::data                *)
  allocated,                  (* nodes that exist                           *)
  m_first_node, m_last_node,
  raw,                        (* a chain released to, or made by, the caller*)
  items                       (* history: the abstract lists                *)

vars == <<next, data, allocated, m_first_node, m_last_node, raw, items>>

Init ==
  /\ next = [n \in Nodes |-> Null]
  /\ data \in [Nodes -> {CHOOSE d \in Data : TRUE}]
  /\ allocated = {} /\ raw = Null
  /\ m_first_node = [l \in Lists |-> Null] /\ m_last_node = [l \in Lists |-> Null]
  /\ items = [l \in Lists |-> <<>>]

(* The node i steps after n.                                                 *)
Walk(n, i) ==
  LET f[k \in 0..i] == IF k = 0 THEN n ELSE IF f[k - 1] = Null THEN Null ELSE next[f[k - 1]]
  IN  f[i]

Index(l, i) == Walk(m_first_node[l], i)

(* A walk ends within as many steps as there are nodes.                      *)
ChainOf(n) == {Walk(n, i) : i \in 0..Cardinality(Nodes)} \ {Null}

Contents(n) == [i \in 1..Cardinality(ChainOf(n)) |-> data[Walk(n, i - 1)]]

EndOf(n) == CHOOSE e \in ChainOf(n) : next[e] = Null

Alloc(n, d) ==
  /\ n \notin allocated
  /\ allocated' = allocated \cup {n}
  /\ data' = [data EXCEPT ![n] = d]

-------------------------------------------------------------------------------
(* What l is to hold after the call.                                         *)
Holds(l, s) == items' = [items EXCEPT ![l] = s]

PrependNode(l, n, d) ==
  /\ Alloc(n, d)
  /\ next' = [next EXCEPT ![n] = m_first_node[l]]
  /\ m_first_node' = [m_first_node EXCEPT ![l] = n]
  /\ m_last_node' = [m_last_node EXCEPT ![l] = IF @ = Null THEN n ELSE @]
  /\ UNCHANGED raw

(* The node pos, or the last one for end(), gets n as its successor.         *)
LinkAfter(l, pos, n, d) ==
  LET p == IF pos = Null THEN m_last_node[l] ELSE pos IN
  /\ Alloc(n, d)
  /\ IF p # Null
       THEN /\ next' = [next EXCEPT ![n] = next[p], ![p] = n]
            /\ UNCHANGED m_first_node
       ELSE /\ next' = [next EXCEPT ![n] = Null]
            /\ m_first_node' = [m_first_node EXCEPT ![l] = n]
  /\ m_last_node' = IF next'[n] = Null THEN [m_last_node EXCEPT ![l] = n] ELSE m_last_node
  /\ UNCHANGED raw

Prepend(l, n, d) == PrependNode(l, n, d) /\ Holds(l, <<d>> \o items[l])

(* How many items there are up to pos; end() means all of them.              *)
Upto(l, pos) ==
  IF pos = Null THEN Len(items[l]) ELSE CHOOSE i \in 1..Len(items[l]) : Index(l, i - 1) = pos

(* insert_after, on an iterator of this list or end(); append is the latter. *)
InsertAfter(l, pos, n, d) ==
  /\ pos \in ChainOf(m_first_node[l]) \cup {Null}
  /\ LinkAfter(l, pos, n, d)
  /\ Holds(l, InsertAt(items[l], Upto(l, pos) + 1, d))

(* Mutant of InsertNode: the node goes after the one at the index.           *)
InsertNodeTooLate(l, i, n, d) ==
  IF i = 0 THEN PrependNode(l, n, d) ELSE LinkAfter(l, Index(l, i), n, d)

InsertNode(l, i, n, d) ==
  IF i = 0 THEN PrependNode(l, n, d) ELSE LinkAfter(l, Index(l, i - 1), n, d)

(* insert(): an index past the end appends.                                  *)
Insert(l, i, n, d) ==
  /\ InsertNode(l, i, n, d)
  /\ Holds(l, InsertAt(items[l], 1 + (IF i < Len(items[l]) THEN i ELSE Len(items[l])), d))

-------------------------------------------------------------------------------
Free(freed) == allocated' = allocated \ freed

(* remove(index): an index past the end is ignored.                          *)
RemoveIndex(l, i) ==
  LET p == IF i = 0 THEN Null ELSE Index(l, i - 1)
      n == Index(l, i) IN
  /\ n # Null
  /\ IF i = 0
       THEN /\ m_last_node' = [m_last_node EXCEPT ![l] = IF @ = n THEN Null ELSE @]
            /\ m_first_node' = [m_first_node EXCEPT ![l] = next[n]]
            /\ next' = [next EXCEPT ![n] = Null]
       ELSE /\ m_last_node' = [m_last_node EXCEPT ![l] = IF @ = n THEN p ELSE @]
            /\ next' = [next EXCEPT ![p] = next[n], ![n] = Null]
            /\ UNCHANGED m_first_node
  /\ Free({n})
  /\ Holds(l, RemoveAt(items[l], i + 1))
  /\ UNCHANGED <<data, raw>>

(* Mutant of RemoveIterator: the removed node keeps its successor, and        *)
(* curl_slist_free_all frees it too.                                         *)
RemoveIteratorFreesTail(l, pos) ==
  LET n == IF pos = Null THEN m_last_node[l] ELSE pos
      before == {q \in ChainOf(m_first_node[l]) : next[q] = n} IN
  /\ n # Null /\ n \in ChainOf(m_first_node[l])
  /\ IF n = m_first_node[l]
       THEN /\ m_first_node' = [m_first_node EXCEPT ![l] = next[n]]
            /\ m_last_node' = IF next[n] = Null THEN [m_last_node EXCEPT ![l] = Null] ELSE m_last_node
            /\ UNCHANGED next
       ELSE \E q \in before :
            /\ next' = [next EXCEPT ![q] = next[n]]
            /\ m_last_node' = IF next[n] = Null THEN [m_last_node EXCEPT ![l] = q] ELSE m_last_node
            /\ UNCHANGED m_first_node
  /\ Free(ChainOf(n))
  /\ Holds(l, RemoveAt(items[l], Upto(l, pos)))
  /\ UNCHANGED <<data, raw>>

(* remove(iterator): end() removes the last node.                            *)
RemoveIterator(l, pos) ==
  LET n == IF pos = Null THEN m_last_node[l] ELSE pos
      before == {q \in ChainOf(m_first_node[l]) : next[q] = n} IN
  /\ n # Null /\ n \in ChainOf(m_first_node[l])
  /\ IF n = m_first_node[l]
       THEN /\ m_first_node' = [m_first_node EXCEPT ![l] = next[n]]
            /\ m_last_node' = IF next[n] = Null THEN [m_last_node EXCEPT ![l] = Null] ELSE m_last_node
            /\ next' = [next EXCEPT ![n] = Null]
       ELSE \E q \in before :
            /\ next' = [next EXCEPT ![q] = next[n], ![n] = Null]
            /\ m_last_node' = IF next[n] = Null THEN [m_last_node EXCEPT ![l] = q] ELSE m_last_node
            /\ UNCHANGED m_first_node
  /\ Free({n})
  /\ Holds(l, RemoveAt(items[l], Upto(l, pos)))
  /\ UNCHANGED <<data, raw>>

Clear(l) ==
  /\ Free(ChainOf(m_first_node[l]))
  /\ m_first_node' = [m_first_node EXCEPT ![l] = Null]
  /\ m_last_node' = [m_last_node EXCEPT ![l] = Null]
  /\ Holds(l, <<>>)
  /\ UNCHANGED <<next, data, raw>>

(* Copy assignment, and copy construction if l is empty.  curl_slist_append  *)
(* returns the head of the list it appended to, so both pointers that        *)
(* copy_slist returns are the first new node.                                *)
CopyFrom(l, k) ==
  LET old == ChainOf(m_first_node[l])
      size == Len(items[k]) IN
  /\ size <= MaxCopied
  /\ \E copy \in [1..size -> Nodes \ allocated] :
       /\ IsInjective(copy)
       /\ next' = [n \in Nodes |->
                    IF \E i \in 1..size - 1 : copy[i] = n
                      THEN copy[1 + CHOOSE i \in 1..size - 1 : copy[i] = n]
                    ELSE IF size > 0 /\ copy[size] = n THEN Null
                    ELSE next[n]]
       /\ data' = [n \in Nodes |->
                    IF \E i \in 1..size : copy[i] = n
                      THEN data[Index(k, (CHOOSE i \in 1..size : copy[i] = n) - 1)]
                      ELSE data[n]]
       /\ m_first_node' = [m_first_node EXCEPT ![l] = IF size = 0 THEN Null ELSE copy[1]]
       /\ m_last_node' = [m_last_node EXCEPT ![l] = IF size = 0 THEN Null ELSE copy[1]]
       /\ allocated' = (allocated \ old) \cup {copy[i] : i \in 1..size}
  /\ Holds(l, items[k])
  /\ UNCHANGED raw

(* Move assignment exchanges the lists; so does move construction.           *)
MoveFrom(l, k) ==
  /\ m_first_node' = [m_first_node EXCEPT ![l] = m_first_node[k], ![k] = m_first_node[l]]
  /\ m_last_node' = [m_last_node EXCEPT ![l] = m_last_node[k], ![k] = m_last_node[l]]
  /\ items' = [items EXCEPT ![l] = items[k], ![k] = items[l]]
  /\ UNCHANGED <<next, data, allocated, raw>>

(* release(): the caller owns the chain...                                   *)
Release(l) ==
  /\ raw = Null
  /\ raw' = m_first_node[l]
  /\ m_first_node' = [m_first_node EXCEPT ![l] = Null]
  /\ m_last_node' = [m_last_node EXCEPT ![l] = Null]
  /\ Holds(l, <<>>)
  /\ UNCHANGED <<next, data, allocated>>

(* ...and may construct a list from it with ownership_take.                  *)
Take(l) ==
  /\ raw # Null /\ m_first_node[l] = Null
  /\ m_first_node' = [m_first_node EXCEPT ![l] = raw]
  /\ m_last_node' = [m_last_node EXCEPT ![l] = EndOf(raw)]
  /\ Holds(l, Contents(raw))
  /\ raw' = Null
  /\ UNCHANGED <<next, data, allocated>>

-------------------------------------------------------------------------------
Next ==
  \E l \in Lists :
    \/ \E n \in Nodes, d \in Data :
         \/ Prepend(l, n, d)
         \/ \E i \in 0..Cardinality(Nodes) : Insert(l, i, n, d)
         \/ \E pos \in Nodes \cup {Null} : InsertAfter(l, pos, n, d)
    \/ \E i \in 0..Cardinality(Nodes) : RemoveIndex(l, i)
    \/ \E pos \in Nodes \cup {Null} : RemoveIterator(l, pos)
    \/ Clear(l) \/ Release(l) \/ Take(l)
    \/ \E k \in Lists : CopyFrom(l, k) \/ MoveFrom(l, k)

Spec == Init /\ [][Next]_vars

-------------------------------------------------------------------------------
(* Following the pointers gives the list that the calls were to produce:     *)
(* append adds at the end, insert_after after its iterator, remove takes     *)
(* away one element, whatever was done to the list before.                   *)
HoldsItsItems == \A l \in Lists : Contents(m_first_node[l]) = items[l]

(* Every node belongs to exactly one list or to the caller: none leaks, none *)
(* is freed while it is in a list.                                           *)
OwnedOnce ==
  LET owned == [o \in Lists \cup {"caller"} |->
                  ChainOf(IF o = "caller" THEN raw ELSE m_first_node[o])]
  IN  /\ UNION {owned[o] : o \in DOMAIN owned} = allocated
      /\ \A o, p \in DOMAIN owned : o # p => owned[o] \cap owned[p] = {}
===============================================================================
