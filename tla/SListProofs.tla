----------------------------- MODULE SListProofs ------------------------------
(***************************************************************************)
(* The serial use of a list, in a build without assertions and without     *)
(* slist_clear on its own, for any number of tasks, nodes and items: the   *)
(* invariants of SList, and that it implements AbstractList.               *)
(***************************************************************************)
EXTENDS SList, RemoveAtLemma

(* The inductive invariant.  One call is under way at most, and Shape says   *)
(* what the list looks like at its place pc in the code; between calls the *)
(* place is "idle".                                                        *)

Reaches(pc, n) == IF pc = "finish" THEN n ELSE NULL
Index == 1 .. Len(order)

\* The nodes of the list that are not freed, and the one that is not in it.
Kept(c) == IF c.pc = "clear" THEN c.at + 1 .. Len(order) ELSE Index
Extra(c) == IF c.pc \in {"link", "finish", "dispose"} THEN {c.node} ELSE {}

FirstOK(c) == first = IF order = <<>> THEN Reaches(c.pc, c.node) ELSE order[1]
LastOK(c) ==
  (IF c.pc = "dispose" THEN LastWithout(c) ELSE last)
    = IF order = <<>> THEN NULL ELSE order[Len(order)]
CountOK(c) == count = IF c.pc = "dispose" THEN Len(order) + 1 ELSE Len(order)
LinksOK(c) ==
  \A i \in Index :
    next[order[i]] = IF i < Len(order) THEN order[i + 1] ELSE Reaches(c.pc, c.node)
MemoryOK(c) == allocated = {order[i] : i \in Kept(c)} \cup Extra(c)

\* The node that is being added or removed, and the place of a search.
ExtraOK(c) ==
  /\ c.pc \in {"link", "finish", "dispose"} =>
       c.node \in Nodes /\ \A i \in Index : order[i] # c.node
  /\ c.pc \in {"link", "finish"} => next[c.node] = NULL
SearchOK(c) ==
  /\ c.pc \in {"find", "clear"} =>
       c.at <= Len(order) /\ c.node = IF c.at < Len(order) THEN order[c.at + 1] ELSE NULL
  /\ c.pc = "find" => c.prev = IF c.at = 0 THEN NULL ELSE order[c.at]
  /\ c.pc = "clear" => c.op = "delete"

Shape(c) ==
  IF exists
  THEN /\ FirstOK(c) /\ LastOK(c) /\ CountOK(c) /\ LinksOK(c)
       /\ MemoryOK(c) /\ ExtraOK(c) /\ SearchOK(c)
  ELSE c.pc \in {"idle", "returned"} /\ order = <<>> /\ allocated = {}

OneCall == \A p, q \in Procs : call[p].pc # "idle" /\ call[q].pc # "idle" => p = q
Distinct == \A i, j \in Index : order[i] = order[j] => i = j

\* No iterator is live where nodes are freed, nor without a list.
ItersOK ==
  \A p \in Procs :
    /\ ~iter[p].live => iter[p].next = NULL
    /\ iter[p].next # NULL => iter[p].index < Len(order) /\ iter[p].next = order[iter[p].index + 1]
    /\ iter[p].live => exists /\ \A q \in Procs : call[q].pc \notin {"find", "dispose", "clear"}

\* What does not depend on the iterators.
ListInv ==
  /\ TypeOK /\ NoFault /\ OneCall /\ Distinct
  /\ \A p \in Procs : Alone(p) => Shape(call[p])

IInv == ListInv /\ ItersOK

-----------------------------------------------------------------------------
(* A step of p, alone in its call: what has to be shown of it.             *)

Keeps(p) ==
  /\ TypeOK /\ NoFault /\ Distinct /\ Shape(call[p])

LEMMA StepKeeps ==
  ASSUME ListInv, NEW p \in Procs, Alone(p), Keeps(p)',
         \A q \in Procs \ {p} : call'[q] = call[q]
  PROVE  ListInv'
<1>1. \A q \in Procs \ {p} : call'[q].pc = "idle"
  BY DEF Alone
<1>2. OneCall'
  BY <1>1 DEF OneCall
<1>3. ASSUME NEW q \in Procs, Alone(q)' PROVE Shape(call[q])'
  <2>1. CASE q = p
    BY <2>1 DEF Keeps
  <2>2. CASE q # p
    <3>1. call'[p].pc = "idle" /\ call'[q].pc = "idle"
      BY <1>1, <1>3, <2>2 DEF Alone
    <3>2. QED
      BY <3>1 DEF Keeps, Shape, FirstOK, LastOK, CountOK, LinksOK, MemoryOK, ExtraOK, SearchOK,
                  Reaches, Kept, Extra
  <2>3. QED
    BY <2>1, <2>2
<1>4. QED
  BY <1>2, <1>3 DEF ListInv, Keeps

LEMMA NoCallTyped ==
  /\ NoCall \in Calls
  /\ NoIter \in [live : BOOLEAN, next : Nodes \cup {NULL}, index : Nat]
BY ListAssumption DEF NoCall, Calls, Places, NoIter, ListAssumption

LEMMA InitialState == Init => IInv
<1> SUFFICES ASSUME Init PROVE IInv
  OBVIOUS
<1>1. TypeOK
  BY NoCallTyped, EmptySeq DEF Init, TypeOK
<1>2. order = <<>> /\ Len(order) = 0 /\ Index = {}
  BY DEF Init, Index
<1>3. \A p \in Procs : call[p].pc = "idle" /\ iter[p] = NoIter
  BY DEF Init, NoCall
<1>4. QED
  BY <1>1, <1>2, <1>3 DEF Init, IInv, ListInv, NoFault, OneCall, Distinct, ItersOK, Shape, NoIter

-----------------------------------------------------------------------------
(* slist_remove and slist_remove_at.                                       *)

LEMMA Before ==
  ASSUME ListInv, NEW p \in Procs, Alone(p)
  PROVE  /\ TypeOK /\ ~fault /\ Distinct /\ Shape(call[p])
         /\ call[p] \in Calls /\ Len(order) \in Nat
         /\ \A i \in Index : order[i] \in Nodes
         /\ NULL \notin Nodes
<1>1. TypeOK /\ ~fault /\ Distinct /\ Shape(call[p])
  BY DEF ListInv, NoFault
<1>2. QED
  BY <1>1, ElementOfSeq, LenProperties, ListAssumption DEF TypeOK, Index, ListAssumption

LEMMA UnlinkKeeps ==
  ASSUME ~AssertsEnabled, ListInv, NEW p \in Procs, Alone(p), Unlink(p)
  PROVE  Keeps(p)'
<1> DEFINE c == call[p]  n == Len(order)
<1>1. /\ TypeOK /\ ~fault /\ Distinct /\ Shape(c) /\ exists
      /\ c.pc = "find" /\ c.node # NULL /\ c \in Calls /\ n \in Nat
  <2>1. c.pc = "find" /\ c.node # NULL
    BY DEF Unlink, At
  <2>2. TypeOK /\ ~fault /\ Distinct /\ Shape(c)
    BY DEF ListInv, NoFault
  <2>3. QED
    BY <2>1, <2>2, LenProperties DEF Shape, TypeOK
<1>2. /\ c.at \in Nat /\ c.at < n /\ c.node = order[c.at + 1] /\ c.node \in Nodes
      /\ c.prev = IF c.at = 0 THEN NULL ELSE order[c.at]
      /\ \A i \in 1 .. n : order[i] \in Nodes
  BY <1>1, ElementOfSeq DEF Shape, SearchOK, Calls, TypeOK
<1>3. /\ order' \in Seq(Nodes) /\ Len(order') = n - 1
      /\ \A j \in 1 .. n - 1 : order'[j] = IF j < c.at + 1 THEN order[j] ELSE order[j + 1]
  <2>1. order \in Seq(Nodes) /\ c.at + 1 \in 1 .. n /\ order' = RemoveAt(order, c.at + 1)
    BY <1>1, <1>2 DEF Unlink, TypeOK
  <2>2. QED
    BY <2>1, RemoveAtProperties
<1>4. call' = [call EXCEPT ![p].pc = "dispose"] /\ call'[p] = [c EXCEPT !.pc = "dispose"]
  BY <1>1 DEF Unlink, TypeOK
<1>5. UNCHANGED <<exists, last, count, item, allocated, iter>> /\ UnlinkNode(c)
  BY DEF Unlink
<1>6. /\ next \in [Nodes -> Nodes \cup {NULL}]
      /\ \A i \in 1 .. n : next[order[i]] = IF i < n THEN order[i + 1] ELSE NULL
      /\ \A i, j \in 1 .. n : order[i] = order[j] => i = j
      /\ allocated = {order[i] : i \in 1 .. n}
      /\ count = n /\ last = order[n] /\ first = order[1]
  BY <1>1, <1>2, EmptySeq
  DEF Shape, LinksOK, MemoryOK, CountOK, LastOK, FirstOK, Reaches, Index, Kept, Extra, Distinct, TypeOK
<1>7. NULL \notin Nodes
  BY ListAssumption DEF ListAssumption
<1>8. next[c.node] = IF c.at + 1 < n THEN order[c.at + 2] ELSE NULL
  BY <1>1, <1>2, <1>6
<1>9. /\ c.at = 0 => first' = next[c.node] /\ next' = next
      /\ c.at # 0 => first' = first /\ next' = [next EXCEPT ![order[c.at]] = next[c.node]]
  BY <1>1, <1>2, <1>5, <1>7 DEF UnlinkNode
<1>10. TypeOK'
  <2>1. call' \in [Procs -> Calls]
    BY <1>1, <1>4 DEF TypeOK, Calls, Places
  <2>2. first' \in Nodes \cup {NULL} /\ next' \in [Nodes -> Nodes \cup {NULL}]
    <3>1. first \in Nodes \cup {NULL} /\ next[c.node] \in Nodes \cup {NULL}
      BY <1>1, <1>2, <1>6 DEF TypeOK
    <3>2. c.at # 0 => order[c.at] \in Nodes
      BY <1>1, <1>2
    <3> HIDE DEF c
    <3>3. QED
      BY ONLY <1>6, <1>9, <3>1, <3>2
  <2>3. fault' \in BOOLEAN
    BY DEF Unlink
  <2>4. QED
    BY <1>1, <1>3, <1>5, <2>1, <2>2, <2>3 DEF TypeOK
<1>11. NoFault'
  <2>1. {c.node, c.prev} \subseteq allocated \cup {NULL}
    BY <1>1, <1>2, <1>6
  <2>2. fault' = ~({c.node, c.prev} \subseteq allocated \cup {NULL} /\ AssertHolds(c))
    BY DEF Unlink
  <2>3. QED
    BY <2>1, <2>2 DEF NoFault, AssertHolds
<1>12. Distinct'
  <2>1. DOMAIN order' = 1 .. n - 1
    BY ONLY <1>3, LenProperties
  <2>2. ASSUME NEW i \in 1 .. n - 1, NEW j \in 1 .. n - 1, order'[i] = order'[j] PROVE i = j
    <3>1. n \in Nat /\ c.at \in Nat
      BY <1>1, <1>2
    <3>2. i \in 1 .. n /\ i + 1 \in 1 .. n /\ j \in 1 .. n /\ j + 1 \in 1 .. n
      BY ONLY <3>1, i \in 1 .. n - 1, j \in 1 .. n - 1
    <3>3. /\ order'[i] = IF i < c.at + 1 THEN order[i] ELSE order[i + 1]
          /\ order'[j] = IF j < c.at + 1 THEN order[j] ELSE order[j + 1]
      BY <1>3
    <3>4. \A k, l \in 1 .. n : order[k] = order[l] => k = l
      BY <1>6
    <3> HIDE DEF n, c
    <3>5. PICK at \in Nat : at = c.at + 1
      BY <3>1
    <3>6. PICK k \in 1 .. n, l \in 1 .. n :
            /\ k = (IF i < at THEN i ELSE i + 1) /\ order'[i] = order[k]
            /\ l = (IF j < at THEN j ELSE j + 1) /\ order'[j] = order[l]
      BY ONLY <3>2, <3>3, <3>5
    <3>7. k = l
      BY ONLY <2>2, <3>4, <3>6
    <3>8. QED
      BY ONLY <3>1, <3>6, <3>7, i \in 1 .. n - 1, j \in 1 .. n - 1, at \in Nat
  <2>3. Len(order') = n - 1
    BY <1>3
  <2>4. QED
    BY ONLY <2>1, <2>2, <2>3 DEF Distinct, Index
<1>13. Shape(call[p])'
  <2> DEFINE d == call'[p]
  <2>0. /\ d.pc = "dispose" /\ d.node = c.node /\ d.prev = c.prev
        /\ order' = <<>> <=> n = 1
        /\ \A i \in 1 .. n - 1 : order'[i] # c.node
    <3>1. d.pc = "dispose" /\ d.node = c.node /\ d.prev = c.prev
      BY <1>1, <1>4 DEF Calls
    <3>2. order' = <<>> <=> n = 1
      BY <1>1, <1>3, EmptySeq
    <3>3. ASSUME NEW i \in 1 .. n - 1 PROVE order'[i] # c.node
      <4>1. i \in 1 .. n /\ i + 1 \in 1 .. n /\ c.at + 1 \in 1 .. n
        BY <1>1, <1>2
      <4>2. order'[i] = IF i < c.at + 1 THEN order[i] ELSE order[i + 1]
        BY <1>3
      <4>3. order[i] = c.node => i = c.at + 1
        BY <1>2, <1>6, <4>1
      <4>4. order[i + 1] = c.node => i = c.at
        BY <1>2, <1>6, <4>1
      <4>5. QED
        BY <1>2, <4>2, <4>3, <4>4
    <3>4. QED
      BY <3>1, <3>2, <3>3
  <2>1. FirstOK(call[p])'
    BY <1>1, <1>2, <1>3, <1>6, <1>8, <1>9, <2>0 DEF FirstOK, Reaches
  <2>2. LastOK(call[p])'
    <3>1. next'[c.node] = next[c.node]
      BY <1>1, <1>2, <1>6, <1>9
    <3>2. QED
      <4>1. CASE c.at + 1 < n
        <5>1. next'[d.node] # NULL
          BY <1>1, <1>2, <1>7, <1>8, <2>0, <3>1, <4>1
        <5>2. Len(order') = n - 1 /\ order' # <<>> /\ order'[n - 1] = order[n]
          BY <1>1, <1>2, <1>3, <2>0, <4>1
        <5>3. QED
          <6>1. LastWithout(call[p])' = last'
            BY <5>1 DEF LastWithout
          <6>2. QED
            BY <1>5, <1>6, <2>0, <5>2, <6>1 DEF LastOK
      <4>2. CASE c.at + 1 = n
        BY <1>1, <1>2, <1>3, <1>5, <1>6, <1>7, <1>8, <2>0, <3>1, <4>2 DEF LastOK, LastWithout
      <4>3. QED
        BY <1>1, <1>2, <4>1, <4>2
  <2>3. LinksOK(call[p])'
    <3>1. ASSUME NEW i \in 1 .. n - 1
          PROVE  next'[order'[i]] = IF i < n - 1 THEN order'[i + 1] ELSE NULL
      <4>1. CASE i < c.at
        <5>1. order'[i] = order[i] /\ order'[i + 1] = order[i + 1] /\ i < n - 1
          <6>1. /\ i < n - 1 /\ i \in 1 .. n - 1 /\ i + 1 \in 1 .. n - 1
                /\ i < c.at + 1 /\ i + 1 < c.at + 1
            BY <1>1, <1>2, <4>1
          <6>2. QED
            BY ONLY <1>3, <6>1
        <5>2. order[i] \in Nodes /\ order[i] # order[c.at]
          BY <1>1, <1>2, <1>6, <4>1
        <5>3. QED
          BY <1>1, <1>2, <1>6, <1>9, <4>1, <5>1, <5>2
      <4>2. CASE i = c.at
        <5>1. c.at # 0 /\ order'[c.at] = order[c.at] /\ order[c.at] \in Nodes
          BY <1>1, <1>2, <1>3, <4>2
        <5>2. next'[order'[c.at]] = next[c.node]
          BY <1>6, <1>9, <5>1
        <5>3. c.at + 1 < n => order'[c.at + 1] = order[c.at + 2]
          <6>1. SUFFICES ASSUME c.at + 1 < n PROVE order'[c.at + 1] = order[c.at + 2]
            OBVIOUS
          <6>2. c.at + 1 \in 1 .. n - 1 /\ ~(c.at + 1 < c.at + 1) /\ (c.at + 1) + 1 = c.at + 2
            BY <1>1, <1>2, <6>1
          <6>3. QED
            BY <1>3, <6>2
        <5>4. c.at + 1 < n <=> c.at < n - 1
          BY <1>1, <1>2
        <5>5. QED
          BY <1>8, <4>2, <5>2, <5>3, <5>4
      <4>3. CASE i > c.at
        <5>1. order'[i] = order[i + 1] /\ (i < n - 1 => order'[i + 1] = order[i + 2])
          <6>1. order'[i] = order[i + 1]
            BY <1>1, <1>2, <1>3, <4>3
          <6>2. ASSUME i < n - 1 PROVE order'[i + 1] = order[i + 2]
            <7>1. i + 1 \in 1 .. n - 1 /\ ~(i + 1 < c.at + 1) /\ (i + 1) + 1 = i + 2
              BY <1>1, <1>2, <4>3, <6>2
            <7>2. QED
              BY <1>3, <7>1
          <6>3. QED
            BY <6>1, <6>2
        <5>2. order[i + 1] \in Nodes /\ (c.at # 0 => order[i + 1] # order[c.at])
          BY <1>1, <1>2, <1>6, <4>3
        <5>3. QED
          BY <1>1, <1>2, <1>6, <1>9, <4>3, <5>1, <5>2
      <4>4. QED
        BY <1>2, <4>1, <4>2, <4>3
    <3>2. QED
      BY <1>3, <2>0, <3>1 DEF LinksOK, Index, Reaches
  <2>4. MemoryOK(call[p])'
    <3>1. {order[i] : i \in 1 .. n} = {order'[i] : i \in 1 .. n - 1} \cup {c.node}
      <4>1. ASSUME NEW i \in 1 .. n PROVE order[i] \in {order'[j] : j \in 1 .. n - 1} \cup {c.node}
        <5>1. CASE i < c.at + 1
          BY <1>1, <1>2, <1>3, <5>1
        <5>2. CASE i = c.at + 1
          BY <1>2, <5>2
        <5>3. CASE i > c.at + 1
          <6>1. i - 1 \in 1 .. n - 1 /\ order'[i - 1] = order[i]
            BY <1>1, <1>2, <1>3, <5>3
          <6>2. QED
            BY <6>1
        <5>4. QED
          BY <1>2, <5>1, <5>2, <5>3
      <4>2. ASSUME NEW j \in 1 .. n - 1 PROVE order'[j] \in {order[i] : i \in 1 .. n}
        BY <1>1, <1>2, <1>3
      <4>3. c.node \in {order[i] : i \in 1 .. n}
        BY <1>1, <1>2
      <4>4. QED
        BY <4>1, <4>2, <4>3
    <3>2. QED
      BY <1>3, <1>5, <1>6, <2>0, <3>1 DEF MemoryOK, Kept, Extra, Index
  <2>5. CountOK(call[p])' /\ ExtraOK(call[p])' /\ SearchOK(call[p])'
    BY <1>1, <1>2, <1>3, <1>5, <1>6, <2>0 DEF CountOK, ExtraOK, SearchOK, Index
  <2>6. QED
    BY <1>1, <1>5, <2>1, <2>2, <2>3, <2>4, <2>5 DEF Shape
<1>14. QED
  BY <1>10, <1>11, <1>12, <1>13 DEF Keeps

LEMMA DisposeKeeps ==
  ASSUME ListInv, NEW p \in Procs, Alone(p), Dispose(p)
  PROVE  Keeps(p)'
<1> DEFINE c == call[p]  n == Len(order)
<1>1. /\ TypeOK /\ ~fault /\ Distinct /\ Shape(c) /\ c \in Calls /\ n \in Nat
      /\ \A i \in Index : order[i] \in Nodes
      /\ NULL \notin Nodes
  BY Before
<1>2. c.pc = "dispose" /\ exists
  BY <1>1 DEF Dispose, At, Shape
<1>3. /\ call' = [call EXCEPT ![p].pc = "returned", ![p].result = "OK"]
      /\ last' = LastWithout(c) /\ allocated' = allocated \ {c.node} /\ count' = count - 1
      /\ fault' = (c.node \notin allocated)
      /\ UNCHANGED <<exists, first, next, item, iter, order>>
  BY DEF Dispose, Return, Uses, Freed, Decremented
<1>4. /\ FirstOK(c) /\ LastOK(c) /\ CountOK(c) /\ LinksOK(c) /\ MemoryOK(c) /\ ExtraOK(c)
      /\ Index' = Index
  BY <1>1, <1>2, <1>3 DEF Shape, Index
<1>5. call'[p].pc = "returned" /\ call' \in [Procs -> Calls]
  BY <1>1, <1>3 DEF TypeOK, Calls, Places
<1>6. TypeOK'
  BY <1>1, <1>2, <1>3, <1>4, <1>5 DEF TypeOK, LastWithout, CountOK, Calls
<1>7. NoFault' /\ Distinct'
  BY <1>1, <1>2, <1>3, <1>4 DEF NoFault, Distinct, MemoryOK, Extra
<1>8. Shape(call[p])'
  BY <1>1, <1>2, <1>3, <1>4, <1>5
  DEF Shape, FirstOK, LastOK, CountOK, LinksOK, MemoryOK, ExtraOK, SearchOK, Reaches, Kept, Extra
<1>9. QED
  BY <1>6, <1>7, <1>8 DEF Keeps

LEMMA NotFoundKeeps ==
  ASSUME ListInv, NEW p \in Procs, Alone(p), NotFound(p)
  PROVE  Keeps(p)'
<1> DEFINE c == call[p]  n == Len(order)
<1>1. /\ TypeOK /\ ~fault /\ Distinct /\ Shape(c) /\ c \in Calls /\ n \in Nat
      /\ \A i \in Index : order[i] \in Nodes
      /\ NULL \notin Nodes
  BY Before
<1>2. c.pc = "find" /\ exists
  BY <1>1 DEF NotFound, At, Shape
<1>3. /\ \E r \in {"ERR_NOT_FOUND", "ERR_OUT_OF_RANGE"} :
           call' = [call EXCEPT ![p].pc = "returned", ![p].result = r]
      /\ UNCHANGED <<exists, first, last, count, next, item, allocated, iter, order, fault>>
  BY <1>1 DEF NotFound, Return, ends, memory
<1>4. FirstOK(c) /\ LastOK(c) /\ CountOK(c) /\ LinksOK(c) /\ MemoryOK(c) /\ ExtraOK(c) /\ SearchOK(c)
      /\ Index' = Index
  BY <1>1, <1>2, <1>3 DEF Shape, Index
<1>5. call'[p].pc = "returned" /\ call' \in [Procs -> Calls]
  <2>1. PICK r \in {"ERR_NOT_FOUND", "ERR_OUT_OF_RANGE"} :
          call' = [call EXCEPT ![p].pc = "returned", ![p].result = r]
    BY <1>3
  <2>2. QED
    BY <1>1, <2>1 DEF TypeOK, Calls, Places
<1>6. TypeOK'
  BY <1>1, <1>2, <1>3, <1>4, <1>5 DEF TypeOK
<1>7. NoFault' /\ Distinct'
  BY <1>1, <1>2, <1>3, <1>4 DEF NoFault, Distinct, MemoryOK, Extra, Kept, LinksOK, SearchOK, LastOK
<1>8. Shape(call[p])'
  BY <1>1, <1>2, <1>3, <1>4, <1>5
  DEF Shape, FirstOK, LastOK, CountOK, LinksOK, MemoryOK, ExtraOK, SearchOK, Reaches, Kept, Extra
<1>9. QED
  BY <1>6, <1>7, <1>8 DEF Keeps

LEMMA AdvanceKeeps ==
  ASSUME ListInv, NEW p \in Procs, Alone(p), Advance(p)
  PROVE  Keeps(p)'
<1> DEFINE c == call[p]  n == Len(order)
<1>1. /\ TypeOK /\ ~fault /\ Distinct /\ Shape(c) /\ c \in Calls /\ n \in Nat
      /\ \A i \in Index : order[i] \in Nodes
      /\ NULL \notin Nodes
  BY Before
<1>2. c.pc = "find" /\ c.node # NULL /\ exists
  BY <1>1 DEF Advance, At, Shape
<1>3. /\ call' = [call EXCEPT ![p].prev = c.node, ![p].node = next[c.node], ![p].at = c.at + 1]
      /\ fault' = (c.node \notin allocated)
      /\ UNCHANGED <<exists, first, last, count, next, item, allocated, iter, order>>
  BY <1>1 DEF Advance, Uses, ends, memory, TypeOK, Calls
<1>4. FirstOK(c) /\ LastOK(c) /\ CountOK(c) /\ LinksOK(c) /\ MemoryOK(c) /\ ExtraOK(c) /\ SearchOK(c)
      /\ Index' = Index
  BY <1>1, <1>2, <1>3 DEF Shape, Index
<1>5. call'[p].pc = "find" /\ call' \in [Procs -> Calls]
  BY ListAssumption, <1>1, <1>2, <1>3, <1>4 DEF TypeOK, Calls, Places, ListAssumption, SearchOK, NoCall
<1>6. TypeOK'
  BY <1>1, <1>2, <1>3, <1>4, <1>5 DEF TypeOK
<1>7. NoFault' /\ Distinct'
  <2>1. c.at + 1 \in Index /\ c.node = order[c.at + 1]
    BY <1>1, <1>2, <1>4 DEF SearchOK, Index, Calls
  <2>2. c.node \in allocated
    BY <1>2, <1>4, <2>1 DEF MemoryOK, Kept
  <2>3. QED
    BY <1>1, <1>3, <1>4, <2>2 DEF NoFault, Distinct
<1>8. Shape(call[p])'
  <2>1. c.at \in Nat /\ c.at < n /\ c.at + 1 \in Index /\ c.node = order[c.at + 1]
    BY <1>1, <1>2, <1>4 DEF SearchOK, Index, Calls
  <2>2. next[c.node] = IF c.at + 1 < n THEN order[c.at + 1 + 1] ELSE NULL
    BY <1>2, <1>4, <2>1 DEF LinksOK, Reaches
  <2>3. /\ call'[p].at = c.at + 1 /\ call'[p].prev = c.node
        /\ call'[p].node = next[c.node] /\ call'[p].op = c.op
    BY <1>1, <1>3 DEF TypeOK, Calls
  <2>4. SearchOK(call[p])'
    BY <1>1, <1>2, <1>3, <1>5, <2>1, <2>2, <2>3 DEF SearchOK
  <2>5. QED
    BY <1>1, <1>2, <1>3, <1>4, <1>5, <2>4
    DEF Shape, FirstOK, LastOK, CountOK, LinksOK, MemoryOK, ExtraOK, Reaches, Kept, Extra
<1>9. QED
  BY <1>6, <1>7, <1>8 DEF Keeps

LEMMA AllocFailsKeeps ==
  ASSUME ListInv, NEW p \in Procs, Alone(p), AllocFails(p)
  PROVE  Keeps(p)'
<1> DEFINE c == call[p]  n == Len(order)
<1>1. /\ TypeOK /\ ~fault /\ Distinct /\ Shape(c) /\ c \in Calls /\ n \in Nat
      /\ \A i \in Index : order[i] \in Nodes
      /\ NULL \notin Nodes
  BY Before
<1>2. c.pc = "alloc" /\ exists
  BY <1>1 DEF AllocFails, At, Shape
<1>3. /\ call' = [call EXCEPT ![p].pc = "returned", ![p].result = "ERR_ALLOC"]
      /\ UNCHANGED <<exists, first, last, count, next, item, allocated, iter, order, fault>>
  BY <1>1 DEF AllocFails, Return, ends, memory
<1>4. FirstOK(c) /\ LastOK(c) /\ CountOK(c) /\ LinksOK(c) /\ MemoryOK(c) /\ ExtraOK(c) /\ SearchOK(c)
      /\ Index' = Index
  BY <1>1, <1>2, <1>3 DEF Shape, Index
<1>5. call'[p].pc = "returned" /\ call' \in [Procs -> Calls]
  BY ListAssumption, <1>1, <1>2, <1>3, <1>4 DEF TypeOK, Calls, Places, ListAssumption, SearchOK, NoCall
<1>6. TypeOK'
  BY <1>1, <1>2, <1>3, <1>4, <1>5 DEF TypeOK
<1>7. NoFault' /\ Distinct'
  BY <1>1, <1>2, <1>3, <1>4 DEF NoFault, Distinct, MemoryOK, Extra, Kept, LinksOK, SearchOK, LastOK
<1>8. Shape(call[p])'
  BY <1>1, <1>2, <1>3, <1>4, <1>5
  DEF Shape, FirstOK, LastOK, CountOK, LinksOK, MemoryOK, ExtraOK, SearchOK, Reaches, Kept, Extra
<1>9. QED
  BY <1>6, <1>7, <1>8 DEF Keeps

LEMMA LinkFirstKeeps ==
  ASSUME ListInv, NEW p \in Procs, Alone(p), LinkFirst(p)
  PROVE  Keeps(p)'
<1> DEFINE c == call[p]  n == Len(order)
<1>1. /\ TypeOK /\ ~fault /\ Distinct /\ Shape(c) /\ c \in Calls /\ n \in Nat
      /\ \A i \in Index : order[i] \in Nodes
      /\ NULL \notin Nodes
  BY Before
<1>2. c.pc = "link" /\ first = NULL /\ exists
  BY <1>1 DEF LinkFirst, At, Shape
<1>3. /\ call' = [call EXCEPT ![p].pc = "finish"] /\ first' = c.node
      /\ UNCHANGED <<exists, last, count, next, item, allocated, iter, order, fault>>
  BY <1>1 DEF LinkFirst, memory
<1>4. FirstOK(c) /\ LastOK(c) /\ CountOK(c) /\ LinksOK(c) /\ MemoryOK(c) /\ ExtraOK(c) /\ SearchOK(c)
      /\ Index' = Index
  BY <1>1, <1>2, <1>3 DEF Shape, Index
<1>5. call'[p].pc = "finish" /\ call' \in [Procs -> Calls]
  BY ListAssumption, <1>1, <1>2, <1>3, <1>4 DEF TypeOK, Calls, Places, ListAssumption, SearchOK, NoCall
<1>6. TypeOK'
  BY <1>1, <1>2, <1>3, <1>4, <1>5 DEF TypeOK, ExtraOK
<1>7. NoFault' /\ Distinct'
  BY <1>1, <1>2, <1>3, <1>4 DEF NoFault, Distinct, MemoryOK, Extra, Kept, LinksOK, SearchOK, LastOK
<1>8. Shape(call[p])'
  <2>1. order = <<>> /\ n = 0 /\ Index = {}
    BY <1>1, <1>2, <1>4, EmptySeq DEF FirstOK, Index, TypeOK
  <2>2. call'[p].node = c.node
    BY <1>1, <1>3 DEF TypeOK, Calls
  <2>3. QED
    BY <1>1, <1>2, <1>3, <1>4, <1>5, <2>1, <2>2
    DEF Shape, FirstOK, LastOK, CountOK, LinksOK, MemoryOK, ExtraOK, SearchOK, Reaches, Kept, Extra
<1>9. QED
  BY <1>6, <1>7, <1>8 DEF Keeps

LEMMA LinkNextKeeps ==
  ASSUME ListInv, NEW p \in Procs, Alone(p), LinkNext(p)
  PROVE  Keeps(p)'
<1> DEFINE c == call[p]  n == Len(order)
<1>1. /\ TypeOK /\ ~fault /\ Distinct /\ Shape(c) /\ c \in Calls /\ n \in Nat
      /\ \A i \in Index : order[i] \in Nodes
      /\ NULL \notin Nodes
  BY Before
<1>2. c.pc = "link" /\ first # NULL /\ exists
  BY <1>1 DEF LinkNext, At, Shape
<1>3. /\ call' = [call EXCEPT ![p].pc = "finish"] /\ next' = [next EXCEPT ![last] = c.node]
      /\ fault' = (last \notin allocated)
      /\ UNCHANGED <<exists, first, last, count, item, allocated, iter, order>>
  BY <1>1 DEF LinkNext, ends, Uses
<1>4. FirstOK(c) /\ LastOK(c) /\ CountOK(c) /\ LinksOK(c) /\ MemoryOK(c) /\ ExtraOK(c) /\ SearchOK(c)
      /\ Index' = Index
  BY <1>1, <1>2, <1>3 DEF Shape, Index
<1>a. n # 0 /\ n \in Index /\ last = order[n] /\ order # <<>>
  <2>1. order # <<>>
    BY <1>2, <1>4 DEF FirstOK, Reaches
  <2>2. n # 0
    BY <1>1, <2>1, EmptySeq DEF TypeOK
  <2>3. QED
    BY <1>1, <1>2, <1>4, <2>1, <2>2 DEF LastOK, Index
<1>5. call'[p].pc = "finish" /\ call' \in [Procs -> Calls]
  BY ListAssumption, <1>1, <1>2, <1>3, <1>4 DEF TypeOK, Calls, Places, ListAssumption, SearchOK, NoCall
<1>6. TypeOK'
  BY <1>1, <1>2, <1>3, <1>4, <1>5 DEF TypeOK, ExtraOK
<1>7. NoFault' /\ Distinct'
  BY <1>1, <1>2, <1>3, <1>4, <1>a DEF NoFault, Distinct, MemoryOK, Kept
<1>8. Shape(call[p])'
  <2>1. call'[p].node = c.node /\ c.node \in Nodes /\ last \in Nodes /\ c.node # last
    BY <1>1, <1>2, <1>3, <1>4, <1>a DEF TypeOK, Calls, ExtraOK
  <2>2. LinksOK(call[p])'
    <3>1. \A i \in Index : i # n => order[i] # last
      BY <1>1, <1>a DEF Distinct
    <3>2. \A i \in Index : next'[order[i]] = IF i = n THEN c.node ELSE next[order[i]]
      BY <1>1, <1>3, <1>a, <3>1 DEF TypeOK
    <3>3. QED
      BY <1>1, <1>2, <1>3, <1>4, <1>5, <2>1, <3>2 DEF LinksOK, Reaches, Index
  <2>3. ExtraOK(call[p])'
    BY <1>1, <1>2, <1>3, <1>4, <1>5, <2>1 DEF ExtraOK, TypeOK
  <2>4. QED
    BY <1>1, <1>2, <1>3, <1>4, <1>5, <1>a, <2>1, <2>2, <2>3
    DEF Shape, FirstOK, LastOK, CountOK, MemoryOK, SearchOK, Reaches, Kept, Extra
<1>9. QED
  BY <1>6, <1>7, <1>8 DEF Keeps

LEMMA ClearNodeKeeps ==
  ASSUME ListInv, NEW p \in Procs, Alone(p), ClearNode(p)
  PROVE  Keeps(p)'
<1> DEFINE c == call[p]  n == Len(order)
<1>1. /\ TypeOK /\ ~fault /\ Distinct /\ Shape(c) /\ c \in Calls /\ n \in Nat
      /\ \A i \in Index : order[i] \in Nodes
      /\ NULL \notin Nodes
  BY Before
<1>2. c.pc = "clear" /\ c.node # NULL /\ exists
  BY <1>1 DEF ClearNode, At, Shape
<1>3. /\ call' = [call EXCEPT ![p].node = next[c.node], ![p].at = c.at + 1]
      /\ allocated' = allocated \ {c.node} /\ fault' = (c.node \notin allocated)
      /\ UNCHANGED <<exists, first, last, count, next, item, iter, order>>
  BY <1>1 DEF ClearNode, Uses, Freed, ends, TypeOK, Calls
<1>4. FirstOK(c) /\ LastOK(c) /\ CountOK(c) /\ LinksOK(c) /\ MemoryOK(c) /\ ExtraOK(c) /\ SearchOK(c)
      /\ Index' = Index
  BY <1>1, <1>2, <1>3 DEF Shape, Index
<1>a. c.at \in Nat /\ c.at < n /\ c.at + 1 \in Index /\ c.node = order[c.at + 1] /\ c.node \in Nodes
  BY <1>1, <1>2, <1>4 DEF SearchOK, Index, Calls
<1>5. call'[p].pc = "clear" /\ call' \in [Procs -> Calls]
  BY ListAssumption, <1>1, <1>2, <1>3, <1>4 DEF TypeOK, Calls, Places, ListAssumption, SearchOK, NoCall
<1>6. TypeOK'
  BY <1>1, <1>2, <1>3, <1>4, <1>5 DEF TypeOK
<1>7. NoFault' /\ Distinct'
  <2>1. c.node \in allocated
    BY <1>1, <1>2, <1>4, <1>a DEF MemoryOK, Kept
  <2>2. QED
    BY <1>1, <1>3, <1>4, <2>1 DEF NoFault, Distinct
<1>8. Shape(call[p])'
  <2>1. next[c.node] = IF c.at + 1 < n THEN order[c.at + 1 + 1] ELSE NULL
    BY <1>2, <1>4, <1>a DEF LinksOK, Reaches
  <2>2. call'[p].at = c.at + 1 /\ call'[p].node = next[c.node] /\ call'[p].op = c.op
    BY <1>1, <1>3 DEF TypeOK, Calls
  <2>3. SearchOK(call[p])'
    BY <1>1, <1>2, <1>3, <1>4, <1>5, <1>a, <2>1, <2>2 DEF SearchOK
  <2>4. MemoryOK(call[p])'
    <3>1. allocated = {order[i] : i \in c.at + 1 .. n}
      BY <1>2, <1>4 DEF MemoryOK, Kept, Extra
    <3>2. {order[i] : i \in c.at + 1 .. n} \ {c.node} = {order[i] : i \in c.at + 1 + 1 .. n}
      <4>1. \A i \in c.at + 1 .. n : order[i] = c.node <=> i = c.at + 1
        BY <1>1, <1>a DEF Distinct, Index
      <4>2. \A i : i \in c.at + 1 + 1 .. n <=> i \in c.at + 1 .. n /\ i # c.at + 1
        BY <1>1, <1>a
      <4>3. QED
        BY <4>1, <4>2
    <3>3. QED
      BY <1>3, <1>5, <2>2, <3>1, <3>2 DEF MemoryOK, Kept, Extra
  <2>5. QED
    BY <1>1, <1>2, <1>3, <1>4, <1>5, <2>3, <2>4
    DEF Shape, FirstOK, LastOK, CountOK, LinksOK, ExtraOK, Reaches
<1>9. QED
  BY <1>6, <1>7, <1>8 DEF Keeps

LEMMA AllocNodeKeeps ==
  ASSUME ListInv, NEW p \in Procs, Alone(p), AllocNode(p)
  PROVE  Keeps(p)'
<1> DEFINE c == call[p]  n == Len(order)
<1>1. /\ TypeOK /\ ~fault /\ Distinct /\ Shape(c) /\ c \in Calls /\ n \in Nat
      /\ \A i \in Index : order[i] \in Nodes
      /\ NULL \notin Nodes
  BY Before
<1>2. c.pc = "alloc" /\ exists
  BY <1>1 DEF AllocNode, At, Shape
<1>3. PICK k \in Nodes \ allocated :
        /\ call' = [call EXCEPT ![p].pc = "link", ![p].node = k]
        /\ allocated' = allocated \cup {k}
        /\ next' = [next EXCEPT ![k] = NULL] /\ item' = [item EXCEPT ![k] = c.wanted]
        /\ UNCHANGED <<exists, first, last, count, iter, order, fault>>
  BY <1>1 DEF AllocNode, ends
<1>4. FirstOK(c) /\ LastOK(c) /\ CountOK(c) /\ LinksOK(c) /\ MemoryOK(c) /\ ExtraOK(c) /\ SearchOK(c)
      /\ Index' = Index
  BY <1>1, <1>2, <1>3 DEF Shape, Index
<1>5. call'[p].pc = "link" /\ call'[p].node = k /\ call' \in [Procs -> Calls]
  BY <1>1, <1>2, <1>3 DEF TypeOK, Calls, Places
<1>6. TypeOK'
  BY <1>1, <1>2, <1>3, <1>4, <1>5 DEF TypeOK, Calls
<1>7. NoFault' /\ Distinct'
  BY <1>1, <1>3, <1>4 DEF NoFault, Distinct
<1>8. Shape(call[p])'
  <2>1. allocated = {order[i] : i \in Index}
    BY <1>2, <1>4 DEF MemoryOK, Kept, Extra
  <2>2. \A i \in Index : order[i] # k /\ next'[order[i]] = next[order[i]]
    BY <1>1, <1>3, <2>1 DEF TypeOK
  <2>3. MemoryOK(call[p])'
    BY <1>3, <1>4, <1>5, <2>1 DEF MemoryOK, Kept, Extra
  <2>4. ExtraOK(call[p])'
    BY <1>1, <1>3, <1>4, <1>5, <2>2 DEF ExtraOK, TypeOK
  <2>5. LinksOK(call[p])'
    BY <1>2, <1>3, <1>4, <1>5, <2>2 DEF LinksOK, Reaches
  <2>6. FirstOK(call[p])' /\ LastOK(call[p])' /\ CountOK(call[p])' /\ SearchOK(call[p])'
    BY <1>2, <1>3, <1>4, <1>5 DEF FirstOK, LastOK, CountOK, SearchOK, Reaches
  <2>7. QED
    BY <1>2, <1>3, <2>3, <2>4, <2>5, <2>6 DEF Shape
<1>9. QED
  BY <1>6, <1>7, <1>8 DEF Keeps

LEMMA FinishAddKeeps ==
  ASSUME ListInv, NEW p \in Procs, Alone(p), FinishAdd(p)
  PROVE  Keeps(p)'
<1> DEFINE c == call[p]  n == Len(order)
<1>1. /\ TypeOK /\ ~fault /\ Distinct /\ Shape(c) /\ c \in Calls /\ n \in Nat
      /\ \A i \in Index : order[i] \in Nodes
      /\ NULL \notin Nodes
  BY Before
<1>2. c.pc = "finish" /\ exists
  BY <1>1 DEF FinishAdd, At, Shape
<1>3. /\ call' = [call EXCEPT ![p].pc = "returned", ![p].result = "OK"]
      /\ last' = c.node /\ count' = count + 1 /\ order' = Append(order, c.node)
      /\ UNCHANGED <<exists, first, next, item, allocated, iter, fault>>
  BY DEF FinishAdd, Return, memory
<1>4. /\ FirstOK(c) /\ LastOK(c) /\ CountOK(c) /\ LinksOK(c) /\ MemoryOK(c) /\ ExtraOK(c)
      /\ c.node \in Nodes /\ next[c.node] = NULL /\ \A i \in 1 .. n : order[i] # c.node
  BY <1>1, <1>2 DEF Shape, ExtraOK, Index
<1>5. call'[p].pc = "returned" /\ call' \in [Procs -> Calls]
  BY <1>1, <1>3 DEF TypeOK, Calls, Places
<1>a. /\ order' \in Seq(Nodes) /\ Len(order') = n + 1 /\ order'[n + 1] = c.node
      /\ \A i \in 1 .. n : order'[i] = order[i]
      /\ order' # <<>>
  <2>1. order \in Seq(Nodes)
    BY <1>1 DEF TypeOK
  <2>2. QED
    BY <1>3, <1>4, <2>1, AppendProperties, EmptySeq
<1>b. order = <<>> <=> n = 0
  BY <1>1, EmptySeq DEF TypeOK
<1>6. TypeOK'
  BY <1>1, <1>3, <1>4, <1>5, <1>a DEF TypeOK, CountOK
<1>7. NoFault' /\ Distinct'
  <2>1. ASSUME NEW i \in 1 .. n + 1, NEW j \in 1 .. n + 1, order'[i] = order'[j] PROVE i = j
    <3>1. CASE i # n + 1 /\ j # n + 1
      BY <1>1, <1>a, <2>1, <3>1 DEF Distinct, Index
    <3>2. CASE i = n + 1 /\ j # n + 1
      BY <1>1, <1>4, <1>a, <2>1, <3>2
    <3>3. CASE i # n + 1 /\ j = n + 1
      BY <1>1, <1>4, <1>a, <2>1, <3>3
    <3>4. QED
      BY <3>1, <3>2, <3>3
  <2>2. QED
    BY <1>1, <1>3, <1>a, <2>1 DEF NoFault, Distinct, Index
<1>8. Shape(call[p])'
  <2>1. FirstOK(call[p])'
    BY <1>1, <1>2, <1>3, <1>4, <1>5, <1>a, <1>b DEF FirstOK, Reaches
  <2>2. LastOK(call[p])' /\ CountOK(call[p])'
    BY <1>1, <1>2, <1>3, <1>4, <1>5, <1>a DEF LastOK, CountOK
  <2>3. LinksOK(call[p])'
    <3>1. ASSUME NEW i \in 1 .. n + 1
          PROVE  next[order'[i]] = IF i < n + 1 THEN order'[i + 1] ELSE NULL
      <4>1. CASE i < n
        BY <1>1, <1>2, <1>4, <1>a, <4>1 DEF LinksOK, Index
      <4>2. CASE i = n
        BY <1>1, <1>2, <1>4, <1>a, <4>2 DEF LinksOK, Index, Reaches
      <4>3. CASE i = n + 1
        BY <1>1, <1>4, <1>a, <4>3
      <4>4. QED
        BY <1>1, <4>1, <4>2, <4>3
    <3>2. QED
      BY <1>3, <1>5, <1>a, <3>1 DEF LinksOK, Index, Reaches
  <2>4. MemoryOK(call[p])'
    <3>1. allocated = {order[i] : i \in 1 .. n} \cup {c.node}
      BY <1>2, <1>4 DEF MemoryOK, Kept, Extra, Index
    <3>2. {order'[i] : i \in 1 .. n + 1} = {order[i] : i \in 1 .. n} \cup {c.node}
      <4>1. \A i \in 1 .. n + 1 : i \in 1 .. n \/ i = n + 1
        BY <1>1
      <4>2. \A i \in 1 .. n : i \in 1 .. n + 1
        BY <1>1
      <4>3. n + 1 \in 1 .. n + 1
        BY <1>1
      <4>4. QED
        BY <1>a, <4>1, <4>2, <4>3
    <3>3. QED
      BY <1>3, <1>5, <1>a, <3>1, <3>2 DEF MemoryOK, Kept, Extra, Index
  <2>5. ExtraOK(call[p])' /\ SearchOK(call[p])'
    BY <1>5 DEF ExtraOK, SearchOK
  <2>6. QED
    BY <1>2, <1>3, <2>1, <2>2, <2>3, <2>4, <2>5 DEF Shape
<1>9. QED
  BY <1>6, <1>7, <1>8 DEF Keeps

LEMMA ClearedKeeps ==
  ASSUME ListInv, NEW p \in Procs, Alone(p), Cleared(p)
  PROVE  Keeps(p)'
<1> DEFINE c == call[p]  n == Len(order)
<1>1. /\ TypeOK /\ ~fault /\ Distinct /\ Shape(c) /\ c \in Calls /\ n \in Nat
      /\ \A i \in Index : order[i] \in Nodes
      /\ NULL \notin Nodes
  BY Before
<1>2. c.pc = "clear" /\ c.node = NULL /\ exists
  BY <1>1 DEF Cleared, At, Shape
<1>3. /\ call' = [call EXCEPT ![p].pc = "returned", ![p].result = "none"]
      /\ exists' = (c.op = "clear") /\ order' = <<>>
      /\ UNCHANGED <<first, last, count, next, item, allocated, iter, fault>>
  BY DEF Cleared, Return, ends, memory
<1>4. MemoryOK(c) /\ SearchOK(c)
  BY <1>1, <1>2 DEF Shape
<1>a. exists' = FALSE
  BY <1>2, <1>3, <1>4 DEF SearchOK
<1>b. allocated = {}
  <2>1. c.at \in Nat /\ ~(c.at < n)
    BY <1>1, <1>2, <1>4 DEF SearchOK, Calls, Index
  <2>2. c.at + 1 .. n = {}
    BY <1>1, <2>1
  <2>3. QED
    BY <1>2, <1>4, <2>2 DEF MemoryOK, Kept, Extra
<1>5. call'[p].pc = "returned" /\ call' \in [Procs -> Calls]
  BY <1>1, <1>3 DEF TypeOK, Calls, Places
<1>6. TypeOK'
  BY <1>1, <1>3, <1>5, <1>a, EmptySeq DEF TypeOK
<1>7. NoFault' /\ Distinct'
  BY <1>1, <1>3, EmptySeq DEF NoFault, Distinct, Index
<1>8. Shape(call[p])'
  BY <1>3, <1>5, <1>a, <1>b DEF Shape
<1>9. QED
  BY <1>6, <1>7, <1>8 DEF Keeps

-----------------------------------------------------------------------------
(* The beginning and the end of a call, slist_new, and the iterators.      *)

LEMMA IdleShape ==
  ASSUME ListInv, NEW p \in Procs, Alone(p), call[p].pc = "idle"
  PROVE  /\ \A q \in Procs : call[q].pc = "idle"
         /\ exists => LET n == Len(order) IN
              /\ first = IF n = 0 THEN NULL ELSE order[1]
              /\ last = IF n = 0 THEN NULL ELSE order[n]
              /\ \A i \in 1 .. n : next[order[i]] = IF i = n THEN NULL ELSE order[i + 1]
              /\ allocated = {order[i] : i \in 1 .. n}
              /\ count = n
         /\ ~exists => order = <<>> /\ allocated = {}
<1>1. /\ TypeOK /\ Shape(call[p]) /\ Len(order) \in Nat
  BY Before
<1>2. order = <<>> <=> Len(order) = 0
  BY <1>1, EmptySeq DEF TypeOK
<1>3. \A i \in Index : i < Len(order) <=> i # Len(order)
  BY <1>1 DEF Index
<1>4. QED
  BY <1>1, <1>2, <1>3
  DEF Alone, Shape, FirstOK, LastOK, CountOK, LinksOK, MemoryOK, Reaches, Index, Kept, Extra

LEMMA BeginKeeps ==
  ASSUME ListInv, NEW p \in Procs, Alone(p),
         NEW o, NEW x \in Items \cup {NULL}, NEW i \in Indices, NEW k, NEW place,
         Begin(p, o, x, i, k, place),
         \/ place = "alloc" /\ k = NULL
         \/ place = "find" /\ k = first
         \/ place = "clear" /\ k = first /\ o = "delete"
  PROVE  Keeps(p)' /\ \A q \in Procs \ {p} : call'[q] = call[q]
<1> DEFINE c == call[p]  n == Len(order)  d == call'[p]
<1>1. /\ TypeOK /\ ~fault /\ Distinct /\ Shape(c) /\ c \in Calls /\ n \in Nat
      /\ \A j \in Index : order[j] \in Nodes
      /\ NULL \notin Nodes
  BY Before
<1>2. c.pc = "idle" /\ exists /\ o \in Ops
  BY DEF Begin, At
<1>3. /\ UNCHANGED <<exists, first, last, count, next, item, allocated, iter, order, fault>>
      /\ \A q \in Procs \ {p} : call'[q] = call[q]
      /\ Index' = Index
  BY <1>1 DEF Begin, ends, memory, TypeOK, Index
<1>4. /\ FirstOK(c) /\ LastOK(c) /\ CountOK(c) /\ LinksOK(c) /\ MemoryOK(c)
  BY <1>1, <1>2 DEF Shape
<1>a. /\ d.pc = place /\ d.op = o /\ d.wanted = x /\ d.index = i /\ d.node = k
      /\ d.prev = NULL /\ d.at = 0 /\ d.result = "none"
      /\ d = [NoCall EXCEPT !.pc = place, !.op = o, !.wanted = x, !.index = i, !.node = k]
      /\ call' = [call EXCEPT ![p] = d]
  BY <1>1 DEF Begin, TypeOK, NoCall
<1>b. place \in {"alloc", "find", "clear"}
  OBVIOUS
<1>5. call' \in [Procs -> Calls]
  <2>1. d \in Calls
    <3>1. k \in Nodes \cup {NULL} /\ place \in Places
      BY <1>1 DEF TypeOK, Places
    <3>2. QED
      BY <1>2, <1>a, <3>1, ListAssumption DEF Calls, NoCall, ListAssumption
  <2>2. QED
    BY <1>1, <1>a, <2>1 DEF TypeOK
<1>6. TypeOK'
  BY <1>1, <1>3, <1>5 DEF TypeOK
<1>7. NoFault' /\ Distinct'
  BY <1>1, <1>3 DEF NoFault, Distinct
<1>8. Shape(call[p])'
  <2>1. SearchOK(call[p])'
    <3>1. order = <<>> <=> n = 0
      BY <1>1, EmptySeq DEF TypeOK
    <3>2. first = IF 0 < n THEN order[1] ELSE NULL
      BY <1>1, <1>2, <1>4, <3>1 DEF FirstOK, Reaches
    <3>3. QED
      BY <1>1, <1>3, <1>a, <3>2 DEF SearchOK
  <2>2. MemoryOK(call[p])'
    <3>1. 0 + 1 .. n = 1 .. n
      OBVIOUS
    <3>2. QED
      BY <1>2, <1>3, <1>4, <1>a, <1>b, <3>1 DEF MemoryOK, Kept, Extra, Index
  <2>3. FirstOK(call[p])' /\ LastOK(call[p])' /\ CountOK(call[p])' /\ LinksOK(call[p])'
    BY <1>2, <1>3, <1>4, <1>a, <1>b DEF FirstOK, LastOK, CountOK, LinksOK, Reaches
  <2>4. ExtraOK(call[p])'
    BY <1>a, <1>b DEF ExtraOK
  <2>5. QED
    BY <1>2, <1>3, <2>1, <2>2, <2>3, <2>4 DEF Shape
<1>9. QED
  BY <1>3, <1>6, <1>7, <1>8 DEF Keeps

LEMMA EndKeeps ==
  ASSUME ListInv, NEW p \in Procs, Alone(p), End(p)
  PROVE  Keeps(p)'
<1> DEFINE c == call[p]
<1>1. /\ TypeOK /\ ~fault /\ Distinct /\ Shape(c) /\ c \in Calls
  BY Before
<1>2. c.pc = "returned"
  BY DEF End, At
<1>3. /\ UNCHANGED <<exists, first, last, count, next, item, allocated, iter, order, fault>>
      /\ Index' = Index /\ call' = [call EXCEPT ![p] = NoCall]
  BY DEF End, ends, memory, Index
<1>4. call' \in [Procs -> Calls] /\ call'[p].pc = "idle"
  BY <1>1, <1>3, NoCallTyped DEF TypeOK, NoCall
<1>5. TypeOK' /\ NoFault' /\ Distinct'
  BY <1>1, <1>3, <1>4 DEF TypeOK, NoFault, Distinct
<1>6. Shape(call[p])'
  BY <1>1, <1>2, <1>3, <1>4
  DEF Shape, FirstOK, LastOK, CountOK, LinksOK, MemoryOK, ExtraOK, SearchOK, Reaches, Kept, Extra
<1>7. QED
  BY <1>5, <1>6 DEF Keeps

LEMMA NewKeeps ==
  ASSUME ListInv, NEW p \in Procs, Alone(p), slist_new(p)
  PROVE  Keeps(p)'
<1> DEFINE c == call[p]
<1>1. /\ TypeOK /\ ~fault /\ Distinct /\ Shape(c) /\ c \in Calls
  BY Before
<1>2. c.pc = "idle" /\ ~exists
  BY DEF slist_new, At
<1>3. /\ exists' = TRUE /\ first' = NULL /\ last' = NULL /\ count' = 0
      /\ UNCHANGED <<next, item, allocated, call, iter, order, fault>>
      /\ Index' = Index
  BY DEF slist_new, memory, Index
<1>4. order = <<>> /\ Len(order) = 0 /\ Index = {} /\ allocated = {}
  BY <1>1, <1>2, EmptySeq DEF Shape, Index
<1>5. TypeOK' /\ NoFault' /\ Distinct'
  BY <1>1, <1>2, <1>3 DEF TypeOK, NoFault, Distinct
<1>6. Shape(call[p])'
  BY <1>2, <1>3, <1>4
  DEF Shape, FirstOK, LastOK, CountOK, LinksOK, MemoryOK, ExtraOK, SearchOK, Reaches, Kept, Extra
<1>7. QED
  BY <1>5, <1>6 DEF Keeps

LEMMA IterateKeeps ==
  ASSUME IInv, NEW p \in Procs, Alone(p), Iterate(p)
  PROVE  Keeps(p)' /\ ItersOK' /\ call' = call
<1> DEFINE c == call[p]  n == Len(order)
<1>1. /\ TypeOK /\ ~fault /\ Distinct /\ ItersOK /\ Shape(c) /\ c \in Calls /\ n \in Nat
      /\ \A i \in Index : order[i] \in Nodes
      /\ NULL \notin Nodes
  BY Before DEF IInv
<1>2. /\ c.pc = "idle" /\ exists
      /\ UNCHANGED <<exists, first, last, count, next, item, allocated, call, order>>
      /\ Index' = Index
  BY <1>1
  DEF Iterate, slist_iter_new, slist_iter_next, slist_iter_delete, At, ends, memory, Index, ItersOK
<1>3. /\ \A q \in Procs : call[q].pc = "idle"
      /\ first = IF n = 0 THEN NULL ELSE order[1]
      /\ \A i \in 1 .. n : next[order[i]] = IF i = n THEN NULL ELSE order[i + 1]
      /\ allocated = {order[i] : i \in 1 .. n}
  BY <1>2, IdleShape DEF IInv
<1>4. Shape(call[p])'
  BY <1>1, <1>2
  DEF Shape, FirstOK, LastOK, CountOK, LinksOK, MemoryOK, ExtraOK, SearchOK, Reaches, Kept, Extra, LastWithout
<1>5. CASE slist_iter_new(p)
  <2>1. iter' = [iter EXCEPT ![p] = Started(first)] /\ fault' = fault
    BY <1>5 DEF slist_iter_new
  <2>2. Started(first) = [live |-> TRUE, next |-> first, index |-> 0]
    BY DEF Started
  <2>3. TypeOK' /\ NoFault' /\ Distinct'
    BY <1>1, <1>2, <2>1, <2>2 DEF TypeOK, NoFault, Distinct
  <2>4. ItersOK'
    BY <1>1, <1>2, <1>3, <2>1, <2>2 DEF ItersOK, TypeOK
  <2>5. QED
    BY <1>2, <1>4, <2>3, <2>4 DEF Keeps
<1>6. CASE slist_iter_next(p)
  <2> DEFINE it == iter[p]
  <2>1. /\ iter' = [iter EXCEPT ![p] = Moved(it)] /\ fault' = (it.next \notin allocated)
        /\ it.live /\ it.next # NULL
    BY <1>1, <1>6 DEF slist_iter_next, Uses, TypeOK
  <2>2. /\ it \in [live : BOOLEAN, next : Nodes \cup {NULL}, index : Nat]
        /\ it.index \in Nat /\ it.index < n /\ it.next = order[it.index + 1]
    BY <1>1, <2>1 DEF ItersOK, TypeOK
  <2>3. it.index + 1 \in 1 .. n
    BY <1>1, <2>2
  <2>4. /\ it.next \in allocated
        /\ next[it.next] = IF it.index + 1 = n THEN NULL ELSE order[it.index + 1 + 1]
    BY <1>3, <2>2, <2>3
  <2>5. /\ Moved(it) \in [live : BOOLEAN, next : Nodes \cup {NULL}, index : Nat]
        /\ Moved(it).live /\ Moved(it).next = next[it.next] /\ Moved(it).index = it.index + 1
    <3>1. it.next \in Nodes /\ next[it.next] \in Nodes \cup {NULL}
      BY <1>1, <2>1, <2>2 DEF TypeOK
    <3>2. Moved(it) = [it EXCEPT !.next = next[it.next], !.index = it.index + 1]
      BY DEF Moved
    <3>3. it.index + 1 \in Nat
      BY <2>2
    <3>4. QED
      BY <2>1, <2>2, <3>1, <3>2, <3>3
  <2>6. TypeOK' /\ NoFault' /\ Distinct'
    BY <1>1, <1>2, <2>1, <2>2, <2>4, <2>5 DEF TypeOK, NoFault, Distinct
  <2>7. ItersOK'
    <3>1. /\ iter'[p].live /\ iter'[p].next = next[it.next] /\ iter'[p].index = it.index + 1
          /\ \A q \in Procs \ {p} : iter'[q] = iter[q]
      BY <1>1, <2>1, <2>5 DEF TypeOK
    <3>2. iter'[p].next # NULL =>
            iter'[p].index < n /\ iter'[p].next = order[iter'[p].index + 1]
      BY <1>1, <2>2, <2>4, <3>1
    <3>3. QED
      BY <1>1, <1>2, <1>3, <3>1, <3>2 DEF ItersOK
  <2>8. QED
    BY <1>2, <1>4, <2>6, <2>7 DEF Keeps
<1>7. CASE slist_iter_delete(p)
  <2>1. iter' = [iter EXCEPT ![p] = NoIter] /\ fault' = fault
    BY <1>7 DEF slist_iter_delete
  <2>2. TypeOK' /\ NoFault' /\ Distinct'
    BY <1>1, <1>2, <2>1, NoCallTyped DEF TypeOK, NoFault, Distinct
  <2>3. ItersOK'
    BY <1>1, <1>2, <2>1 DEF ItersOK, TypeOK, NoIter
  <2>4. QED
    BY <1>2, <1>4, <2>2, <2>3 DEF Keeps
<1>8. QED
  BY <1>5, <1>6, <1>7 DEF Iterate

-----------------------------------------------------------------------------
(* No iterator is live during a removal, and otherwise the list grows only. *)

Frees(q) == call[q].pc \in {"find", "dispose", "clear"}

LEMMA ItersStay ==
  ASSUME IInv, NEW p \in Procs, iter' = iter, order' = order, exists => exists',
         \A q \in Procs : Frees(q)' => Frees(q) \/ NoIterator
  PROVE  ItersOK'
BY DEF IInv, ItersOK, NoIterator, Frees

LEMMA NoneLive ==
  ASSUME IInv, NEW p \in Procs, Frees(p), iter' = iter
  PROVE  ItersOK'
BY DEF IInv, ItersOK, Frees

LEMMA ItersKeep ==
  ASSUME IInv, NEW p \in Procs,
         \/ slist_new(p) \/ slist_add(p)
         \/ NoIterator /\ (Removal(p) \/ slist_clear(p))
         \/ AddStep(p) \/ RemoveStep(p) \/ ClearStep(p) \/ End(p)
  PROVE  ItersOK'
<1>1. TypeOK /\ call \in [Procs -> Calls]
  BY DEF IInv, ListInv, TypeOK
<1>2. CASE slist_new(p)
  BY <1>2, ItersStay DEF slist_new, Frees
<1>3. CASE slist_add(p) \/ End(p)
  <2>1. iter' = iter /\ order' = order /\ exists' = exists
    BY <1>3 DEF slist_add, Begin, End
  <2>2. \A q \in Procs : Frees(q)' => Frees(q)
    <3>1. CASE slist_add(p)
      <4>1. PICK record : call' = [call EXCEPT ![p] = record] /\ record.pc = "alloc"
        <5>1. PICK x : Begin(p, "add", x, 0, NULL, "alloc")
          BY ONLY <3>1 DEF slist_add
        <5> DEFINE r == [NoCall EXCEPT !.pc = "alloc", !.op = "add", !.wanted = x, !.index = 0,
                                       !.node = NULL]
        <5>2. call' = [call EXCEPT ![p] = r]
          BY ONLY <5>1 DEF Begin
        <5>3. r.pc = "alloc"
          BY ONLY TRUE DEF NoCall
        <5> HIDE DEF r
        <5>4. QED
          BY ONLY <5>2, <5>3
      <4>2. ASSUME NEW q \in Procs, call'[q].pc \in {"find", "dispose", "clear"}
            PROVE  call[q].pc \in {"find", "dispose", "clear"}
        BY ONLY <1>1, <4>1, <4>2
      <4>3. QED
        BY ONLY <4>2 DEF Frees
    <3>2. CASE End(p)
      BY <1>1, <3>2 DEF End, NoCall, Frees
    <3>3. QED
      BY <1>3, <3>1, <3>2
  <2>3. QED
    BY <2>1, <2>2, ItersStay
<1>4. CASE NoIterator /\ (Removal(p) \/ slist_clear(p))
  <2>1. iter' = iter /\ order' = order /\ exists' = exists
    BY <1>4 DEF Removal, slist_clear, Begin
  <2>2. QED
    BY <1>4, <2>1, ItersStay
<1>5. CASE RemoveStep(p) \/ ClearStep(p)
  <2>1. Frees(p) /\ iter' = iter
    BY <1>5
    DEF RemoveStep, NotFound, Advance, Unlink, Dispose, ClearStep, ClearNode, Cleared, At, Frees
  <2>2. QED
    BY <2>1, NoneLive
<1>6. CASE AllocNode(p) \/ AllocFails(p) \/ LinkFirst(p) \/ LinkNext(p)
  <2>1. iter' = iter /\ order' = order /\ exists' = exists
    BY <1>6 DEF AllocNode, AllocFails, LinkFirst, LinkNext
  <2>2. \A q \in Procs : call'[q].pc = call[q].pc \/ call'[q].pc \in {"link", "finish", "returned"}
    BY <1>1, <1>6 DEF AllocNode, AllocFails, LinkFirst, LinkNext, Return, Calls
  <2>3. \A q \in Procs : Frees(q)' => Frees(q)
    BY <2>2 DEF Frees
  <2>4. QED
    BY <2>1, <2>3, ItersStay
<1>7. CASE FinishAdd(p)
  <2>1. /\ iter' = iter /\ exists' = exists /\ order' = Append(order, call[p].node)
        /\ \A q \in Procs : Frees(q)' => Frees(q)
    BY <1>1, <1>7 DEF FinishAdd, Return, Frees
  <2>2. /\ Len(order) \in Nat /\ Len(order') = Len(order) + 1
        /\ \A i \in 1 .. Len(order) : order'[i] = order[i]
    <3>1. order \in Seq(Nodes \cup {call[p].node})
      BY <1>1, SeqMonotonic DEF TypeOK
    <3>2. QED
      BY <2>1, <3>1, AppendProperties, LenProperties
  <2>3. ASSUME NEW q \in Procs, iter[q].next # NULL
        PROVE  iter[q].index < Len(order') /\ iter[q].next = order'[iter[q].index + 1]
    <3>1. iter[q].index \in Nat /\ iter[q].index < Len(order)
          /\ iter[q].next = order[iter[q].index + 1]
      BY <1>1, <2>3 DEF IInv, ItersOK, TypeOK
    <3>2. QED
      BY <2>2, <3>1
  <2>4. QED
    BY <2>1, <2>3 DEF IInv, ItersOK, Frees
<1>8. QED
  BY <1>2, <1>3, <1>4, <1>5, <1>6, <1>7 DEF AddStep

-----------------------------------------------------------------------------
(* All steps, and the theorems.                                            *)

\* Whatever the iterators do, a step of a call keeps the list in shape.
LEMMA CallKeeps ==
  ASSUME ~AssertsEnabled, "clear" \notin Ops, ListInv, NEW p \in Procs, Alone(p),
         \/ slist_new(p) \/ slist_add(p) \/ Removal(p) \/ slist_clear(p)
         \/ AddStep(p) \/ RemoveStep(p) \/ ClearStep(p) \/ End(p)
  PROVE  Keeps(p)' /\ \A q \in Procs \ {p} : call'[q] = call[q]
<1>1. call \in [Procs -> Calls]
  BY DEF ListInv, TypeOK
<1>2. CASE slist_new(p)
  <2>1. call' = call
    BY <1>2 DEF slist_new
  <2>2. QED
    BY <1>2, <2>1, NewKeeps
<1>3. CASE slist_add(p)
  <2>1. PICK x \in Items : Begin(p, "add", x, 0, NULL, "alloc")
    BY <1>3 DEF slist_add
  <2>2. QED
    BY <2>1, BeginKeeps, ListAssumption DEF ListAssumption
<1>4. CASE Removal(p)
  <2>1. CASE \E x \in Items : Begin(p, "remove", x, 0, first, "find")
    BY <2>1, BeginKeeps, ListAssumption DEF ListAssumption
  <2>2. CASE \E i \in Indices : Begin(p, "remove_at", NULL, i, first, "find")
    BY <2>2, BeginKeeps
  <2>3. QED
    BY <1>4, <2>1, <2>2 DEF Removal
<1>5. CASE slist_clear(p)
  <2>1. PICK o \in {"clear", "delete"} : Begin(p, o, NULL, 0, first, "clear")
    BY <1>5 DEF slist_clear
  <2>2. o = "delete"
    BY <2>1 DEF Begin
  <2>3. QED
    BY <2>1, <2>2, BeginKeeps, ListAssumption DEF ListAssumption
<1>6. CASE AddStep(p)
  <2>1. \A q \in Procs \ {p} : call'[q] = call[q]
    BY <1>1, <1>6 DEF AddStep, AllocNode, AllocFails, LinkFirst, LinkNext, FinishAdd, Return
  <2>2. QED
    BY <1>6, <2>1, AllocNodeKeeps, AllocFailsKeeps, LinkFirstKeeps, LinkNextKeeps, FinishAddKeeps
    DEF AddStep
<1>7. CASE RemoveStep(p)
  <2>1. \A q \in Procs \ {p} : call'[q] = call[q]
    BY <1>1, <1>7 DEF RemoveStep, NotFound, Advance, Unlink, Dispose, Return
  <2>2. QED
    BY <1>7, <2>1, NotFoundKeeps, AdvanceKeeps, UnlinkKeeps, DisposeKeeps DEF RemoveStep
<1>8. CASE ClearStep(p)
  <2>1. \A q \in Procs \ {p} : call'[q] = call[q]
    BY <1>1, <1>8 DEF ClearStep, ClearNode, Cleared, Return
  <2>2. QED
    BY <1>8, <2>1, ClearNodeKeeps, ClearedKeeps DEF ClearStep
<1>9. CASE End(p)
  <2>1. \A q \in Procs \ {p} : call'[q] = call[q]
    BY <1>1, <1>9 DEF End
  <2>2. QED
    BY <1>9, <2>1, EndKeeps
<1>10. QED
  BY <1>2, <1>3, <1>4, <1>5, <1>6, <1>7, <1>8, <1>9

LEMMA StepPreserves ==
  ASSUME ~AssertsEnabled, "clear" \notin Ops, IInv, SerialNext
  PROVE  IInv'
<1>1. PICK p \in Procs :
        /\ Alone(p)
        /\ \/ slist_new(p) \/ slist_add(p)
           \/ NoIterator /\ (Removal(p) \/ slist_clear(p))
           \/ AddStep(p) \/ RemoveStep(p) \/ ClearStep(p) \/ Iterate(p) \/ End(p)
  BY DEF SerialNext
<1>2. ListInv
  BY DEF IInv
<1>3. Keeps(p)' /\ ItersOK' /\ \A q \in Procs \ {p} : call'[q] = call[q]
  <2>1. CASE Iterate(p)
    BY <1>1, <2>1, IterateKeeps
  <2>2. CASE ~Iterate(p)
    BY <1>1, <1>2, <2>2, CallKeeps, ItersKeep
  <2>3. QED
    BY <2>1, <2>2
<1>4. QED
  BY <1>1, <1>2, <1>3, StepKeeps DEF IInv

LEMMA StutterPreserves == ASSUME IInv, UNCHANGED vars PROVE IInv'
<1>1. /\ UNCHANGED <<exists, first, last, count, next, item, allocated, call, iter, order, fault>>
      /\ Index' = Index
  BY DEF vars, ends, memory, Index
<1>2. TypeOK' /\ NoFault' /\ OneCall' /\ Distinct'
  BY <1>1 DEF IInv, ListInv, TypeOK, NoFault, OneCall, Distinct
<1>3. ItersOK'
  BY <1>1 DEF IInv, ItersOK
<1>4. ASSUME NEW p \in Procs, Alone(p)' PROVE Shape(call[p])'
  <2>1. Shape(call[p])
    BY <1>1, <1>4 DEF IInv, ListInv, Alone
  <2>2. QED
    BY <1>1, <2>1
    DEF Shape, FirstOK, LastOK, CountOK, LinksOK, MemoryOK, ExtraOK, SearchOK, Reaches, Kept, Extra,
        LastWithout
<1>5. QED
  BY <1>2, <1>3, <1>4 DEF IInv, ListInv

\* The inductive invariant holds in every serial use of a list that is deleted
\* and not just cleared, in a build with NDEBUG.
THEOREM Invariance ==
  ASSUME ~AssertsEnabled, "clear" \notin Ops
  PROVE  SerialSpec => []IInv
<1>1. IInv /\ [SerialNext]_vars => IInv'
  BY StepPreserves, StutterPreserves
<1>2. QED
  BY <1>1, InitialState, PTL DEF SerialSpec

\* Every variable, every field of a node and every local variable of a call
\* keeps its type: first, last, count, next, the iterators.
THEOREM TypeCorrect ==
  ASSUME ~AssertsEnabled, "clear" \notin Ops
  PROVE  SerialSpec => []TypeOK
<1>1. IInv => TypeOK
  BY DEF IInv, ListInv
<1>2. QED
  BY <1>1, Invariance, PTL

\* No function of slist.c follows a NULL or dangling pointer, or frees a node
\* twice.
THEOREM NothingFaults ==
  ASSUME ~AssertsEnabled, "clear" \notin Ops
  PROVE  SerialSpec => []NoFault
<1>1. IInv => NoFault
  BY DEF IInv, ListInv
<1>2. QED
  BY <1>1, Invariance, PTL

\* Between calls of slist_add, slist_remove and slist_remove_at the nodes form
\* one chain from first to last, and no other node is allocated.
THEOREM StaysWellFormed ==
  ASSUME ~AssertsEnabled, "clear" \notin Ops
  PROVE  SerialSpec => []WellFormed
<1>1. ASSUME IInv PROVE WellFormed
  <2>1. SUFFICES ASSUME AllIdle PROVE WellFormed
    BY DEF WellFormed
  <2>2. PICK p \in Procs : Alone(p) /\ call[p].pc = "idle"
    BY <2>1, ListAssumption DEF ListAssumption, AllIdle, Alone
  <2>3. QED
    BY <1>1, <2>2, IdleShape DEF IInv, WellFormed
<1>2. QED
  BY <1>1, Invariance, PTL

\* Between calls, count is the number of nodes in the list.
THEOREM CountIsCorrect ==
  ASSUME ~AssertsEnabled, "clear" \notin Ops
  PROVE  SerialSpec => []CountCorrect
<1>1. ASSUME IInv PROVE CountCorrect
  <2>1. SUFFICES ASSUME AllIdle PROVE CountCorrect
    BY DEF CountCorrect
  <2>2. PICK p \in Procs : Alone(p) /\ call[p].pc = "idle"
    BY <2>1, ListAssumption DEF ListAssumption, AllIdle, Alone
  <2>3. QED
    BY <1>1, <2>2, IdleShape DEF IInv, CountCorrect
<1>2. QED
  BY <1>1, Invariance, PTL

\* After slist_delete, no node of the list is allocated any more.
THEOREM NothingLeaks ==
  ASSUME ~AssertsEnabled, "clear" \notin Ops
  PROVE  SerialSpec => []NoLeak
<1>1. ASSUME IInv PROVE NoLeak
  <2>1. SUFFICES ASSUME ~exists PROVE allocated = {}
    BY DEF NoLeak
  <2>2. PICK p \in Procs : Alone(p)
    <3>1. CASE AllIdle
      BY <3>1, ListAssumption DEF ListAssumption, AllIdle, Alone
    <3>2. CASE ~AllIdle
      BY <1>1, <3>2 DEF IInv, ListInv, OneCall, AllIdle, Alone
    <3>3. QED
      BY <3>1, <3>2
  <2>3. QED
    BY <1>1, <2>1, <2>2 DEF IInv, ListInv, Shape
<1>2. QED
  BY <1>1, Invariance, PTL

\* Until it comes to its end an iterator is in its place: slist_iter_next
\* returns the items in the order of the list, whatever is added meanwhile.
THEOREM IteratorsStayInPlace ==
  ASSUME ~AssertsEnabled, "clear" \notin Ops
  PROVE  SerialSpec => []InPlace
<1>1. IInv => InPlace
  BY DEF IInv, ItersOK, InPlace
<1>2. QED
  BY <1>1, Invariance, PTL

\* In a step of an iterator nothing else goes on.  It comes to its end behind
\* the last node, or at once in an empty list.
LEMMA IteratorEnds ==
  ASSUME IInv, NEW p \in Procs, Alone(p), slist_iter_new(p) \/ slist_iter_next(p),
         iter'[p].next = NULL
  PROVE  iter'[p].index = Len(order) /\ \A q \in Procs \ {p} : iter'[q] = iter[q]
<1> DEFINE n == Len(order)  it == iter[p]
<1>1. /\ TypeOK /\ ItersOK /\ n \in Nat /\ NULL \notin Nodes
      /\ \A i \in 1 .. n : order[i] \in Nodes
  BY Before DEF IInv, Index
<1>2. call[p].pc = "idle" /\ exists
  BY <1>1 DEF slist_iter_new, slist_iter_next, At, ItersOK
<1>3. /\ first = IF n = 0 THEN NULL ELSE order[1]
      /\ \A i \in 1 .. n : next[order[i]] = IF i = n THEN NULL ELSE order[i + 1]
  BY <1>2, IdleShape DEF IInv
<1>4. CASE slist_iter_new(p)
  <2>1. iter'[p].next = first /\ iter'[p].index = 0 /\ \A q \in Procs \ {p} : iter'[q] = iter[q]
    BY <1>1, <1>4 DEF slist_iter_new, Started, TypeOK
  <2>2. n = 0
    BY <1>1, <1>3, <2>1
  <2>3. QED
    BY <2>1, <2>2
<1>5. CASE slist_iter_next(p)
  <2>1. /\ it.next # NULL /\ it.index \in Nat /\ it.index < n /\ it.next = order[it.index + 1]
    BY <1>1, <1>5 DEF slist_iter_next, ItersOK, TypeOK
  <2>2. /\ iter'[p].next = next[it.next] /\ iter'[p].index = it.index + 1
        /\ \A q \in Procs \ {p} : iter'[q] = iter[q]
    BY <1>1, <1>5 DEF slist_iter_next, Moved, TypeOK
  <2>3. it.index + 1 \in 1 .. n
    BY <1>1, <2>1
  <2>4. it.index + 1 = n
    BY <1>1, <1>3, <2>1, <2>2, <2>3
  <2>5. QED
    BY <2>2, <2>4
<1>6. QED
  BY <1>4, <1>5

\* An iterator comes to its end only past every item that is in the list at
\* that moment: it misses at most what is added after it.
THEOREM IteratorsMissNone ==
  ASSUME ~AssertsEnabled, "clear" \notin Ops
  PROVE  SerialSpec => MissesNone
<1> DEFINE Ends(p) == iter'[p] # iter[p] /\ iter'[p].live /\ iter'[p].next = NULL
<1>1. ASSUME IInv, SerialNext, NEW q \in Procs, Ends(q) PROVE iter'[q].index = Len(order)
  <2>1. PICK p \in Procs :
          /\ Alone(p)
          /\ \/ slist_new(p) \/ slist_add(p)
             \/ NoIterator /\ (Removal(p) \/ slist_clear(p))
             \/ AddStep(p) \/ RemoveStep(p) \/ ClearStep(p) \/ Iterate(p) \/ End(p)
    BY <1>1 DEF SerialNext
  <2>2. CASE slist_iter_new(p) \/ slist_iter_next(p)
    <3>1. iter \in [Procs -> [live : BOOLEAN, next : Nodes \cup {NULL}, index : Nat]]
      BY <1>1 DEF IInv, ListInv, TypeOK
    <3>2. p = q \/ iter'[q] = iter[q]
      BY <2>2, <3>1 DEF slist_iter_new, slist_iter_next
    <3>3. QED
      BY <1>1, <2>1, <2>2, <3>2, IteratorEnds
  <2>3. CASE slist_iter_delete(p)
    <3>1. iter \in [Procs -> [live : BOOLEAN, next : Nodes \cup {NULL}, index : Nat]]
      BY <1>1 DEF IInv, ListInv, TypeOK
    <3>2. iter'[q] = iter[q] \/ ~iter'[q].live
      BY <2>3, <3>1 DEF slist_iter_delete, NoIter
    <3>3. QED
      BY <1>1, <3>2
  <2>4. CASE ~Iterate(p)
    <3>1. iter' = iter
      BY <2>1, <2>4
      DEF slist_new, slist_add, Removal, slist_clear, Begin, AddStep, RemoveStep, ClearStep, End,
          AllocNode, AllocFails, LinkFirst, LinkNext, FinishAdd, NotFound, Advance, Unlink, Dispose,
          ClearNode, Cleared
    <3>2. QED
      BY <1>1, <3>1
  <2>5. QED
    BY <2>2, <2>3, <2>4 DEF Iterate
<1>2. IInv /\ [SerialNext]_vars =>
        [\A p \in Procs : Ends(p) => iter'[p].index = Len(order)]_vars
  BY <1>1
<1>3. QED
  BY <1>2, Invariance, PTL DEF SerialSpec, MissesNone

-----------------------------------------------------------------------------
(* The list implements AbstractList.  IInv says nothing of the arguments and *)
(* the results of a call: Progress says what the call has done so far.       *)

Progress(c) ==
  /\ c.pc \in {"alloc", "link", "finish"} => c.op = "add"
  /\ c.pc \in {"link", "finish"} => item[c.node] = c.wanted
  /\ c.pc = "find" => c.op \in {"remove", "remove_at"}
  /\ c.pc = "find" /\ c.op = "remove" => \A i \in 1 .. c.at : item[order[i]] # c.wanted
  /\ c.pc = "find" /\ c.op = "remove_at" => c.at <= c.index
  /\ c.pc # "returned" => c.result = "none"

RInv == IInv /\ \A p \in Procs : Progress(call[p])

absvars == <<items, stage, op, wanted, index, result>>

\* What a step of p, alone in its call, has to show.
Simulates(p) == Progress(call[p])' /\ (Abstract!Next \/ UNCHANGED absvars)

LEMMA ProgressKeeps ==
  ASSUME RInv, NEW p \in Procs, Alone(p), Progress(call[p])',
         \A q \in Procs \ {p} : call'[q] = call[q]
  PROVE  \A q \in Procs : Progress(call[q])'
<1>1. ASSUME NEW q \in Procs, q # p PROVE Progress(call[q])'
  <2>1. call'[q] = call[q] /\ call[q].pc = "idle" /\ call[q].result = "none"
    BY <1>1 DEF RInv, Alone, Progress
  <2>2. QED
    BY <2>1 DEF Progress
<1>2. QED
  BY <1>1

LEMMA Stages ==
  ASSUME NEW c
  PROVE  /\ c.pc = "idle" => Stage(c) = "idle"
         /\ c.pc \in {"alloc", "link", "finish", "find", "clear"} => Stage(c) = "called"
         /\ c.pc \in {"dispose", "returned"} => Stage(c) = "done"
         /\ c.pc = "dispose" => Result(c) = "OK"
         /\ c.pc # "dispose" => Result(c) = c.result
BY DEF Stage, Result

LEMMA AbstractCall ==
  ASSUME NEW p \in Procs
  PROVE  /\ stage[p] = Stage(call[p]) /\ result[p] = Result(call[p])
         /\ op[p] = call[p].op /\ wanted[p] = call[p].wanted /\ index[p] = call[p].index
BY DEF stage, op, wanted, index, result

LEMMA Moves ==
  ASSUME NEW p \in Procs, \A q \in Procs \ {p} : call'[q] = call[q]
  PROVE  /\ stage' = [stage EXCEPT ![p] = Stage(call'[p])]
         /\ op' = [op EXCEPT ![p] = call'[p].op]
         /\ wanted' = [wanted EXCEPT ![p] = call'[p].wanted]
         /\ index' = [index EXCEPT ![p] = call'[p].index]
         /\ result' = [result EXCEPT ![p] = Result(call'[p])]
<1>1. \A q \in Procs : Stage(call[q])' = Stage(call'[q]) /\ Result(call[q])' = Result(call'[q])
  BY DEF Stage, Result
<1>2. stage' = [q \in Procs |-> Stage(call'[q])] /\ result' = [q \in Procs |-> Result(call'[q])]
  BY <1>1 DEF stage, result
<1>3. stage' = [stage EXCEPT ![p] = Stage(call'[p])] /\ result' = [result EXCEPT ![p] = Result(call'[p])]
  BY <1>2 DEF stage, result
<1>4. QED
  BY <1>3 DEF op, wanted, index

\* The arguments stay as they are.
SameCall(c, d) == d.op = c.op /\ d.wanted = c.wanted /\ d.index = c.index

LEMMA ArgumentsStay ==
  ASSUME NEW p \in Procs, \A q \in Procs \ {p} : call'[q] = call[q], SameCall(call[p], call'[p])
  PROVE  UNCHANGED <<op, wanted, index>>
BY DEF op, wanted, index, SameCall

LEMMA Quiet ==
  ASSUME NEW p \in Procs, \A q \in Procs \ {p} : call'[q] = call[q], SameCall(call[p], call'[p]),
         Stage(call'[p]) = Stage(call[p]), Result(call'[p]) = Result(call[p]), items' = items
  PROVE  UNCHANGED absvars
<1>1. UNCHANGED <<op, wanted, index>>
  BY ArgumentsStay
<1>2. stage' = stage /\ result' = result
  BY Moves DEF stage, result
<1>3. QED
  BY <1>1, <1>2 DEF absvars

LEMMA TakesEffect ==
  ASSUME NEW p \in Procs, \A q \in Procs \ {p} : call'[q] = call[q], SameCall(call[p], call'[p]),
         Stage(call[p]) = "called", Stage(call'[p]) = "done"
  PROVE  Abstract!Takes(p, items', Result(call'[p]))
<1>1. UNCHANGED <<op, wanted, index>>
  BY ArgumentsStay
<1>2. stage' = [stage EXCEPT ![p] = "done"] /\ result' = [result EXCEPT ![p] = Result(call'[p])]
  BY Moves
<1>3. stage[p] = "called"
  BY AbstractCall
<1>4. QED
  BY <1>1, <1>2, <1>3 DEF Abstract!Takes

LEMMA IntervalsEqual ==
  ASSUME NEW a \in Nat, NEW b \in Nat, 1 .. a = 1 .. b
  PROVE  a = b
<1>1. a > 0 => a \in 1 .. b
  OBVIOUS
<1>2. b > 0 => b \in 1 .. a
  OBVIOUS
<1>3. QED
  BY <1>1, <1>2

\* What the list holds, for the nodes o and their items f.
LEMMA ItemsOf ==
  ASSUME NEW o \in Seq(Nodes), NEW f \in [Nodes -> Items \cup {NULL}],
         NEW s, s = [i \in DOMAIN o |-> f[o[i]]]
  PROVE  /\ s \in Seq(Items \cup {NULL}) /\ Len(s) = Len(o) /\ Len(o) \in Nat
         /\ DOMAIN s = 1 .. Len(o) /\ DOMAIN o = 1 .. Len(o)
         /\ \A i \in 1 .. Len(o) : o[i] \in Nodes /\ s[i] = f[o[i]]
<1>1. Len(o) \in Nat /\ o \in [1 .. Len(o) -> Nodes]
  BY LenProperties
<1>2. s \in [1 .. Len(o) -> Items \cup {NULL}]
  BY <1>1
<1>3. s \in Seq(Items \cup {NULL})
  BY <1>1, <1>2, SeqDef
<1>4. Len(s) \in Nat /\ DOMAIN s = 1 .. Len(s)
  BY <1>3, LenProperties
<1>5. Len(s) = Len(o)
  BY <1>1, <1>2, <1>4, IntervalsEqual
<1>6. QED
  BY <1>1, <1>2, <1>3, <1>5

LEMMA ItemsStay ==
  ASSUME TypeOK, order' = order, \A i \in 1 .. Len(order) : item'[order[i]] = item[order[i]]
  PROVE  items' = items
<1>1. DOMAIN order = 1 .. Len(order)
  BY ItemsOf DEF TypeOK
<1>2. QED
  BY <1>1 DEF items

-----------------------------------------------------------------------------
(* Calls begin and return; what a caller cannot see is a stutter.          *)

LEMMA BeginSimulates ==
  ASSUME RInv, NEW p \in Procs, Alone(p),
         NEW o, NEW x \in Items \cup {NULL}, NEW i \in Indices, NEW k, NEW place,
         Begin(p, o, x, i, k, place),
         \/ place = "alloc" /\ o = "add"
         \/ place = "find" /\ o \in {"remove", "remove_at"}
         \/ place = "clear"
  PROVE  Simulates(p)
<1> DEFINE d == call'[p]
<1>1. TypeOK /\ call[p] \in Calls
  BY Before DEF RInv, IInv
<1>2. /\ call[p].pc = "idle" /\ call[p].result = "none" /\ o \in Ops
      /\ item' = item /\ order' = order /\ \A q \in Procs \ {p} : call'[q] = call[q]
  BY <1>1 DEF Begin, At, memory, RInv, Progress, TypeOK
<1>3. /\ d.pc = place /\ d.op = o /\ d.wanted = x /\ d.index = i
      /\ d.at = 0 /\ d.result = "none"
  BY <1>1 DEF Begin, TypeOK, NoCall
<1>4. Progress(call[p])'
  <2>1. 1 .. 0 = {} /\ i \in Nat
    BY ListAssumption DEF ListAssumption
  <2>2. QED
    BY <1>3, <2>1 DEF Progress
<1>5. Abstract!Call(p)
  <2>1. stage[p] = "idle" /\ Stage(d) = "called" /\ Result(d) = "none"
    BY <1>2, <1>3, Stages, AbstractCall
  <2>2. items' = items
    BY <1>1, <1>2, ItemsStay
  <2>3. result' = result
    <3>1. result' = [result EXCEPT ![p] = "none"] /\ result[p] = "none"
      BY <1>2, <1>3, <2>1, Moves, AbstractCall, Stages
    <3>2. QED
      BY <3>1 DEF result
  <2>4. /\ stage' = [stage EXCEPT ![p] = "called"] /\ op' = [op EXCEPT ![p] = o]
        /\ wanted' = [wanted EXCEPT ![p] = x] /\ index' = [index EXCEPT ![p] = i]
    BY <1>2, <1>3, <2>1, Moves
  <2>5. QED
    BY <1>2, <2>1, <2>2, <2>3, <2>4 DEF Abstract!Call
<1>6. QED
  BY <1>4, <1>5 DEF Simulates, Abstract!Next

LEMMA EndSimulates ==
  ASSUME RInv, NEW p \in Procs, Alone(p), End(p)
  PROVE  Simulates(p)
<1> DEFINE d == call'[p]
<1>1. TypeOK /\ call[p] \in Calls
  BY Before DEF RInv, IInv
<1>2. /\ call[p].pc = "returned" /\ d = NoCall
      /\ item' = item /\ order' = order /\ \A q \in Procs \ {p} : call'[q] = call[q]
  BY <1>1 DEF End, At, memory, TypeOK
<1>3. /\ d.pc = "idle" /\ d.op = "none" /\ d.wanted = NULL /\ d.index = 0 /\ d.result = "none"
  BY <1>2 DEF NoCall
<1>4. Progress(call[p])'
  BY <1>3 DEF Progress
<1>5. Abstract!Return(p)
  <2>1. stage[p] = "done" /\ Stage(d) = "idle" /\ Result(d) = "none"
    BY <1>2, <1>3, Stages, AbstractCall
  <2>2. items' = items
    BY <1>1, <1>2, ItemsStay
  <2>3. QED
    BY <1>2, <1>3, <2>1, <2>2, Moves DEF Abstract!Return
<1>6. QED
  BY <1>4, <1>5 DEF Simulates, Abstract!Next

LEMMA IterateSimulates ==
  ASSUME RInv, NEW p \in Procs, Alone(p), Iterate(p) \/ slist_new(p)
  PROVE  Simulates(p) /\ call' = call
<1>1. TypeOK
  BY DEF RInv, IInv, ListInv
<1>2. item' = item /\ order' = order /\ call' = call
  BY DEF Iterate, slist_iter_new, slist_iter_next, slist_iter_delete, slist_new, memory
<1>3. Progress(call[p])'
  BY <1>2 DEF RInv, Progress
<1>4. UNCHANGED absvars
  <2>1. items' = items
    BY <1>1, <1>2, ItemsStay
  <2>2. QED
    BY <1>2, <2>1, Quiet DEF SameCall
<1>5. QED
  BY <1>2, <1>3, <1>4 DEF Simulates

-----------------------------------------------------------------------------
(* slist_add.                                                              *)

LEMMA AddSimulates ==
  ASSUME RInv, NEW p \in Procs, Alone(p), AddStep(p)
  PROVE  Simulates(p)
<1> DEFINE c == call[p]  d == call'[p]  n == Len(order)
<1>1. /\ TypeOK /\ Shape(c) /\ c \in Calls /\ Progress(c) /\ n \in Nat
      /\ \A i \in Index : order[i] \in Nodes
  BY Before DEF RInv, IInv
<1>2. /\ \A q \in Procs \ {p} : call'[q] = call[q]
      /\ SameCall(c, d)
  BY <1>1
  DEF AddStep, AllocNode, AllocFails, LinkFirst, LinkNext, FinishAdd, Return, TypeOK, SameCall, Calls
<1>3. CASE AllocNode(p)
  <2>0. PICK k \in Nodes \ allocated :
          /\ item' = [item EXCEPT ![k] = call[p].wanted]
          /\ call' = [call EXCEPT ![p].pc = "link", ![p].node = k]
    BY <1>3 DEF AllocNode
  <2>1. /\ item' = [item EXCEPT ![k] = c.wanted] /\ d.pc = "link" /\ d.node = k
        /\ d.result = c.result /\ order' = order /\ c.pc = "alloc"
    BY <1>1, <1>3, <2>0 DEF AllocNode, At, TypeOK, Calls
  <2>2. Progress(call[p])'
    BY <1>1, <1>2, <2>1 DEF Progress, SameCall, TypeOK
  <2>3. items' = items
    <3>1. \A i \in 1 .. n : order[i] # k
      BY <1>1, <2>1 DEF Shape, MemoryOK, Kept, Extra, Index
    <3>2. \A i \in 1 .. n : item'[order[i]] = item[order[i]]
      BY <1>1, <2>1, <3>1 DEF TypeOK, Index
    <3>3. QED
      BY <1>1, <2>1, <3>2, ItemsStay
  <2>4. UNCHANGED absvars
    BY <1>2, <2>1, <2>3, Stages, Quiet
  <2>5. QED
    BY <2>2, <2>4 DEF Simulates
<1>4. CASE LinkFirst(p) \/ LinkNext(p)
  <2>1. /\ item' = item /\ order' = order /\ c.pc = "link" /\ d.pc = "finish"
        /\ d.node = c.node /\ d.result = c.result
    BY <1>1, <1>4 DEF LinkFirst, LinkNext, At, memory, TypeOK, Calls
  <2>2. Progress(call[p])'
    BY <1>1, <1>2, <2>1 DEF Progress, SameCall
  <2>3. items' = items
    BY <1>1, <2>1, ItemsStay
  <2>4. UNCHANGED absvars
    BY <1>2, <2>1, <2>3, Stages, Quiet
  <2>5. QED
    BY <2>2, <2>4 DEF Simulates
<1>5. CASE AllocFails(p)
  <2>1. /\ item' = item /\ order' = order /\ c.pc = "alloc" /\ d.pc = "returned"
        /\ d.result = "ERR_ALLOC" /\ c.op = "add"
    BY <1>1, <1>5 DEF AllocFails, At, Return, memory, TypeOK, Calls, Progress
  <2>2. Progress(call[p])'
    BY <2>1 DEF Progress
  <2>3. items' = items
    BY <1>1, <2>1, ItemsStay
  <2>4. Abstract!Takes(p, items, "ERR_ALLOC")
    BY <1>2, <2>1, <2>3, Stages, TakesEffect
  <2>5. QED
    BY <2>1, <2>2, <2>4, AbstractCall DEF Simulates, Abstract!Next, Abstract!Add
<1>6. CASE FinishAdd(p)
  <2>1. /\ item' = item /\ order' = Append(order, c.node) /\ c.pc = "finish" /\ d.pc = "returned"
        /\ d.result = "OK" /\ c.op = "add" /\ item[c.node] = c.wanted /\ c.node \in Nodes
    BY <1>1, <1>6
    DEF FinishAdd, At, Return, memory, TypeOK, Calls, Progress, Shape, ExtraOK
  <2>2. Progress(call[p])'
    BY <2>1 DEF Progress
  <2>3. /\ items \in Seq(Items \cup {NULL}) /\ Len(items) = n /\ DOMAIN order = 1 .. n
        /\ \A i \in 1 .. n : order[i] \in Nodes /\ items[i] = item[order[i]]
    <3>1. order \in Seq(Nodes) /\ item \in [Nodes -> Items \cup {NULL}]
      BY <1>1 DEF TypeOK
    <3>2. items = [i \in DOMAIN order |-> item[order[i]]]
      BY DEF items
    <3> HIDE DEF items
    <3>3. QED
      BY ONLY <3>1, <3>2, ItemsOf
  <2>4. /\ order' \in Seq(Nodes) /\ Len(order') = n + 1 /\ order'[n + 1] = c.node
        /\ \A i \in 1 .. n : order'[i] = order[i]
    BY <1>1, <2>1, AppendProperties DEF TypeOK
  <2>5. items' = Append(items, c.wanted)
    <3>1. c.wanted \in Items \cup {NULL}
      BY <1>1 DEF Calls
    <3>2. /\ Append(items, c.wanted) \in Seq(Items \cup {NULL})
          /\ Len(Append(items, c.wanted)) = n + 1
          /\ Append(items, c.wanted)[n + 1] = c.wanted
          /\ \A i \in 1 .. n : Append(items, c.wanted)[i] = items[i]
      BY <1>1, <2>3, <3>1, AppendProperties
    <3>3. TypeOK'
      BY FinishAddKeeps, <1>6 DEF RInv, IInv, Keeps
    <3>4. /\ items' \in Seq(Items \cup {NULL}) /\ Len(items') = n + 1
          /\ \A i \in 1 .. n + 1 : items'[i] = item[order'[i]]
      <4>1. order' \in Seq(Nodes) /\ item' \in [Nodes -> Items \cup {NULL}]
        BY <3>3 DEF TypeOK
      <4>2. items' = [i \in DOMAIN order' |-> item'[order'[i]]]
        BY DEF items
      <4>3. QED
        BY <2>1, <2>4, <4>1, <4>2, ItemsOf
    <3>5. \A i \in 1 .. n + 1 : items'[i] = Append(items, c.wanted)[i]
      BY <1>1, <2>1, <2>3, <2>4, <3>2, <3>4
    <3>6. QED
      BY <3>2, <3>4, <3>5, SeqEqual
  <2>6. Abstract!Takes(p, Append(items, c.wanted), "OK")
    BY <1>2, <2>1, <2>5, Stages, TakesEffect
  <2>7. QED
    BY <2>1, <2>2, <2>6, AbstractCall DEF Simulates, Abstract!Next, Abstract!Add
<1>7. QED
  BY <1>3, <1>4, <1>5, <1>6 DEF AddStep

-----------------------------------------------------------------------------
(* slist_remove, slist_remove_at and slist_delete.                         *)

LEMMA RemoveSimulates ==
  ASSUME RInv, NEW p \in Procs, Alone(p), RemoveStep(p)
  PROVE  Simulates(p)
<1> DEFINE c == call[p]  d == call'[p]  n == Len(order)
<1>1. /\ TypeOK /\ Shape(c) /\ c \in Calls /\ Progress(c) /\ NULL \notin Nodes
      /\ c.at \in Nat /\ c.index \in Nat
  <2>1. TypeOK /\ Shape(c) /\ c \in Calls /\ Progress(c) /\ NULL \notin Nodes
    BY Before DEF RInv, IInv
  <2>2. QED
    BY <2>1, ListAssumption DEF Calls, ListAssumption
<1>2. /\ \A q \in Procs \ {p} : call'[q] = call[q]
      /\ SameCall(c, d) /\ item' = item
  BY <1>1
  DEF RemoveStep, NotFound, Advance, Unlink, Dispose, Return, memory, TypeOK, SameCall, Calls
<1>3. /\ items \in Seq(Items \cup {NULL}) /\ Len(items) = n /\ n \in Nat
      /\ DOMAIN items = 1 .. n
      /\ \A i \in 1 .. n : order[i] \in Nodes /\ items[i] = item[order[i]]
  BY <1>1, ItemsOf DEF TypeOK, items
<1>4. c.pc = "find" =>
        /\ c.op \in {"remove", "remove_at"} /\ c.result = "none"
        /\ c.at <= n /\ c.node = IF c.at < n THEN order[c.at + 1] ELSE NULL
        /\ c.op = "remove" => \A i \in 1 .. c.at : items[i] # c.wanted
        /\ c.op = "remove_at" => c.at <= c.index
  <2>1. ASSUME c.pc = "find" PROVE c.at <= n /\ c.node = IF c.at < n THEN order[c.at + 1] ELSE NULL
    BY <1>1, <2>1 DEF Shape, SearchOK
  <2>2. ASSUME c.pc = "find", c.op = "remove", NEW i \in 1 .. c.at PROVE items[i] # c.wanted
    <3>1. i \in 1 .. n
      BY <1>1, <1>3, <2>1, <2>2
    <3>2. QED
      BY <1>1, <1>3, <2>2, <3>1 DEF Progress
  <2>3. QED
    BY <1>1, <2>1, <2>2 DEF Progress
<1>5. CASE NotFound(p)
  <2>1. /\ order' = order /\ c.pc = "find" /\ d.pc = "returned" /\ c.node = NULL
        /\ d.result = IF c.op = "remove" THEN "ERR_NOT_FOUND" ELSE "ERR_OUT_OF_RANGE"
    BY <1>1, <1>5 DEF NotFound, At, Return, TypeOK, Calls
  <2>2. c.at = n
    <3>1. ASSUME c.at < n PROVE FALSE
      <4>1. c.at + 1 \in 1 .. n
        BY <1>1, <1>3, <3>1
      <4>2. QED
        BY <1>1, <1>3, <1>4, <2>1, <3>1, <4>1
    <3>2. QED
      BY <1>1, <1>3, <1>4, <2>1, <3>1
  <2>3. Progress(call[p])' /\ items' = items
    BY <1>1, <1>2, <2>1, ItemsStay DEF Progress
  <2>4. Abstract!Takes(p, items, d.result)
    BY <1>2, <2>1, <2>3, Stages, TakesEffect
  <2>5. CASE c.op = "remove"
    BY <1>3, <1>4, <2>1, <2>2, <2>3, <2>4, <2>5, AbstractCall
    DEF Simulates, Abstract!Next, Abstract!RemoveItem
  <2>6. CASE c.op = "remove_at"
    <3>1. ~(index[p] < Len(items)) /\ op[p] = "remove_at"
      BY <1>1, <1>3, <1>4, <2>1, <2>2, <2>6, AbstractCall
    <3>2. QED
      BY <2>1, <2>3, <2>4, <2>6, <3>1 DEF Simulates, Abstract!Next, Abstract!RemoveIndex
  <2>7. QED
    BY <1>4, <2>1, <2>5, <2>6
<1>6. CASE Advance(p)
  <2>1. /\ order' = order /\ c.pc = "find" /\ d.pc = "find" /\ c.node # NULL
        /\ d.result = c.result /\ d.at = c.at + 1 /\ ~Found(c)
    BY <1>1, <1>6 DEF Advance, At, TypeOK, Calls
  <2>2. c.at < n
    BY <1>4, <2>1
  <2>3. Progress(call[p])'
    <3>1. ASSUME c.op = "remove", NEW i \in 1 .. c.at + 1 PROVE item[order[i]] # c.wanted
      <4>1. CASE i = c.at + 1
        BY <1>4, <2>1, <2>2, <3>1, <4>1 DEF Found
      <4>2. CASE i # c.at + 1
        BY <1>1, <2>1, <3>1, <4>2 DEF Progress
      <4>3. QED
        BY <4>1, <4>2
    <3>2. ASSUME c.op = "remove_at" PROVE c.at + 1 <= c.index
      BY <1>1, <2>1, <3>2 DEF Found
    <3>3. QED
      BY <1>2, <1>4, <2>1, <3>1, <3>2 DEF Progress, SameCall
  <2>4. items' = items
    BY <1>1, <1>2, <2>1, ItemsStay
  <2>5. UNCHANGED absvars
    BY <1>2, <2>1, <2>4, Stages, Quiet
  <2>6. QED
    BY <2>3, <2>5 DEF Simulates
<1>7. CASE Unlink(p)
  <2>1. /\ order' = RemoveAt(order, c.at + 1) /\ c.pc = "find" /\ d.pc = "dispose"
        /\ c.node # NULL /\ d.result = c.result /\ Found(c)
    BY <1>1, <1>7 DEF Unlink, At, TypeOK, Calls
  <2>2. c.at < n /\ c.at + 1 \in 1 .. n /\ c.at + 1 \in 1 .. Len(items)
    BY <1>1, <1>3, <1>4, <2>1
  <2>3. Progress(call[p])'
    BY <1>4, <2>1 DEF Progress
  <2>4. items' = RemoveAt(items, c.at + 1)
    <3>1. /\ RemoveAt(items, c.at + 1) \in Seq(Items \cup {NULL})
          /\ Len(RemoveAt(items, c.at + 1)) = n - 1
          /\ \A j \in 1 .. n - 1 : RemoveAt(items, c.at + 1)[j] =
               IF j < c.at + 1 THEN items[j] ELSE items[j + 1]
      <4>1. /\ RemoveAt(items, c.at + 1) \in Seq(Items \cup {NULL})
            /\ Len(RemoveAt(items, c.at + 1)) = Len(items) - 1
            /\ \A j \in 1 .. Len(items) - 1 : RemoveAt(items, c.at + 1)[j] =
                 IF j < c.at + 1 THEN items[j] ELSE items[j + 1]
        <5>1. items \in Seq(Items \cup {NULL}) /\ c.at + 1 \in 1 .. Len(items)
          BY <1>3, <2>2
        <5> HIDE DEF items, c
        <5>2. QED
          BY ONLY <5>1, RemoveAtProperties
      <4>2. QED
        BY <1>3, <4>1
    <3>2. /\ order' \in Seq(Nodes) /\ Len(order') = n - 1
          /\ \A j \in 1 .. n - 1 : order'[j] = IF j < c.at + 1 THEN order[j] ELSE order[j + 1]
      BY <1>1, <2>1, <2>2, RemoveAtProperties DEF TypeOK
    <3>3. /\ items' \in Seq(Items \cup {NULL}) /\ Len(items') = n - 1
          /\ \A j \in 1 .. n - 1 : items'[j] = item[order'[j]]
      <4>1. item' \in [Nodes -> Items \cup {NULL}]
        BY <1>1, <1>2 DEF TypeOK
      <4>2. items' = [i \in DOMAIN order' |-> item'[order'[i]]]
        BY DEF items
      <4>3. QED
        BY <1>2, <3>2, <4>1, <4>2, ItemsOf
    <3>4. ASSUME NEW j \in 1 .. n - 1 PROVE items'[j] = RemoveAt(items, c.at + 1)[j]
      <4>1. j \in 1 .. n /\ j + 1 \in 1 .. n
        BY <1>3
      <4>2. QED
        BY <1>3, <3>1, <3>2, <3>3, <4>1
    <3>5. QED
      BY <3>1, <3>3, <3>4, SeqEqual
  <2>5. Abstract!Takes(p, RemoveAt(items, c.at + 1), "OK")
    BY <1>2, <2>1, <2>4, Stages, TakesEffect
  <2>6. CASE c.op = "remove"
    <3>1. items[c.at + 1] = wanted[p] /\ op[p] = "remove"
      BY <1>3, <1>4, <2>1, <2>2, <2>6, AbstractCall DEF Found
    <3>2. \A j \in 1 .. (c.at + 1) - 1 : items[j] # wanted[p]
      BY <1>1, <1>4, <2>1, <2>6, AbstractCall
    <3>3. Abstract!RemoveItem(p)
      BY <1>3, <2>2, <2>5, <3>1, <3>2 DEF Abstract!RemoveItem, Abstract!RemoveAt, RemoveAt
    <3>4. QED
      BY <2>3, <3>3 DEF Simulates, Abstract!Next
  <2>7. CASE c.op = "remove_at"
    <3>1. c.index = c.at
      BY <1>1, <1>4, <2>1, <2>7 DEF Found
    <3>2. index[p] < Len(items) /\ op[p] = "remove_at" /\ index[p] = c.at
      BY <1>3, <2>2, <2>7, <3>1, AbstractCall
    <3>3. Abstract!RemoveIndex(p)
      BY <2>5, <3>2 DEF Abstract!RemoveIndex, Abstract!RemoveAt, RemoveAt
    <3>4. QED
      BY <2>3, <3>3 DEF Simulates, Abstract!Next
  <2>8. QED
    BY <1>4, <2>1, <2>6, <2>7
<1>8. CASE Dispose(p)
  <2>1. order' = order /\ c.pc = "dispose" /\ d.pc = "returned" /\ d.result = "OK"
    BY <1>1, <1>8 DEF Dispose, At, Return, TypeOK, Calls
  <2>2. Progress(call[p])' /\ items' = items
    BY <1>1, <1>2, <2>1, ItemsStay DEF Progress
  <2>3. UNCHANGED absvars
    BY <1>2, <2>1, <2>2, Stages, Quiet
  <2>4. QED
    BY <2>2, <2>3 DEF Simulates
<1>9. QED
  BY <1>5, <1>6, <1>7, <1>8 DEF RemoveStep

LEMMA ClearSimulates ==
  ASSUME RInv, NEW p \in Procs, Alone(p), ClearStep(p)
  PROVE  Simulates(p)
<1> DEFINE c == call[p]  d == call'[p]
<1>1. TypeOK /\ Shape(c) /\ c \in Calls /\ Progress(c)
  BY Before DEF RInv, IInv
<1>2. /\ \A q \in Procs \ {p} : call'[q] = call[q]
      /\ SameCall(c, d) /\ item' = item /\ c.pc = "clear" /\ c.op = "delete" /\ c.result = "none"
  <2>1. /\ \A q \in Procs \ {p} : call'[q] = call[q]
        /\ SameCall(c, d) /\ item' = item /\ c.pc = "clear"
    BY <1>1 DEF ClearStep, ClearNode, Cleared, At, Return, memory, TypeOK, SameCall, Calls
  <2>2. QED
    BY <1>1, <2>1 DEF Shape, SearchOK, Progress
<1>3. CASE ClearNode(p)
  <2>1. order' = order /\ d.pc = "clear" /\ d.result = c.result
    BY <1>1, <1>2, <1>3 DEF ClearNode, TypeOK, Calls
  <2>2. Progress(call[p])' /\ items' = items
    BY <1>1, <1>2, <2>1, ItemsStay DEF Progress
  <2>3. UNCHANGED absvars
    BY <1>2, <2>1, <2>2, Stages, Quiet
  <2>4. QED
    BY <2>2, <2>3 DEF Simulates
<1>4. CASE Cleared(p)
  <2>1. order' = <<>> /\ d.pc = "returned" /\ d.result = "none"
    BY <1>1, <1>2, <1>4 DEF Cleared, Return, TypeOK, Calls
  <2>2. Progress(call[p])'
    BY <2>1 DEF Progress
  <2>3. items' = <<>>
    <3>1. items' = [i \in DOMAIN order' |-> item'[order'[i]]]
      BY DEF items
    <3>2. items' \in Seq(Items \cup {NULL}) /\ Len(items') = 0
      BY <1>1, <1>2, <2>1, <3>1, EmptySeq, ItemsOf DEF TypeOK
    <3>3. QED
      BY <3>2, EmptySeq, SeqEqual
  <2>4. Abstract!Takes(p, <<>>, "none")
    BY <1>2, <2>1, <2>3, Stages, TakesEffect
  <2>5. QED
    BY <1>2, <2>2, <2>4, AbstractCall DEF Simulates, Abstract!Next, Abstract!Empty
<1>5. QED
  BY <1>3, <1>4 DEF ClearStep

-----------------------------------------------------------------------------
LEMMA StepSimulates ==
  ASSUME ~AssertsEnabled, "clear" \notin Ops, RInv, SerialNext
  PROVE  RInv' /\ (Abstract!Next \/ UNCHANGED absvars)
<1>1. PICK p \in Procs :
        /\ Alone(p)
        /\ \/ slist_new(p) \/ slist_add(p)
           \/ NoIterator /\ (Removal(p) \/ slist_clear(p))
           \/ AddStep(p) \/ RemoveStep(p) \/ ClearStep(p) \/ Iterate(p) \/ End(p)
  BY DEF SerialNext
<1>2. call \in [Procs -> Calls]
  BY DEF RInv, IInv, ListInv, TypeOK
<1>3. \A q \in Procs \ {p} : call'[q] = call[q]
  BY <1>1, <1>2
  DEF slist_new, slist_add, Removal, slist_clear, Begin, End,
      AddStep, AllocNode, AllocFails, LinkFirst, LinkNext, FinishAdd,
      RemoveStep, NotFound, Advance, Unlink, Dispose, ClearStep, ClearNode, Cleared, Return,
      Iterate, slist_iter_new, slist_iter_next, slist_iter_delete
<1>4. Simulates(p)
  <2>1. CASE slist_new(p) \/ Iterate(p)
    BY <1>1, <2>1, IterateSimulates
  <2>2. CASE slist_add(p)
    <3>1. PICK x \in Items : Begin(p, "add", x, 0, NULL, "alloc")
      BY <2>2 DEF slist_add
    <3>2. QED
      BY <1>1, <3>1, BeginSimulates, ListAssumption DEF ListAssumption
  <2>3. CASE Removal(p)
    <3>1. CASE \E x \in Items : Begin(p, "remove", x, 0, first, "find")
      BY <1>1, <3>1, BeginSimulates, ListAssumption DEF ListAssumption
    <3>2. CASE \E i \in Indices : Begin(p, "remove_at", NULL, i, first, "find")
      BY <1>1, <3>2, BeginSimulates
    <3>3. QED
      BY <2>3, <3>1, <3>2 DEF Removal
  <2>4. CASE slist_clear(p)
    <3>1. PICK o \in {"clear", "delete"} : Begin(p, o, NULL, 0, first, "clear")
      BY <2>4 DEF slist_clear
    <3>2. QED
      BY <1>1, <3>1, BeginSimulates, ListAssumption DEF ListAssumption
  <2>5. QED
    BY <1>1, <2>1, <2>2, <2>3, <2>4, AddSimulates, RemoveSimulates, ClearSimulates, EndSimulates
<1>5. IInv'
  BY StepPreserves DEF RInv
<1>6. \A q \in Procs : Progress(call[q])'
  BY <1>1, <1>3, <1>4, ProgressKeeps DEF Simulates
<1>7. QED
  BY <1>4, <1>5, <1>6 DEF RInv, Simulates

LEMMA StutterSimulates == ASSUME RInv, UNCHANGED vars PROVE RInv' /\ UNCHANGED absvars
<1>1. IInv'
  BY StutterPreserves DEF RInv
<1>2. item' = item /\ order' = order /\ call' = call
  BY DEF vars, memory
<1>3. \A p \in Procs : Progress(call[p])'
  BY <1>2 DEF RInv, Progress
<1>4. UNCHANGED absvars
  BY <1>2 DEF absvars, items, stage, op, wanted, index, result, Stage, Result
<1>5. QED
  BY <1>1, <1>3, <1>4 DEF RInv

LEMMA InitSimulates == Init => RInv /\ Abstract!Init
<1> SUFFICES ASSUME Init PROVE RInv /\ Abstract!Init
  OBVIOUS
<1>1. \A p \in Procs :
        /\ call[p].pc = "idle" /\ call[p].op = "none" /\ call[p].wanted = NULL
        /\ call[p].index = 0 /\ call[p].result = "none"
  BY DEF Init, NoCall
<1>2. \A p \in Procs : Progress(call[p]) /\ Stage(call[p]) = "idle" /\ Result(call[p]) = "none"
  BY <1>1, Stages DEF Progress
<1>3. items = <<>>
  <2>1. TypeOK /\ order = <<>>
    BY InitialState DEF Init, IInv, ListInv
  <2>2. items \in Seq(Items \cup {NULL}) /\ Len(items) = 0
    BY <2>1, EmptySeq, ItemsOf DEF TypeOK, items
  <2>3. QED
    BY <2>2, EmptySeq, SeqEqual
<1>4. QED
  BY <1>1, <1>2, <1>3, InitialState
  DEF RInv, Abstract!Init, stage, op, wanted, index, result

\* Each function of slist.c does to the list, at one moment, what slist.h says,
\* and returns what slist.h says: of equal items slist_remove takes the first, and
\* slist_remove_at the one at the index or none.
THEOREM ListImplementsAbstract ==
  ASSUME ~AssertsEnabled, "clear" \notin Ops
  PROVE  SerialSpec => ImplementsList
<1>1. RInv /\ [SerialNext]_vars => RInv' /\ [Abstract!Next]_absvars
  BY StepSimulates, StutterSimulates
<1>2. RInv /\ [SerialNext]_vars =>
        RInv' /\ [Abstract!Next]_<<items, stage, op, wanted, index, result>>
  BY <1>1 DEF absvars
<1>3. QED
  BY <1>2, InitSimulates, PTL DEF SerialSpec, ImplementsList, Abstract!Spec
=============================================================================
