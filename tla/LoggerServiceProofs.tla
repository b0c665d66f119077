------------------------- MODULE LoggerServiceProofs -------------------------
(***************************************************************************)
(* Theorems about LoggerService: when sinks come and go one at a time,     *)
(* none goes while another task calls the sinks, and no sink that is       *)
(* called removes the next one, the list is sound under any number of logs *)
(* and every log reaches the sinks it must reach, each once.  The list     *)
(* itself is taken from SListProofs.                                       *)
(***************************************************************************)
EXTENDS LoggerService, RemoveAtLemma

L == INSTANCE SListProofs
  WITH Procs <- Tasks, Items <- Sinks, Indices <- {0}, Ops <- {"add", "remove"}

-----------------------------------------------------------------------------
(* The inductive invariant.                                                *)

\* The sinks that a task has called, and the nodes of the list from the i-th
\* on, with the one that a task has linked but not counted yet.
Passed(p) == {called[p][k] : k \in DOMAIN called[p]}
Linked == {call[q].node : q \in {t \in Tasks : call[t].pc = "finish"}}
From(i) == {order[j] : j \in i .. Len(order)} \cup Linked

\* Each node holds a sink of its own.
SinksOK ==
  /\ \A n \in From(1) : item[n] \in sinks
  /\ \A n, m \in From(1) : item[n] = item[m] => n = m
  /\ \A p \in Tasks : Passed(p) \subseteq sinks

\* A sink that is being registered was called by nobody; one that is being
\* removed must be called by nobody any more.
CallOK(q) ==
  LET c == call[q] IN
  /\ c.pc = "idle" => c.op = "none"
  /\ c.pc \in {"alloc", "link", "finish"} => c.op = "add" /\ c.wanted \in sinks
  /\ c.pc \in {"alloc", "link"} =>
       /\ \A p \in Tasks : c.wanted \notin Passed(p)
       /\ \A n \in From(1) : item[n] # c.wanted
  /\ c.pc \in {"link", "finish"} => item[c.node] = c.wanted
  /\ c.pc \in {"find", "dispose"} => c.op = "remove"
  /\ c.pc = "find" => \A p \in Tasks : c.wanted \notin due[p]

\* What a task has at each place of logger_service_vlog.
LogOK(p) ==
  /\ iter[p].live <=> log[p] \in {"iterate", "callback"}
  /\ log[p] \in {"idle", "stamp", "stamping", "format", "open"} => called[p] = <<>> /\ due[p] = {}
  /\ log[p] = "callback" => called[p] # <<>>
  /\ log[p] \notin {"idle", "callback"} => call[p].pc = "idle"
  /\ log[p] = "done" => due[p] \subseteq Passed(p)

\* Once there is a list, it stays.
ExistsOK == ~exists => \A p \in Tasks : log[p] = "idle" /\ call[p].pc = "idle"

\* An iterator has the nodes from a place on before it: it has called none of
\* their sinks, and every sink that must be called is there or was called.
AtNode(p, i) ==
  /\ iter[p].next \in (IF i <= Len(order) THEN {order[i]} ELSE Linked)
  /\ \A n \in From(i) : item[n] \notin Passed(p)
  /\ \A s \in due[p] : s \in Passed(p) \/ \E n \in From(i) : item[n] = s
AtEnd(p) == iter[p].next = NULL /\ due[p] \subseteq Passed(p)
IterOK(p) ==
  iter[p].live => AtEnd(p) \/ \E i \in 1 .. Len(order) + 1 : AtNode(p, i)

NoRepeat(p) == \A i, j \in DOMAIN called[p] : called[p][i] = called[p][j] => i = j

LogInv ==
  /\ Careful /\ ExistsOK /\ SinksOK
  /\ \A p \in Tasks : CallOK(p) /\ LogOK(p) /\ IterOK(p) /\ NoRepeat(p)

\* TypeOK without the list.
LogTypes ==
  /\ sinks \subseteq Sinks
  /\ log \in [Tasks -> {"idle", "stamp", "stamping", "format", "open", "iterate", "callback", "done"}]
  /\ clock \in 0 .. MaxTime /\ now \in [Tasks -> 0 .. MaxTime]
  /\ timestamp \in 0 .. Torn /\ printed \in [Tasks -> 0 .. Torn]
  /\ called \in [Tasks -> Seq(Sinks)] /\ due \in [Tasks -> SUBSET Sinks]

Inv == L!ListInv /\ LogTypes /\ LogInv

-----------------------------------------------------------------------------
(* The list of LoggerService is the one of SListProofs.                    *)

LEMMA ListAssumed ==
  /\ Tasks # {} /\ NULL \notin Nodes \cup Sinks
  /\ {0} \subseteq Nat /\ 0 \in {0}
  /\ {"add", "remove"} \subseteq {"add", "remove", "remove_at", "clear", "delete"}
  /\ AssertsEnabled \in BOOLEAN
BY LoggerAssumption DEF LoggerAssumption

LEMMA SameTypes == List!TypeOK <=> L!TypeOK
BY DEF List!TypeOK, L!TypeOK, List!Calls, L!Calls, List!Places, L!Places

LEMMA SameInit == List!Init <=> L!Init
BY DEF List!Init, L!Init, List!NoCall, L!NoCall, List!NoIter, L!NoIter

LEMMA SameSteps ==
  ASSUME NEW p
  PROVE  /\ List!slist_new(p) => L!slist_new(p)
         /\ List!slist_add(p) => L!slist_add(p)
         /\ List!Removal(p) => L!Removal(p)
         /\ List!AddStep(p) => L!AddStep(p)
         /\ List!RemoveStep(p) => L!RemoveStep(p)
         /\ List!End(p) => L!End(p)
<1> USE DEF List!At, L!At, List!memory, L!memory, List!ends, L!ends, List!Uses, L!Uses,
            List!Return, L!Return, List!Begin, L!Begin, List!NoCall, L!NoCall
<1>1. /\ List!slist_new(p) => L!slist_new(p)
      /\ List!slist_add(p) => L!slist_add(p)
      /\ List!Removal(p) => L!Removal(p)
      /\ List!End(p) => L!End(p)
  BY DEF List!slist_new, L!slist_new, List!slist_add, L!slist_add,
         List!Removal, L!Removal, List!End, L!End
<1>2. List!AddStep(p) => L!AddStep(p)
  BY DEF List!AddStep, L!AddStep, List!AllocNode, L!AllocNode, List!AllocFails, L!AllocFails,
         List!LinkFirst, L!LinkFirst, List!LinkNext, L!LinkNext, List!FinishAdd, L!FinishAdd
<1>3. List!RemoveStep(p) => L!RemoveStep(p)
  BY DEF List!RemoveStep, L!RemoveStep, List!NotFound, L!NotFound, List!Advance, L!Advance,
         List!Found, L!Found, List!Unlink, L!Unlink, List!UnlinkNode, L!UnlinkNode,
         List!AssertHolds, L!AssertHolds, List!RemoveAt, L!RemoveAt, List!Dispose, L!Dispose,
         List!LastWithout, L!LastWithout, List!Freed, L!Freed, List!Decremented, L!Decremented
<1>4. QED
  BY <1>1, <1>2, <1>3

\* A step of a call, by a task that is alone in one, keeps the list in shape.
LEMMA ListKept ==
  ASSUME ~AssertsEnabled, L!ListInv, NEW p \in Tasks, L!Alone(p),
         \/ List!slist_new(p) \/ List!slist_add(p) \/ List!Removal(p)
         \/ List!AddStep(p) \/ List!RemoveStep(p) \/ List!End(p)
  PROVE  L!ListInv' /\ \A q \in Tasks \ {p} : call'[q] = call[q]
<1>1. \/ L!slist_new(p) \/ L!slist_add(p) \/ L!Removal(p)
      \/ L!AddStep(p) \/ L!RemoveStep(p) \/ L!End(p)
  BY SameSteps
<1>2. "clear" \notin {"add", "remove"}
  OBVIOUS
<1>3. L!Keeps(p)' /\ \A q \in Tasks \ {p} : call'[q] = call[q]
  BY <1>1, <1>2, L!CallKeeps, ListAssumed DEF L!ListAssumption
<1>4. QED
  BY <1>3, L!StepKeeps, ListAssumed DEF L!ListAssumption
-----------------------------------------------------------------------------
(* What the logger needs to know of the list.                              *)

LEMMA Typed ==
  ASSUME Inv
  PROVE  /\ exists \in BOOLEAN /\ fault = FALSE
         /\ order \in Seq(Nodes) /\ Len(order) \in Nat /\ DOMAIN order = 1 .. Len(order)
         /\ \A i \in 1 .. Len(order) : order[i] \in Nodes
         /\ \A i, j \in 1 .. Len(order) : order[i] = order[j] => i = j
         /\ item \in [Nodes -> Sinks \cup {NULL}] /\ next \in [Nodes -> Nodes \cup {NULL}]
         /\ allocated \subseteq Nodes /\ first \in Nodes \cup {NULL}
         /\ call \in [Tasks -> L!Calls]
         /\ \A p \in Tasks :
              /\ call[p].node \in Nodes \cup {NULL}
              /\ call[p].wanted \in Sinks \cup {NULL}
              /\ call[p].at \in Nat
         /\ iter \in [Tasks -> [live : BOOLEAN, next : Nodes \cup {NULL}, index : Nat]]
         /\ NULL \notin Nodes \cup Sinks
<1>1. L!TypeOK /\ fault = FALSE /\ \A i, j \in 1 .. Len(order) : order[i] = order[j] => i = j
  BY DEF Inv, L!ListInv, L!TypeOK, L!NoFault, L!Distinct, L!Index
<1>2. /\ exists \in BOOLEAN /\ order \in Seq(Nodes)
      /\ item \in [Nodes -> Sinks \cup {NULL}] /\ next \in [Nodes -> Nodes \cup {NULL}]
      /\ allocated \subseteq Nodes /\ first \in Nodes \cup {NULL}
      /\ call \in [Tasks -> L!Calls]
      /\ iter \in [Tasks -> [live : BOOLEAN, next : Nodes \cup {NULL}, index : Nat]]
  BY <1>1 DEF L!TypeOK
<1>3. \A p \in Tasks :
        /\ call[p].node \in Nodes \cup {NULL}
        /\ call[p].wanted \in Sinks \cup {NULL}
        /\ call[p].at \in Nat
  BY <1>2 DEF L!Calls
<1>4. /\ Len(order) \in Nat /\ DOMAIN order = 1 .. Len(order)
      /\ \A i \in 1 .. Len(order) : order[i] \in Nodes
  BY <1>2, ElementOfSeq, LenProperties
<1>5. QED
  BY <1>1, <1>2, <1>3, <1>4, LoggerAssumption DEF LoggerAssumption

\* One task at most is in a call, and it is the one that has linked a node.
LEMMA OneIsAlone == ASSUME OneChange PROVE \E a \in Tasks : L!Alone(a)
BY LoggerAssumption DEF OneChange, L!Alone, LoggerAssumption

LEMMA LinkedBy ==
  ASSUME NEW a \in Tasks, L!Alone(a)
  PROVE  Linked = IF call[a].pc = "finish" THEN {call[a].node} ELSE {}
BY DEF Linked, L!Alone

\* An iterator that starts at first, or at a node that next leads to, finds
\* the nodes of the list and then the one that is linked already.
LEMMA Layout ==
  ASSUME Inv, exists
  PROVE  \E r \in Nodes \cup {NULL} :
           /\ Linked = IF r = NULL THEN {} ELSE {r}
           /\ first = IF order = <<>> THEN r ELSE order[1]
           /\ \A i \in 1 .. Len(order) :
                next[order[i]] = IF i < Len(order) THEN order[i + 1] ELSE r
           /\ r # NULL => next[r] = NULL /\ \A i \in 1 .. Len(order) : order[i] # r
           /\ From(1) \subseteq allocated
<1>1. PICK a \in Tasks : L!Alone(a)
  BY OneIsAlone DEF Inv, LogInv, Careful
<1> DEFINE c == call[a]
           r == IF c.pc = "finish" THEN c.node ELSE NULL
<1>2. L!Shape(c)
  BY <1>1 DEF Inv, L!ListInv
<1>3. c.pc # "clear"
  <2>1. c.op \in {"add", "remove", "none"}
    BY Typed DEF L!Calls
  <2>2. QED
    BY <1>2, <2>1 DEF L!Shape, L!SearchOK
<1>4. /\ L!FirstOK(c) /\ L!LinksOK(c) /\ L!MemoryOK(c) /\ L!ExtraOK(c)
  BY <1>2 DEF L!Shape
<1>5. c.pc = "finish" =>
        c.node \in Nodes /\ next[c.node] = NULL /\ \A i \in 1 .. Len(order) : order[i] # c.node
  BY <1>4 DEF L!ExtraOK, L!Index
<1>6. Linked = IF r = NULL THEN {} ELSE {r}
  BY <1>1, <1>5, LinkedBy, Typed
<1>7. first = IF order = <<>> THEN r ELSE order[1]
  BY <1>4 DEF L!FirstOK, L!Reaches
<1>8. \A i \in 1 .. Len(order) :
        next[order[i]] = IF i < Len(order) THEN order[i + 1] ELSE r
  BY <1>4 DEF L!LinksOK, L!Reaches, L!Index
<1>9. From(1) \subseteq allocated
  BY <1>3, <1>4, <1>5, <1>6 DEF L!MemoryOK, L!Kept, L!Extra, L!Index, From
<1>10. QED
  BY <1>5, <1>6, <1>7, <1>8, <1>9, Typed

-----------------------------------------------------------------------------
(* Steps that leave the nodes of the list where they are.                  *)

LEMMA SameNodes ==
  ASSUME order' = order, Linked' = Linked
  PROVE  \A i \in Nat : From(i)' = From(i)
BY DEF From

LEMMA SamePlaces ==
  ASSUME Inv, NEW q \in Tasks, order' = order, Linked' = Linked,
         iter'[q] = iter[q], Passed(q)' = Passed(q), due'[q] \subseteq due[q],
         \A n \in From(1) : item'[n] = item[n]
  PROVE  IterOK(q)'
<1> SUFFICES ASSUME iter[q].live
             PROVE  (AtEnd(q) \/ \E i \in 1 .. Len(order) + 1 : AtNode(q, i))'
  BY DEF IterOK
<1>1. CASE AtEnd(q)
  BY <1>1 DEF AtEnd
<1>2. ASSUME NEW i \in 1 .. Len(order) + 1, AtNode(q, i) PROVE AtNode(q, i)'
  <2>1. i \in Nat /\ From(i)' = From(i)
    BY SameNodes, Typed
  <2>2. \A n \in From(i) : n \in From(1)
    BY Typed DEF From
  <2>3. QED
    BY <1>2, <2>1, <2>2 DEF AtNode
<1>3. QED
  BY <1>1, <1>2 DEF Inv, LogInv, IterOK

LEMMA SameSinks ==
  ASSUME Inv, order' = order, Linked' = Linked, sinks \subseteq sinks',
         \A q \in Tasks : Passed(q)' = Passed(q),
         \A n \in From(1) : item'[n] = item[n]
  PROVE  SinksOK'
<1>1. From(1)' = From(1)
  BY SameNodes
<1>2. QED
  BY <1>1 DEF Inv, LogInv, SinksOK
-----------------------------------------------------------------------------
(* logger_service_vlog.                                                    *)

\* A step of a log that leaves the list alone goes on, or forgets the message.
LEMMA LogOnly ==
  ASSUME Inv, Careful', UNCHANGED <<listVars, sinks>>,
         NEW p \in Tasks, call[p].pc = "idle", exists,
         \A q \in Tasks \ {p} : log'[q] = log[q] /\ called'[q] = called[q] /\ due'[q] = due[q],
         \/ called'[p] = called[p] /\ due'[p] = due[p]
         \/ called'[p] = <<>> /\ due'[p] = {} /\ ~iter[p].live,
         LogOK(p)'
  PROVE  LogInv'
<1>1. /\ call' = call /\ iter' = iter /\ order' = order /\ item' = item /\ exists' = exists
  BY DEF listVars
<1>2. Linked' = Linked
  BY <1>1 DEF Linked
<1>3. \A i \in Nat : From(i)' = From(i)
  BY <1>1, <1>2, SameNodes
<1>4. ASSUME NEW q \in Tasks, called'[q] = called[q], due'[q] = due[q]
      PROVE  Passed(q)' = Passed(q) /\ IterOK(q)' /\ NoRepeat(q)'
  <2>1. Passed(q)' = Passed(q)
    BY <1>4 DEF Passed
  <2>2. IterOK(q)'
    BY <1>1, <1>2, <1>4, <2>1, SamePlaces
  <2>3. QED
    BY <1>4, <2>1, <2>2 DEF Inv, LogInv, NoRepeat
<1>5. ASSUME called'[p] = <<>>, due'[p] = {}, ~iter[p].live
      PROVE  Passed(p)' = {} /\ IterOK(p)' /\ NoRepeat(p)'
  BY <1>1, <1>5 DEF Passed, IterOK, NoRepeat
<1>6. ASSUME NEW q \in Tasks
      PROVE  Passed(q)' \subseteq Passed(q) /\ due'[q] \subseteq due[q] /\ IterOK(q)' /\ NoRepeat(q)'
  BY <1>4, <1>5
<1>7. SinksOK'
  BY <1>1, <1>3, <1>6 DEF Inv, LogInv, SinksOK
<1>8. ExistsOK'
  BY <1>1 DEF ExistsOK
<1>9. ASSUME NEW q \in Tasks PROVE LogOK(q)'
  BY <1>1, <1>4 DEF Inv, LogInv, LogOK
<1>10. ASSUME NEW q \in Tasks PROVE CallOK(q)'
  <2>1. CallOK(q)
    BY DEF Inv, LogInv
  <2>2. sinks' = sinks /\ From(1)' = From(1)
    BY <1>3
  <2>3. \A t \in Tasks \ {p} : Passed(t)' = Passed(t)
    BY <1>4
  <2>4. QED
    BY <1>1, <1>6, <2>1, <2>2, <2>3 DEF CallOK
<1>11. QED
  BY <1>6, <1>7, <1>8, <1>9, <1>10 DEF LogInv

LEMMA QuietSteps ==
  ASSUME Inv, Careful', NEW p \in Tasks,
         \/ logger_service_vlog(p) \/ WriteTimestamp(p) \/ TimestampWritten(p) \/ Format(p)
         \/ OpenFails(p) \/ SinkReturns(p) \/ LogReturns(p)
  PROVE  LogInv'
<1>1. log \in [Tasks -> {"idle", "stamp", "stamping", "format", "open", "iterate", "callback", "done"}]
      /\ called \in [Tasks -> Seq(Sinks)] /\ due \in [Tasks -> SUBSET Sinks]
  BY DEF Inv, LogTypes
<1>2. LogOK(p) /\ call[p].pc = "idle" /\ exists /\ UNCHANGED <<listVars, sinks>>
  BY
  DEF Inv, LogInv, ExistsOK, logger_service_vlog, WriteTimestamp, TimestampWritten, Format, OpenFails,
      SinkReturns, LogReturns, Goto, List!At
<1>3. \A q \in Tasks \ {p} : log'[q] = log[q] /\ called'[q] = called[q] /\ due'[q] = due[q]
  BY <1>1
  DEF logger_service_vlog, WriteTimestamp, TimestampWritten, Format, OpenFails, SinkReturns,
      LogReturns, Goto
<1>4. iter' = iter /\ call' = call
  BY <1>2 DEF listVars
<1>5. CASE LogReturns(p)
  <2>1. log[p] = "done" /\ log'[p] = "idle" /\ called'[p] = <<>> /\ due'[p] = {}
    BY <1>1, <1>5 DEF LogReturns, Goto
  <2>2. LogOK(p)'
    BY <1>2, <1>4, <2>1 DEF LogOK
  <2>3. QED
    BY <1>2, <1>3, <2>1, <2>2, LogOnly DEF LogOK
<1>6. CASE ~LogReturns(p)
  <2>1. called' = called /\ due' = due
    BY <1>6
    DEF logger_service_vlog, WriteTimestamp, TimestampWritten, Format, OpenFails, SinkReturns
  <2>2. \/ log[p] = "idle" /\ log'[p] = "stamp"
        \/ log[p] = "stamp" /\ log'[p] = "stamping"
        \/ log[p] = "stamping" /\ log'[p] = "format"
        \/ log[p] = "format" /\ log'[p] = "open"
        \/ log[p] = "open" /\ log'[p] = "done"
        \/ log[p] = "callback" /\ log'[p] = "iterate"
    BY <1>1, <1>6
    DEF logger_service_vlog, WriteTimestamp, TimestampWritten, Format, OpenFails, SinkReturns, Goto
  <2>3. Passed(p)' = Passed(p)
    BY <2>1 DEF Passed
  <2>4. LogOK(p)'
    BY <1>2, <1>4, <2>1, <2>2, <2>3 DEF LogOK
  <2>5. QED
    BY <1>2, <1>3, <2>1, <2>4, LogOnly
<1>7. QED
  BY <1>5, <1>6

\* The clock, a step of nobody, and logger_service_init.
LEMMA TickKeeps ==
  ASSUME Inv, UNCHANGED <<order, item, call, iter, sinks, log, called, due>>,
         exists' = exists \/ exists'
  PROVE  LogInv'
<1>1. /\ call' = call /\ iter' = iter /\ order' = order /\ item' = item
      /\ sinks' = sinks /\ log' = log /\ called' = called /\ due' = due
  OBVIOUS
<1>2. Careful' /\ ExistsOK'
  BY <1>1 DEF Inv, LogInv, Careful, OneChange, RemovalAlone, NextSinkStays, ExistsOK
<1>3. Linked' = Linked
  BY <1>1 DEF Linked
<1>4. From(1)' = From(1)
  BY <1>1, <1>3, SameNodes
<1>5. \A q \in Tasks : Passed(q)' = Passed(q)
  BY <1>1 DEF Passed
<1>6. SinksOK'
  BY <1>1, <1>3, <1>5, SameSinks
<1>7. ASSUME NEW q \in Tasks PROVE CallOK(q)' /\ LogOK(q)' /\ IterOK(q)' /\ NoRepeat(q)'
  <2>1. IterOK(q)'
    BY <1>1, <1>3, <1>5, SamePlaces
  <2>2. CallOK(q)'
    BY <1>1, <1>4, <1>5 DEF Inv, LogInv, CallOK
  <2>3. LogOK(q)' /\ NoRepeat(q)'
    BY <1>1, <1>5 DEF Inv, LogInv, LogOK, NoRepeat
  <2>4. QED
    BY <2>1, <2>2, <2>3
<1>8. QED
  BY <1>2, <1>6, <1>7 DEF LogInv
\* A step of an iterator: the nodes of the list stay, and what p has called and
\* must call is right again.
LEMMA IteratorOnly ==
  ASSUME Inv, Careful', NEW p \in Tasks, call[p].pc = "idle", exists, exists',
         UNCHANGED <<order, item, call, sinks>>,
         \A q \in Tasks \ {p} :
           log'[q] = log[q] /\ called'[q] = called[q] /\ due'[q] = due[q] /\ iter'[q] = iter[q],
         iter[p].live \/ iter'[p].live,
         \A s \in Passed(p)' : s \in Passed(p) \/ \E n \in From(1) : item[n] = s,
         LogOK(p)', IterOK(p)', NoRepeat(p)'
  PROVE  LogInv'
<1>1. Linked' = Linked
  BY DEF Linked
<1>2. From(1)' = From(1)
  BY <1>1, SameNodes
<1>3. \A q \in Tasks \ {p} : Passed(q)' = Passed(q)
  BY DEF Passed
<1>4. ASSUME NEW q \in Tasks \ {p} PROVE LogOK(q)' /\ IterOK(q)' /\ NoRepeat(q)'
  <2>1. IterOK(q)'
    BY <1>1, <1>3, SamePlaces
  <2>2. LogOK(q)' /\ NoRepeat(q)'
    BY <1>3 DEF Inv, LogInv, LogOK, NoRepeat
  <2>3. QED
    BY <2>1, <2>2
<1>5. SinksOK'
  <2>1. SinksOK
    BY DEF Inv, LogInv
  <2>2. \A q \in Tasks : Passed(q)' \subseteq sinks
    BY <1>3, <2>1 DEF SinksOK
  <2>3. QED
    BY <1>2, <2>1, <2>2 DEF SinksOK
<1>6. \A q \in Tasks : call[q].op # "remove"
  BY DEF Inv, LogInv, Careful, RemovalAlone, CallOK
<1>7. ASSUME NEW q \in Tasks PROVE CallOK(q)'
  <2>1. CallOK(q) /\ call[q].op # "remove"
    BY <1>6 DEF Inv, LogInv
  <2>2. call[q].pc # "find"
    BY <2>1 DEF CallOK
  <2>3. ASSUME call[q].pc \in {"alloc", "link"}, NEW t \in Tasks
        PROVE  call[q].wanted \notin Passed(t)'
    BY <1>3, <2>1, <2>3 DEF CallOK
  <2>4. QED
    BY <1>2, <2>1, <2>2, <2>3 DEF CallOK
<1>8. QED
  BY <1>4, <1>5, <1>7 DEF LogInv, ExistsOK

LEMMA LogTyped ==
  ASSUME Inv
  PROVE  /\ log \in [Tasks -> {"idle", "stamp", "stamping", "format", "open", "iterate", "callback", "done"}]
         /\ called \in [Tasks -> Seq(Sinks)] /\ due \in [Tasks -> SUBSET Sinks]
BY DEF Inv, LogTypes

LEMMA OpenSinksKeeps ==
  ASSUME Inv, Careful', NEW p \in Tasks, OpenSinks(p)
  PROVE  LogInv'
<1>1. /\ log[p] = "open" /\ call[p].pc = "idle" /\ exists /\ exists'
      /\ log'[p] = "iterate" /\ called' = called /\ due'[p] = Listed
      /\ iter'[p].live /\ iter'[p].next = first
      /\ UNCHANGED <<order, item, call, sinks>>
  BY Typed, LogTyped
  DEF OpenSinks, Goto, List!At, List!slist_iter_new, List!Started, List!memory, List!ends
<1>2. \A q \in Tasks \ {p} :
        log'[q] = log[q] /\ called'[q] = called[q] /\ due'[q] = due[q] /\ iter'[q] = iter[q]
  BY Typed, LogTyped DEF OpenSinks, Goto, List!slist_iter_new
<1>3. called[p] = <<>> /\ Passed(p) = {} /\ Passed(p)' = {}
  BY <1>1 DEF Inv, LogInv, LogOK, Passed
<1>4. LogOK(p)' /\ NoRepeat(p)'
  BY <1>1, <1>3 DEF LogOK, NoRepeat
<1>5. PICK r \in Nodes \cup {NULL} :
        /\ Linked = IF r = NULL THEN {} ELSE {r}
        /\ first = IF order = <<>> THEN r ELSE order[1]
  BY <1>1, Layout
<1>6. Linked' = Linked /\ \A i \in Nat : From(i)' = From(i)
  BY <1>1, SameNodes DEF Linked
<1>7. IterOK(p)'
  <2>1. \A s \in Listed : \E n \in From(1) : item[n] = s
    BY Typed DEF Listed, From
  <2>2. CASE Len(order) = 0 /\ r = NULL
    <3>1. order = <<>>
      BY <2>2, Typed, EmptySeq
    <3>2. Listed = {}
      BY <2>2, Typed DEF Listed
    <3>3. QED
      BY <1>1, <1>5, <2>2, <3>1, <3>2 DEF IterOK, AtEnd
  <2>3. CASE Len(order) = 0 /\ r # NULL
    <3>1. order = <<>>
      BY <2>3, Typed, EmptySeq
    <3>2. AtNode(p, 1)'
      BY <1>1, <1>3, <1>5, <1>6, <2>1, <2>3, <3>1 DEF AtNode
    <3>3. QED
      BY <1>1, <2>3, <3>2 DEF IterOK
  <2>4. CASE Len(order) # 0
    <3>1. order # <<>> /\ 1 <= Len(order)
      BY <2>4, Typed
    <3>2. AtNode(p, 1)'
      BY <1>1, <1>3, <1>5, <1>6, <2>1, <3>1 DEF AtNode
    <3>3. 1 \in 1 .. Len(order) + 1
      BY Typed
    <3>4. QED
      BY <1>1, <3>2, <3>3 DEF IterOK
  <2>5. QED
    BY <2>2, <2>3, <2>4
<1>8. QED
  BY <1>1, <1>2, <1>3, <1>4, <1>7, IteratorOnly

LEMMA CloseSinksKeeps ==
  ASSUME Inv, Careful', NEW p \in Tasks, CloseSinks(p)
  PROVE  LogInv'
<1>1. /\ log[p] = "iterate" /\ call[p].pc = "idle" /\ iter[p].live /\ iter[p].next = NULL
      /\ log'[p] = "done" /\ called' = called /\ due' = due
      /\ ~iter'[p].live /\ exists' = exists
      /\ UNCHANGED <<order, item, call, sinks>>
  BY Typed, LogTyped
  DEF CloseSinks, Goto, List!At, List!slist_iter_delete, List!NoIter, List!memory, List!ends
<1>2. \A q \in Tasks \ {p} :
        log'[q] = log[q] /\ called'[q] = called[q] /\ due'[q] = due[q] /\ iter'[q] = iter[q]
  BY Typed, LogTyped DEF CloseSinks, Goto, List!slist_iter_delete
<1>3. exists
  BY <1>1 DEF Inv, LogInv, ExistsOK
<1>4. Passed(p)' = Passed(p)
  BY <1>1 DEF Passed
<1>5. due[p] \subseteq Passed(p)
  <2>1. ASSUME NEW i \in 1 .. Len(order) + 1, AtNode(p, i) PROVE FALSE
    <3>1. iter[p].next \in Nodes
      <4>1. CASE i <= Len(order)
        BY <2>1, <4>1, Typed DEF AtNode
      <4>2. CASE ~(i <= Len(order))
        <5>1. PICK r \in Nodes \cup {NULL} : Linked = IF r = NULL THEN {} ELSE {r}
          BY <1>3, Layout
        <5>2. QED
          BY <2>1, <4>2, <5>1 DEF AtNode
      <4>3. QED
        BY <4>1, <4>2
    <3>2. QED
      BY <1>1, <3>1, Typed
  <2>2. QED
    BY <1>1, <2>1 DEF Inv, LogInv, IterOK, AtEnd
<1>6. LogOK(p)' /\ NoRepeat(p)' /\ IterOK(p)'
  BY <1>1, <1>4, <1>5 DEF Inv, LogInv, LogOK, NoRepeat, IterOK
<1>7. QED
  BY <1>1, <1>2, <1>3, <1>4, <1>6, IteratorOnly
\* The sink that is called is of a node that is allocated, and the iterator goes
\* on to the node after it: one that it has not passed.
LEMMA NextNode ==
  ASSUME Inv, NEW p \in Tasks, exists, iter[p].live, iter[p].next # NULL
  PROVE  LET n == iter[p].next IN
         /\ n \in From(1) /\ n \in Nodes /\ n \in allocated /\ item[n] \notin Passed(p)
         /\ \/ /\ next[n] = NULL
               /\ \A s \in due[p] : s \in Passed(p) \/ item[n] = s
            \/ \E i \in 1 .. Len(order) + 1 :
                 /\ next[n] \in (IF i <= Len(order) THEN {order[i]} ELSE Linked)
                 /\ \A m \in From(i) : m # n /\ m \in From(1) /\ item[m] \notin Passed(p)
                 /\ \A s \in due[p] :
                      s \in Passed(p) \/ item[n] = s \/ \E m \in From(i) : item[m] = s
<1> DEFINE n == iter[p].next
<1>0. Len(order) \in Nat
  BY Typed
<1>1. PICK i \in 1 .. Len(order) + 1 : AtNode(p, i)
  BY DEF Inv, LogInv, IterOK, AtEnd
<1>2. PICK r \in Nodes \cup {NULL} :
        /\ Linked = IF r = NULL THEN {} ELSE {r}
        /\ \A j \in 1 .. Len(order) :
             next[order[j]] = IF j < Len(order) THEN order[j + 1] ELSE r
        /\ r # NULL => next[r] = NULL /\ \A j \in 1 .. Len(order) : order[j] # r
        /\ From(1) \subseteq allocated
  BY Layout
<1>3. n \in From(i)
  BY <1>1, Typed DEF AtNode, From
<1>4. \A m \in From(i) : m \in From(1)
  BY Typed DEF From
<1>5. n \in From(1) /\ n \in Nodes /\ n \in allocated /\ item[n] \notin Passed(p)
  BY <1>1, <1>2, <1>3, <1>4, Typed DEF AtNode
<1>6. CASE i <= Len(order) /\ ~(i = Len(order) /\ r = NULL)
  <2>1. n = order[i]
    BY <1>1, <1>6 DEF AtNode
  <2>2. i + 1 \in 1 .. Len(order) + 1 /\ i \in 1 .. Len(order)
    BY <1>0, <1>6
  <2>3. next[n] \in (IF i + 1 <= Len(order) THEN {order[i + 1]} ELSE Linked)
    BY <1>0, <1>2, <1>6, <2>1, <2>2
  <2>4. \A m \in From(i + 1) : m \in From(i) /\ m # n
    BY <1>2, <2>1, <2>2, Typed DEF From
  <2>5. \A m \in From(i) : m = n \/ m \in From(i + 1)
    BY <2>1, <2>2, Typed DEF From
  <2>6. \A m \in From(i + 1) : m # n /\ m \in From(1) /\ item[m] \notin Passed(p)
    BY <1>1, <1>4, <2>4 DEF AtNode
  <2>7. \A s \in due[p] : s \in Passed(p) \/ item[n] = s \/ \E m \in From(i + 1) : item[m] = s
    BY <1>1, <2>5 DEF AtNode
  <2>8. QED
    BY <1>5, <2>2, <2>3, <2>6, <2>7
<1>7. CASE i = Len(order) /\ r = NULL
  <2>1. n = order[i] /\ i \in 1 .. Len(order)
    BY <1>1, <1>7, Typed DEF AtNode
  <2>2. next[n] = NULL /\ \A m \in From(i) : m = n
    BY <1>2, <1>7, <2>1, Typed DEF From
  <2>3. QED
    BY <1>1, <1>5, <2>2 DEF AtNode
<1>8. CASE i = Len(order) + 1
  <2>1. n \in Linked
    BY <1>1, <1>8, Typed DEF AtNode
  <2>2. next[n] = NULL /\ \A m \in From(i) : m = n
    BY <1>2, <1>8, <2>1, Typed DEF From
  <2>3. QED
    BY <1>1, <1>5, <2>2 DEF AtNode
<1>9. \/ i <= Len(order) /\ ~(i = Len(order) /\ r = NULL)
      \/ i = Len(order) /\ r = NULL
      \/ i = Len(order) + 1
  BY <1>0
<1>10. QED
  BY <1>6, <1>7, <1>8, <1>9

LEMMA CallSinkKeeps ==
  ASSUME Inv, Careful', NEW p \in Tasks, CallSink(p)
  PROVE  LogInv' /\ ~fault'
<1> DEFINE n == iter[p].next
<1>1. /\ log[p] = "iterate" /\ call[p].pc = "idle" /\ iter[p].live /\ n # NULL
      /\ log'[p] = "callback" /\ called'[p] = Append(called[p], item[n]) /\ due' = due
      /\ iter'[p].live /\ iter'[p].next = next[n] /\ fault' = (n \notin allocated)
      /\ exists' = exists /\ UNCHANGED <<order, item, call, sinks>>
  BY Typed, LogTyped
  DEF CallSink, Goto, List!At, List!slist_iter_next, List!Moved, List!Uses, List!memory, List!ends
<1>2. \A q \in Tasks \ {p} :
        log'[q] = log[q] /\ called'[q] = called[q] /\ due'[q] = due[q] /\ iter'[q] = iter[q]
  BY Typed, LogTyped DEF CallSink, Goto, List!slist_iter_next
<1>3. exists
  BY <1>1 DEF Inv, LogInv, ExistsOK
<1>4. n \in From(1) /\ n \in Nodes /\ n \in allocated /\ item[n] \notin Passed(p)
  BY <1>1, <1>3, NextNode
<1>5. item[n] \in Sinks
  BY <1>4, LogTyped DEF Inv, LogInv, SinksOK, LogTypes
<1>6. /\ Len(called'[p]) = Len(called[p]) + 1 /\ Len(called[p]) \in Nat
      /\ DOMAIN called[p] = 1 .. Len(called[p]) /\ DOMAIN called'[p] = 1 .. Len(called[p]) + 1
      /\ called'[p][Len(called[p]) + 1] = item[n]
      /\ \A k \in 1 .. Len(called[p]) : called'[p][k] = called[p][k]
  BY <1>1, <1>5, LogTyped, AppendProperties, LenProperties
<1>7. \A s : s \in Passed(p)' <=> s \in Passed(p) \/ s = item[n]
  <2>1. Passed(p)' = {called'[p][k] : k \in DOMAIN called'[p]}
    BY DEF Passed
  <2> DEFINE old == called[p]
             new == called'[p]
             e == Len(old)
             i == item[n]
  <2>2. /\ e \in Nat /\ DOMAIN old = 1 .. e /\ DOMAIN new = 1 .. e + 1
        /\ new[e + 1] = i /\ \A k \in 1 .. e : new[k] = old[k]
    BY ONLY <1>6
  <2>3. Passed(p)' = {new[k] : k \in DOMAIN new} /\ Passed(p) = {old[k] : k \in DOMAIN old}
    BY ONLY <2>1 DEF Passed
  <2> HIDE DEF old, new, e, i
  <2>4. \A s : (\E k \in 1 .. e + 1 : new[k] = s) <=> (\E k \in 1 .. e : old[k] = s) \/ s = i
    BY ONLY <2>2
  <2>5. \A s : s \in Passed(p)' <=> s \in Passed(p) \/ s = i
    BY ONLY <2>2, <2>3, <2>4
  <2>6. QED
    BY ONLY <2>5 DEF i
<1>8. NoRepeat(p)'
  <2>1. NoRepeat(p)
    BY DEF Inv, LogInv
  <2>2. \A k \in 1 .. Len(called[p]) : called[p][k] # item[n]
    BY <1>4, <1>6 DEF Passed
  <2>3. ASSUME NEW k \in DOMAIN called'[p], NEW m \in DOMAIN called'[p],
               called'[p][k] = called'[p][m]
        PROVE  k = m
    <3> DEFINE old == called[p]
               new == called'[p]
               e == Len(old)
               i == item[n]
    <3>1. /\ e \in Nat /\ k \in 1 .. e + 1 /\ m \in 1 .. e + 1 /\ new[k] = new[m]
          /\ new[e + 1] = i /\ \A j \in 1 .. e : new[j] = old[j] /\ old[j] # i
      BY ONLY <1>6, <2>2, <2>3
    <3>2. \A j, l \in 1 .. e : old[j] = old[l] => j = l
      BY ONLY <1>6, <2>1 DEF NoRepeat
    <3> HIDE DEF old, new, e, i
    <3>3. QED
      BY ONLY <3>1, <3>2
  <2>4. QED
    BY <2>3 DEF NoRepeat
<1>9. LogOK(p)'
  <2>1. called'[p] # <<>>
    BY <1>6, EmptySeq
  <2>2. QED
    BY <1>1, <2>1 DEF LogOK
<1>10. Linked' = Linked /\ \A i \in Nat : From(i)' = From(i)
  BY <1>1, SameNodes DEF Linked
<1>11. IterOK(p)'
  <2>1. CASE next[n] = NULL /\ \A s \in due[p] : s \in Passed(p) \/ item[n] = s
    BY <1>1, <1>7, <2>1 DEF IterOK, AtEnd
  <2>2. ASSUME NEW i \in 1 .. Len(order) + 1,
               next[n] \in (IF i <= Len(order) THEN {order[i]} ELSE Linked),
               \A m \in From(i) : m # n /\ m \in From(1) /\ item[m] \notin Passed(p),
               \A s \in due[p] : s \in Passed(p) \/ item[n] = s \/ \E m \in From(i) : item[m] = s
        PROVE  IterOK(p)'
    <3>1. \A m \in From(i) : item[m] # item[n]
      BY <1>4, <2>2 DEF Inv, LogInv, SinksOK
    <3>2. From(i)' = From(i)
      BY <1>10, Typed
    <3>3. AtNode(p, i)'
      BY <1>1, <1>7, <1>10, <2>2, <3>1, <3>2 DEF AtNode
    <3>4. i \in (1 .. Len(order) + 1)'
      BY <1>1
    <3>5. QED
      BY <3>3, <3>4 DEF IterOK
  <2>3. QED
    BY <1>1, <1>3, <2>1, <2>2, NextNode
<1>12. \A s \in Passed(p)' : s \in Passed(p) \/ \E m \in From(1) : item[m] = s
  BY <1>4, <1>7
<1>13. QED
  BY <1>1, <1>2, <1>3, <1>4, <1>8, <1>9, <1>11, <1>12, IteratorOnly

-----------------------------------------------------------------------------
(* An iterator leaves the list in shape: CallSink finds its node allocated. *)

LEMMA ListStays ==
  ASSUME Inv, UNCHANGED <<exists, first, last, count, next, item, allocated, call, order>>,
         iter' \in [Tasks -> [live : BOOLEAN, next : Nodes \cup {NULL}, index : Nat]], fault' = FALSE
  PROVE  L!ListInv'
<1>1. L!ListInv
  BY DEF Inv
<1>2. L!TypeOK'
  BY <1>1 DEF L!ListInv, L!TypeOK
<1>3. L!OneCall' /\ L!Distinct'
  BY <1>1 DEF L!ListInv, L!OneCall, L!Distinct, L!Index
<1>4. ASSUME NEW q \in Tasks, L!Alone(q)' PROVE L!Shape(call[q])'
  <2>1. L!Alone(q) /\ L!Shape(call[q])
    BY <1>1, <1>4 DEF L!ListInv, L!Alone
  <2>2. QED
    BY <2>1
    DEF L!Shape, L!FirstOK, L!LastOK, L!CountOK, L!LinksOK, L!MemoryOK, L!ExtraOK, L!SearchOK,
        L!Reaches, L!Kept, L!Extra, L!Index, L!LastWithout
<1>5. QED
  BY <1>2, <1>3, <1>4 DEF L!ListInv, L!NoFault

LEMMA IteratorsKeepList ==
  ASSUME Inv, NEW p \in Tasks,
         List!slist_iter_new(p) \/ List!slist_iter_next(p) \/ List!slist_iter_delete(p), ~fault'
  PROVE  L!ListInv'
<1>1. UNCHANGED <<exists, first, last, count, next, item, allocated, call, order>>
  BY DEF List!slist_iter_new, List!slist_iter_next, List!slist_iter_delete, List!memory, List!ends
<1>2. iter' \in [Tasks -> [live : BOOLEAN, next : Nodes \cup {NULL}, index : Nat]]
  <2>1. CASE List!slist_iter_new(p)
    BY <2>1, Typed DEF List!slist_iter_new, List!Started
  <2>2. CASE List!slist_iter_next(p)
    <3>1. /\ iter' = [iter EXCEPT ![p] = List!Moved(iter[p])]
          /\ iter[p].next \in Nodes
          /\ iter[p] \in [live : BOOLEAN, next : Nodes \cup {NULL}, index : Nat]
      BY <2>2, Typed DEF List!slist_iter_next
    <3>2. List!Moved(iter[p]) \in [live : BOOLEAN, next : Nodes \cup {NULL}, index : Nat]
      <4>1. next[iter[p].next] \in Nodes \cup {NULL}
        BY <3>1, Typed
      <4>2. List!Moved(iter[p]) =
              [iter[p] EXCEPT !.next = next[iter[p].next], !.index = iter[p].index + 1]
        BY DEF List!Moved
      <4>3. iter[p].index + 1 \in Nat
        BY <3>1
      <4>4. QED
        BY <3>1, <4>1, <4>2, <4>3
    <3>3. QED
      BY <3>1, <3>2, Typed
  <2>3. CASE List!slist_iter_delete(p)
    BY <2>3, Typed DEF List!slist_iter_delete, List!NoIter
  <2>4. QED
    BY <2>1, <2>2, <2>3
<1>3. fault' = FALSE
  <2>1. fault' = fault \/ fault' = (iter[p].next \notin allocated)
    BY DEF List!slist_iter_new, List!slist_iter_next, List!slist_iter_delete, List!Uses
  <2>2. L!TypeOK
    BY DEF Inv, L!ListInv
  <2>3. QED
    BY <2>1, <2>2 DEF L!TypeOK
<1>4. QED
  BY <1>1, <1>2, <1>3, ListStays

-----------------------------------------------------------------------------
(* Registering and unregistering.                                          *)

\* A step of a call, by a task that is alone in one, that neither links nor
\* unlinks a node.
LEMMA CallOnly ==
  ASSUME Inv, Careful', NEW p \in Tasks, L!Alone(p),
         \A q \in Tasks \ {p} : call'[q] = call[q],
         call[p].pc # "finish", call'[p].pc # "finish",
         UNCHANGED <<iter, log, called, order>>, exists', sinks \subseteq sinks',
         \A q \in Tasks : due'[q] \subseteq due[q],
         \A n \in From(1) : item'[n] = item[n],
         log[p] \in {"idle", "callback"},
         From(1)' = From(1) => CallOK(p)'
  PROVE  LogInv'
<1>1. Linked' = Linked
  <2>1. L!Alone(p)'
    BY DEF L!Alone
  <2>2. QED
    BY <2>1 DEF Linked, L!Alone
<1>2. From(1)' = From(1)
  BY <1>1, SameNodes
<1>3. \A q \in Tasks : Passed(q)' = Passed(q)
  BY DEF Passed
<1>4. SinksOK'
  BY <1>1, <1>3, SameSinks
<1>5. ASSUME NEW q \in Tasks PROVE LogOK(q)' /\ IterOK(q)' /\ NoRepeat(q)'
  <2>1. IterOK(q)'
    BY <1>1, <1>3, SamePlaces
  <2>2. NoRepeat(q)'
    BY DEF Inv, LogInv, NoRepeat
  <2>3. LogOK(q)'
    <3>1. LogOK(q)
      BY DEF Inv, LogInv
    <3>2. log[q] \notin {"idle", "callback"} => call'[q].pc = "idle"
      BY <3>1 DEF LogOK
    <3>3. QED
      BY <1>3, <3>1, <3>2 DEF LogOK
  <2>4. QED
    BY <2>1, <2>2, <2>3
<1>6. ASSUME NEW q \in Tasks PROVE CallOK(q)'
  <2>1. CASE q = p
    BY <1>2, <2>1
  <2>2. CASE q # p
    <3>1. CallOK(q) /\ call[q].pc = "idle" /\ call'[q] = call[q]
      BY <2>2 DEF Inv, LogInv, L!Alone
    <3>2. QED
      BY <3>1 DEF CallOK
  <2>3. QED
    BY <2>1, <2>2
<1>7. QED
  BY <1>4, <1>5, <1>6 DEF LogInv, ExistsOK

LEMMA AloneFromHere ==
  ASSUME Careful', NEW p \in Tasks, call'[p].pc # "idle",
         \A q \in Tasks \ {p} : call'[q] = call[q]
  PROVE  L!Alone(p)
BY DEF Careful, OneChange, L!Alone

LEMMA AloneSoFar ==
  ASSUME OneChange, NEW p \in Tasks, call[p].pc # "idle"
  PROVE  L!Alone(p)
BY DEF OneChange, L!Alone

LEMMA InitKeeps ==
  ASSUME ~AssertsEnabled, Inv, NEW p \in Tasks, logger_service_init(p)
  PROVE  L!ListInv' /\ LogInv'
<1>1. /\ UNCHANGED <<order, item, call, iter, sinks, log, called, due>> /\ exists' /\ ~exists
  BY DEF logger_service_init, List!slist_new, List!memory, logVars
<1>2. L!Alone(p)
  BY <1>1 DEF Inv, LogInv, ExistsOK, L!Alone
<1>3. L!ListInv'
  BY <1>2, ListKept DEF Inv, logger_service_init
<1>4. QED
  BY <1>1, <1>3, TickKeeps

LEMMA RegisterKeeps ==
  ASSUME ~AssertsEnabled, Inv, Careful', NEW p \in Tasks,
         logger_service_register_sink(p)
  PROVE  L!ListInv' /\ LogInv'
<1>1. PICK x \in Sinks : List!Begin(p, "add", x, 0, NULL, "alloc")
  BY DEF logger_service_register_sink, List!slist_add
<1>2. /\ call[p].pc = "idle" /\ exists /\ exists' = exists
      /\ call'[p].pc = "alloc" /\ call'[p].op = "add" /\ call'[p].wanted = x
      /\ \A q \in Tasks \ {p} : call'[q] = call[q]
      /\ UNCHANGED <<iter, order, item>>
  BY <1>1, Typed DEF List!Begin, List!At, List!NoCall, List!memory
<1>3. /\ log[p] \in {"idle", "callback"} /\ x \notin sinks /\ sinks' = sinks \cup {x}
      /\ log' = log /\ called' = called /\ due' = due
  BY <1>2 DEF logger_service_register_sink, MayChange, logVars
<1>4. L!Alone(p)
  BY <1>2, AloneFromHere
<1>5. L!ListInv'
  BY <1>4, ListKept DEF Inv, logger_service_register_sink
<1>6. ASSUME From(1)' = From(1) PROVE CallOK(p)'
  <2>1. SinksOK
    BY DEF Inv, LogInv
  <2>2. \A n \in From(1)' : item'[n] # x
    BY <1>2, <1>3, <1>6, <2>1 DEF SinksOK
  <2>3. \A q \in Tasks : Passed(q)' = Passed(q) /\ x \notin Passed(q)
    BY <1>3, <2>1 DEF Passed, SinksOK
  <2>4. QED
    BY <1>2, <1>3, <2>2, <2>3 DEF CallOK
<1>7. QED
  BY <1>2, <1>3, <1>4, <1>5, <1>6, CallOnly

LEMMA UnregisterKeeps ==
  ASSUME ~AssertsEnabled, Inv, Careful', NEW p \in Tasks,
         logger_service_unregister_sink(p)
  PROVE  L!ListInv' /\ LogInv'
<1>1. PICK s : Unregister(p, s) /\ log[p] \in {"idle", "callback"}
  BY DEF logger_service_unregister_sink, MayChange
<1>2. /\ List!Removal(p) /\ call'[p].op = "remove" /\ call'[p].wanted = s
      /\ due' = [q \in Tasks |-> due[q] \ {s}]
      /\ UNCHANGED <<sinks, log, called>>
  BY <1>1 DEF Unregister
<1>3. \E o \in {"remove", "remove_at"}, x \in Sinks \cup {NULL} :
        List!Begin(p, o, x, 0, first, "find")
  BY <1>2 DEF List!Removal
<1>4. /\ call[p].pc = "idle" /\ exists /\ exists' = exists /\ call'[p].pc = "find"
      /\ \A q \in Tasks \ {p} : call'[q] = call[q]
      /\ UNCHANGED <<iter, order, item>>
  BY <1>3, Typed DEF List!Begin, List!At, List!NoCall, List!memory
<1>5. L!Alone(p)
  BY <1>4, AloneFromHere
<1>6. L!ListInv'
  BY <1>2, <1>5, ListKept DEF Inv
<1>7. \A q \in Tasks : due'[q] \subseteq due[q] /\ s \notin due'[q]
  BY <1>2
<1>8. CallOK(p)'
  BY <1>2, <1>4, <1>7 DEF CallOK
<1>9. QED
  BY <1>1, <1>2, <1>4, <1>5, <1>6, <1>7, <1>8, CallOnly
-----------------------------------------------------------------------------
(* A call goes on.                                                         *)

LEMMA CallUnderWay ==
  ASSUME Inv, NEW p \in Tasks, call[p].pc # "idle"
  PROVE  /\ L!Alone(p) /\ exists /\ log[p] \in {"idle", "callback"} /\ CallOK(p)
         /\ L!Shape(call[p])
<1>1. L!Alone(p)
  BY AloneSoFar DEF Inv, LogInv, Careful
<1>2. QED
  BY <1>1 DEF Inv, LogInv, ExistsOK, LogOK, L!ListInv

LEMMA PlainSteps ==
  ASSUME Inv, Careful', NEW p \in Tasks, UNCHANGED <<sinks, clock, logVars>>,
         \/ List!AllocNode(p) \/ List!AllocFails(p) \/ List!NotFound(p) \/ List!Advance(p)
         \/ List!Dispose(p) \/ List!End(p)
  PROVE  LogInv'
<1>1. /\ call[p].pc \in {"alloc", "find", "dispose", "returned"}
      /\ UNCHANGED <<exists, iter, order>>
      /\ \A q \in Tasks \ {p} : call'[q] = call[q]
  BY Typed
  DEF List!AllocNode, List!AllocFails, List!NotFound, List!Advance, List!Dispose, List!End,
      List!At, List!Return, List!memory, List!ends
<1>2. /\ L!Alone(p) /\ exists /\ log[p] \in {"idle", "callback"} /\ CallOK(p)
  BY <1>1, CallUnderWay
<1>3. UNCHANGED <<sinks, log, called, due>> /\ \A q \in Tasks : Passed(q)' = Passed(q)
  BY DEF logVars, Passed
<1>4. call \in [Tasks -> L!Calls] /\ call[p] \in L!Calls
  BY Typed
<1>5. CASE List!AllocNode(p)
  <2>1. PICK n \in Nodes \ allocated :
          /\ item' = [item EXCEPT ![n] = call[p].wanted]
          /\ call' = [call EXCEPT ![p].pc = "link", ![p].node = n]
          /\ call[p].pc = "alloc"
    BY <1>5 DEF List!AllocNode, List!At
  <2>2. \A m \in From(1) : m # n
    BY <1>2, Layout
  <2>3. /\ call'[p].pc = "link" /\ call'[p].node = n /\ call'[p].wanted = call[p].wanted
        /\ call'[p].op = call[p].op
    BY <1>4, <2>1 DEF L!Calls
  <2>4. item'[n] = call[p].wanted /\ \A m \in From(1) : item'[m] = item[m]
    BY <2>1, <2>2, Typed
  <2>5. From(1)' = From(1) => CallOK(p)'
    BY <1>2, <1>3, <2>1, <2>3, <2>4 DEF CallOK
  <2>6. QED
    BY <1>1, <1>2, <1>3, <2>1, <2>3, <2>4, <2>5, CallOnly
<1>6. CASE List!AllocFails(p) \/ List!NotFound(p) \/ List!Dispose(p) \/ List!End(p)
  <2>1. /\ call'[p].pc = "returned" \/ (call'[p].pc = "idle" /\ call'[p].op = "none")
        /\ item' = item
    BY <1>4, <1>6
    DEF List!AllocFails, List!NotFound, List!Dispose, List!End, List!Return, List!NoCall,
        List!memory, L!Calls
  <2>2. CallOK(p)'
    BY <2>1 DEF CallOK
  <2>3. QED
    BY <1>1, <1>2, <1>3, <2>1, <2>2, CallOnly
<1>7. CASE List!Advance(p)
  <2>1. /\ call[p].pc = "find" /\ call'[p].pc = "find" /\ call'[p].op = call[p].op
        /\ call'[p].wanted = call[p].wanted /\ item' = item
    BY <1>4, <1>7 DEF List!Advance, List!At, List!memory, L!Calls
  <2>2. CallOK(p)'
    BY <1>1, <1>2, <1>3, <2>1 DEF CallOK
  <2>3. QED
    BY <1>1, <1>2, <1>3, <2>1, <2>2, CallOnly
<1>8. QED
  BY <1>5, <1>6, <1>7

\* A new node comes into the list: with first or the next of the last node at
\* LinkFirst and LinkNext, and in its place at FinishAdd.
LEMMA LinkKeeps ==
  ASSUME Inv, Careful', NEW p \in Tasks, UNCHANGED <<sinks, clock, logVars>>,
         List!LinkFirst(p) \/ List!LinkNext(p)
  PROVE  LogInv'
<1> DEFINE n == call[p].node
<1>1. call[p].pc = "link" /\ call \in [Tasks -> L!Calls] /\ call[p] \in L!Calls
  BY Typed DEF List!LinkFirst, List!LinkNext, List!At
<1>2. /\ UNCHANGED <<exists, iter, order, item>>
      /\ \A q \in Tasks \ {p} : call'[q] = call[q]
      /\ call'[p].pc = "finish" /\ call'[p].node = n /\ call'[p].wanted = call[p].wanted
      /\ call'[p].op = call[p].op
  <2>1. call' = [call EXCEPT ![p].pc = "finish"] /\ UNCHANGED <<exists, iter, order, item>>
    BY DEF List!LinkFirst, List!LinkNext, List!memory, List!ends
  <2>2. QED
    BY <1>1, <2>1 DEF L!Calls
<1>3. /\ L!Alone(p) /\ exists /\ log[p] \in {"idle", "callback"} /\ CallOK(p)
  BY <1>1, CallUnderWay
<1>4. UNCHANGED <<sinks, log, called, due>> /\ \A q \in Tasks : Passed(q)' = Passed(q)
  BY DEF logVars, Passed
<1>5. Linked = {} /\ Linked' = {n}
  <2>1. L!Alone(p)'
    BY <1>2, <1>3 DEF L!Alone
  <2>2. QED
    BY <1>1, <1>2, <1>3, <2>1 DEF Linked, L!Alone
<1>6. \A i \in Nat : From(i)' = From(i) \cup {n}
  BY <1>2, <1>5 DEF From
<1>7. /\ item[n] = call[p].wanted /\ item[n] \in sinks
      /\ \A q \in Tasks : item[n] \notin Passed(q)
      /\ \A m \in From(1) : item[m] # item[n]
  BY <1>1, <1>3 DEF CallOK
<1>8. SinksOK'
  <2>1. SinksOK
    BY DEF Inv, LogInv
  <2>2. From(1)' = From(1) \cup {n}
    BY <1>6
  <2>3. QED
    BY <1>2, <1>4, <1>7, <2>1, <2>2 DEF SinksOK
<1>9. ASSUME NEW q \in Tasks PROVE IterOK(q)'
  <2>1. ASSUME NEW i \in 1 .. Len(order) + 1, AtNode(q, i), iter[q].live PROVE IterOK(q)'
    <3>1. i <= Len(order) /\ i \in Nat
      BY <1>5, <2>1, Typed DEF AtNode
    <3>2. From(i)' = From(i) \cup {n}
      BY <1>6, <3>1
    <3>3. AtNode(q, i)'
      BY <1>2, <1>4, <1>7, <2>1, <3>1, <3>2 DEF AtNode
    <3>4. i \in (1 .. Len(order) + 1)'
      BY <1>2
    <3>5. QED
      BY <3>3, <3>4 DEF IterOK
  <2>2. CASE AtEnd(q)
    BY <1>2, <1>4, <2>2 DEF IterOK, AtEnd
  <2>3. CASE ~iter[q].live
    BY <1>2, <2>3 DEF IterOK
  <2>4. QED
    BY <2>1, <2>2, <2>3 DEF Inv, LogInv, IterOK
<1>10. ASSUME NEW q \in Tasks PROVE CallOK(q)'
  <2>1. CASE q = p
    BY <1>1, <1>2, <1>3, <1>4, <1>7, <2>1 DEF CallOK
  <2>2. CASE q # p
    <3>1. CallOK(q) /\ call[q].pc = "idle" /\ call'[q] = call[q]
      BY <1>2, <1>3, <2>2 DEF Inv, LogInv, L!Alone
    <3>2. QED
      BY <3>1 DEF CallOK
  <2>3. QED
    BY <2>1, <2>2
<1>11. ASSUME NEW q \in Tasks PROVE LogOK(q)' /\ NoRepeat(q)'
  <2>1. LogOK(q) /\ NoRepeat(q)
    BY DEF Inv, LogInv
  <2>2. log[q] \notin {"idle", "callback"} => call'[q].pc = "idle"
    BY <1>2, <1>3, <2>1 DEF LogOK
  <2>3. QED
    BY <1>2, <1>4, <2>1, <2>2 DEF LogOK, NoRepeat
<1>12. QED
  BY <1>2, <1>3, <1>8, <1>9, <1>10, <1>11 DEF LogInv, ExistsOK

LEMMA FinishAddKeeps ==
  ASSUME Inv, Careful', NEW p \in Tasks, UNCHANGED <<sinks, clock, logVars>>,
         List!FinishAdd(p)
  PROVE  LogInv'
<1> DEFINE n == call[p].node
<1>1. call[p].pc = "finish" /\ call \in [Tasks -> L!Calls] /\ call[p] \in L!Calls
  BY Typed DEF List!FinishAdd, List!At
<1>2. /\ UNCHANGED <<exists, iter, item>> /\ order' = Append(order, n)
      /\ \A q \in Tasks \ {p} : call'[q] = call[q]
      /\ call'[p].pc = "returned"
  BY <1>1 DEF List!FinishAdd, List!Return, List!memory, L!Calls
<1>3. /\ L!Alone(p) /\ exists /\ log[p] \in {"idle", "callback"} /\ CallOK(p) /\ L!Shape(call[p])
  BY <1>1, CallUnderWay
<1>4. UNCHANGED <<sinks, log, called, due>> /\ \A q \in Tasks : Passed(q)' = Passed(q)
  BY DEF logVars, Passed
<1>5. Linked = {n} /\ Linked' = {}
  <2>1. L!Alone(p)'
    BY <1>2, <1>3 DEF L!Alone
  <2>2. QED
    BY <1>1, <1>2, <1>3, <2>1 DEF Linked, L!Alone
<1>6. n \in Nodes
  BY <1>1, <1>3 DEF L!Shape, L!ExtraOK
<1>7. /\ Len(order') = Len(order) + 1 /\ order'[Len(order) + 1] = n
      /\ \A i \in 1 .. Len(order) : order'[i] = order[i]
  BY <1>2, <1>6, Typed, AppendProperties
<1>8. Len(order) \in Nat
  BY Typed
<1>9. ASSUME NEW i \in 1 .. Len(order) + 1 PROVE From(i)' = From(i)
  <2>1. From(i)' = {order'[j] : j \in i .. Len(order) + 1}
    BY <1>5, <1>7 DEF From
  <2>2. From(i) = {order[j] : j \in i .. Len(order)} \cup {n}
    BY <1>5 DEF From
  <2>3. QED
    BY <1>7, <1>8, <2>1, <2>2
<1>10. SinksOK'
  <2>1. SinksOK
    BY DEF Inv, LogInv
  <2>2. From(1)' = From(1)
    BY <1>8, <1>9
  <2>3. QED
    BY <1>2, <1>4, <2>1, <2>2 DEF SinksOK
<1>11. ASSUME NEW q \in Tasks PROVE IterOK(q)'
  <2>1. ASSUME NEW i \in 1 .. Len(order) + 1, AtNode(q, i), iter[q].live PROVE IterOK(q)'
    <3>1. From(i)' = From(i)
      BY <1>9
    <3>2. iter[q].next = order'[i] /\ i <= Len(order')
      BY <1>5, <1>7, <1>8, <2>1 DEF AtNode
    <3>3. AtNode(q, i)'
      BY <1>2, <1>4, <2>1, <3>1, <3>2 DEF AtNode
    <3>4. i \in (1 .. Len(order) + 1)'
      BY <1>7, <1>8
    <3>5. QED
      BY <3>3, <3>4 DEF IterOK
  <2>2. CASE AtEnd(q)
    BY <1>2, <1>4, <2>2 DEF IterOK, AtEnd
  <2>3. CASE ~iter[q].live
    BY <1>2, <2>3 DEF IterOK
  <2>4. QED
    BY <2>1, <2>2, <2>3 DEF Inv, LogInv, IterOK
<1>12. ASSUME NEW q \in Tasks PROVE CallOK(q)'
  <2>1. CASE q = p
    BY <1>2, <2>1 DEF CallOK
  <2>2. CASE q # p
    <3>1. CallOK(q) /\ call[q].pc = "idle" /\ call'[q] = call[q]
      BY <1>2, <1>3, <2>2 DEF Inv, LogInv, L!Alone
    <3>2. QED
      BY <3>1 DEF CallOK
  <2>3. QED
    BY <2>1, <2>2
<1>13. ASSUME NEW q \in Tasks PROVE LogOK(q)' /\ NoRepeat(q)'
  <2>1. LogOK(q) /\ NoRepeat(q)
    BY DEF Inv, LogInv
  <2>2. log[q] \notin {"idle", "callback"} => call'[q].pc = "idle"
    BY <1>2, <1>3, <2>1 DEF LogOK
  <2>3. QED
    BY <1>2, <1>4, <2>1, <2>2 DEF LogOK, NoRepeat
<1>14. QED
  BY <1>2, <1>3, <1>10, <1>11, <1>12, <1>13 DEF LogInv, ExistsOK

\* A node leaves the list.  Only the task that removes it may have an iterator,
\* and that iterator has passed it or will come to another one first: it stays
\* in its place, one further to the front or with one node less before it.
LEMMA UnlinkKeeps ==
  ASSUME Inv, Careful', NEW p \in Tasks, UNCHANGED <<sinks, clock, logVars>>,
         List!Unlink(p)
  PROVE  LogInv'
<1> DEFINE c == call[p]
           k == c.at + 1
<1>1. c.pc = "find" /\ call \in [Tasks -> L!Calls] /\ c \in L!Calls /\ c.node # NULL /\ List!Found(c)
  BY Typed DEF List!Unlink, List!At
<1>2. /\ UNCHANGED <<exists, iter, item>> /\ order' = List!RemoveAt(order, k)
      /\ \A q \in Tasks \ {p} : call'[q] = call[q]
      /\ call'[p].pc = "dispose" /\ call'[p].op = c.op
  BY <1>1 DEF List!Unlink, L!Calls
<1>3. /\ L!Alone(p) /\ exists /\ log[p] \in {"idle", "callback"} /\ CallOK(p) /\ L!Shape(c)
  BY <1>1, CallUnderWay
<1>4. UNCHANGED <<sinks, log, called, due>> /\ \A q \in Tasks : Passed(q)' = Passed(q)
  BY DEF logVars, Passed
<1>5. Linked = {} /\ Linked' = {}
  <2>1. L!Alone(p)'
    BY <1>2, <1>3 DEF L!Alone
  <2>2. QED
    BY <1>1, <1>2, <1>3, <2>1 DEF Linked, L!Alone
<1>6. c.op = "remove" /\ item[c.node] = c.wanted
  BY <1>1, <1>3 DEF CallOK, List!Found
<1>7. Len(order) \in Nat /\ c.at \in Nat
  BY Typed
<1>8. k \in 1 .. Len(order) /\ order[k] = c.node
  <2>1. c.at <= Len(order) /\ c.node = IF c.at < Len(order) THEN order[c.at + 1] ELSE NULL
    BY <1>1, <1>3 DEF L!Shape, L!SearchOK
  <2>2. QED
    BY <1>1, <1>7, <2>1
<1>9. /\ Len(order') = Len(order) - 1
      /\ \A j \in 1 .. Len(order) - 1 : order'[j] = IF j < k THEN order[j] ELSE order[j + 1]
  <2>1. order' = RemoveAt(order, k)
    BY <1>2 DEF List!RemoveAt, RemoveAt
  <2>2. order \in Seq(Nodes)
    BY Typed
  <2>3. QED
    BY <1>8, <2>1, <2>2, RemoveAtProperties
<1>10. \A n \in From(1)' : n \in From(1)
  <2>1. From(1)' = {order'[j] : j \in 1 .. Len(order) - 1}
    BY <1>5, <1>9 DEF From
  <2>2. \A j \in 1 .. Len(order) - 1 : j \in 1 .. Len(order) /\ j + 1 \in 1 .. Len(order)
    BY <1>7
  <2>3. QED
    BY <1>5, <1>9, <2>1, <2>2 DEF From
<1>11. SinksOK'
  <2>1. SinksOK
    BY DEF Inv, LogInv
  <2>2. QED
    BY <1>2, <1>4, <1>10, <2>1 DEF SinksOK
<1>12. ASSUME NEW q \in Tasks, iter[q].live PROVE IterOK(q)'
  <2>1. q = p /\ (iter[p].next # NULL => item[iter[p].next] # c.wanted)
    BY <1>6, <1>12 DEF Inv, LogInv, Careful, RemovalAlone, NextSinkStays
  <2>2. CASE AtEnd(p)
    BY <1>2, <1>4, <2>1, <2>2 DEF IterOK, AtEnd
  <2>3. ASSUME NEW i \in 1 .. Len(order) + 1, AtNode(p, i) PROVE IterOK(p)'
    <3>1. i \in 1 .. Len(order) /\ iter[p].next = order[i] /\ order[i] # NULL
      BY <1>5, <1>7, <2>3, Typed DEF AtNode
    <3>2. i # k
      BY <1>6, <1>8, <2>1, <3>1
    <3>3. CASE k < i
      <4>1. i - 1 \in 1 .. Len(order) - 1 /\ order'[i - 1] = order[i]
        BY <1>7, <1>8, <1>9, <3>1, <3>3
      <4>2. From(i - 1)' = From(i)
        <5>1. From(i - 1)' = {order'[j] : j \in i - 1 .. Len(order) - 1}
          BY <1>5, <1>9 DEF From
        <5>2. From(i) = {order[j] : j \in i .. Len(order)}
          BY <1>5 DEF From
        <5>3. \A j \in i - 1 .. Len(order) - 1 : order'[j] = order[j + 1] /\ j + 1 \in i .. Len(order)
          BY <1>7, <1>8, <1>9, <3>1, <3>3
        <5>4. \A j \in i .. Len(order) : order'[j - 1] = order[j] /\ j - 1 \in i - 1 .. Len(order) - 1
          BY <1>7, <1>8, <1>9, <3>1, <3>3
        <5>5. From(i - 1)' \subseteq From(i)
          BY <5>1, <5>2, <5>3
        <5>6. From(i) \subseteq From(i - 1)'
          BY <5>1, <5>2, <5>4
        <5>7. QED
          BY <5>5, <5>6
      <4>3. iter'[p].next \in {order'[i - 1]} /\ i - 1 <= Len(order')
        BY <1>2, <1>7, <1>9, <3>1, <4>1
      <4>4. AtNode(p, i - 1)'
        BY <1>2, <1>4, <2>3, <4>2, <4>3 DEF AtNode
      <4>5. i - 1 \in (1 .. Len(order) + 1)'
        BY <1>7, <1>9, <4>1
      <4>6. QED
        BY <4>4, <4>5 DEF IterOK
    <3>4. CASE i < k
      <4>1. i \in 1 .. Len(order) - 1 /\ order'[i] = order[i]
        BY <1>7, <1>8, <1>9, <3>1, <3>4
      <4>2. \A n : n \in From(i)' <=> n \in From(i) /\ n # order[k]
        <5>1. From(i)' = {order'[j] : j \in i .. Len(order) - 1}
          BY <1>5, <1>9 DEF From
        <5>2. From(i) = {order[j] : j \in i .. Len(order)}
          BY <1>5 DEF From
        <5>3. \A j \in i .. Len(order) - 1 :
                \E m \in i .. Len(order) : m # k /\ order'[j] = order[m]
          <6>1. ASSUME NEW j \in i .. Len(order) - 1
                PROVE  \E m \in i .. Len(order) : m # k /\ order'[j] = order[m]
            <7>1. CASE j < k
              BY <1>7, <1>8, <1>9, <3>1, <7>1
            <7>2. CASE ~(j < k)
              <8>1. j + 1 \in i .. Len(order) /\ j + 1 # k /\ order'[j] = order[j + 1]
                BY <1>7, <1>8, <1>9, <3>1, <7>2
              <8>2. QED
                BY <8>1
            <7>3. QED
              BY <7>1, <7>2
          <6>2. QED
            BY <6>1
        <5>4. \A m \in i .. Len(order) : m # k =>
                \E j \in i .. Len(order) - 1 : order'[j] = order[m]
          <6>1. ASSUME NEW m \in i .. Len(order), m # k
                PROVE  \E j \in i .. Len(order) - 1 : order'[j] = order[m]
            <7>1. CASE m < k
              BY <1>7, <1>8, <1>9, <3>1, <7>1
            <7>2. CASE k < m
              <8>1. m - 1 \in i .. Len(order) - 1 /\ order'[m - 1] = order[m]
                BY <1>7, <1>8, <1>9, <3>1, <3>4, <7>2
              <8>2. QED
                BY <8>1
            <7>3. QED
              BY <1>7, <1>8, <3>1, <6>1, <7>1, <7>2
          <6>2. QED
            BY <6>1
        <5>5. \A m \in i .. Len(order) : order[m] = order[k] <=> m = k
          BY <1>7, <1>8, <3>1, Typed
        <5>6. ASSUME NEW n, n \in From(i)' PROVE n \in From(i) /\ n # order[k]
          <6>1. PICK j \in i .. Len(order) - 1 : n = order'[j]
            BY ONLY <5>1, <5>6
          <6>2. PICK m \in i .. Len(order) : m # k /\ order'[j] = order[m]
            BY ONLY <5>3
          <6>3. QED
            BY ONLY <5>2, <5>5, <6>1, <6>2
        <5>7. ASSUME NEW n, n \in From(i), n # order[k] PROVE n \in From(i)'
          <6>1. PICK m \in i .. Len(order) : n = order[m]
            BY ONLY <5>2, <5>7
          <6>2. PICK j \in i .. Len(order) - 1 : order'[j] = order[m]
            BY ONLY <5>4, <5>7, <6>1
          <6>3. QED
            BY ONLY <5>1, <6>1, <6>2
        <5>8. QED
          BY <5>6, <5>7
      <4>3. iter'[p].next \in {order'[i]} /\ i <= Len(order')
        BY <1>2, <1>7, <1>9, <3>1, <4>1
      <4>4. \A s \in due[p] : s # item[order[k]]
        BY <1>1, <1>3, <1>6, <1>8 DEF CallOK
      <4>5. AtNode(p, i)'
        BY <1>2, <1>4, <2>3, <4>2, <4>3, <4>4 DEF AtNode
      <4>6. i \in (1 .. Len(order) + 1)'
        BY <1>7, <1>9, <4>1
      <4>7. QED
        BY <4>5, <4>6 DEF IterOK
    <3>5. QED
      BY <1>7, <1>8, <3>1, <3>2, <3>3, <3>4
  <2>4. QED
    BY <1>12, <2>1, <2>2, <2>3 DEF Inv, LogInv, IterOK
<1>13. ASSUME NEW q \in Tasks PROVE IterOK(q)'
  BY <1>2, <1>12 DEF IterOK
<1>14. ASSUME NEW q \in Tasks PROVE CallOK(q)'
  <2>1. CASE q = p
    BY <1>2, <1>6, <2>1 DEF CallOK
  <2>2. CASE q # p
    <3>1. CallOK(q) /\ call[q].pc = "idle" /\ call'[q] = call[q]
      BY <1>2, <1>3, <2>2 DEF Inv, LogInv, L!Alone
    <3>2. QED
      BY <3>1 DEF CallOK
  <2>3. QED
    BY <2>1, <2>2
<1>15. ASSUME NEW q \in Tasks PROVE LogOK(q)' /\ NoRepeat(q)'
  <2>1. LogOK(q) /\ NoRepeat(q)
    BY DEF Inv, LogInv
  <2>2. log[q] \notin {"idle", "callback"} => call'[q].pc = "idle"
    BY <1>2, <1>3, <2>1 DEF LogOK
  <2>3. QED
    BY <1>2, <1>4, <2>1, <2>2 DEF LogOK, NoRepeat
<1>16. QED
  BY <1>2, <1>3, <1>11, <1>13, <1>14, <1>15 DEF LogInv, ExistsOK

LEMMA ListStepKeeps ==
  ASSUME ~AssertsEnabled, Inv, Careful', NEW p \in Tasks, ListStep(p)
  PROVE  L!ListInv' /\ LogInv'
<1>1. List!AddStep(p) \/ List!RemoveStep(p) \/ List!End(p)
  BY DEF ListStep
<1>2. call[p].pc # "idle"
  BY <1>1
  DEF List!AddStep, List!RemoveStep, List!AllocNode, List!AllocFails, List!LinkFirst,
      List!LinkNext, List!FinishAdd, List!NotFound, List!Advance, List!Unlink, List!Dispose,
      List!End, List!At
<1>3. L!ListInv'
  BY <1>1, <1>2, CallUnderWay, ListKept DEF Inv
<1>4. LogInv'
  BY <1>1, PlainSteps, LinkKeeps, FinishAddKeeps, UnlinkKeeps
  DEF ListStep, List!AddStep, List!RemoveStep
<1>5. QED
  BY <1>3, <1>4

LEMMA LogStepKeeps ==
  ASSUME Inv, Careful', NEW p \in Tasks, LogStep(p)
  PROVE  L!ListInv' /\ LogInv'
<1>1. ASSUME UNCHANGED listVars PROVE L!ListInv'
  BY <1>1, Typed, ListStays DEF listVars
<1>2. ~fault
  BY Typed
<1>3. CASE OpenSinks(p)
  BY <1>2, <1>3, OpenSinksKeeps, IteratorsKeepList DEF OpenSinks, List!slist_iter_new
<1>4. CASE CallSink(p)
  BY <1>4, CallSinkKeeps, IteratorsKeepList DEF CallSink
<1>5. CASE CloseSinks(p)
  BY <1>2, <1>5, CloseSinksKeeps, IteratorsKeepList DEF CloseSinks, List!slist_iter_delete
<1>6. CASE \/ logger_service_vlog(p) \/ WriteTimestamp(p) \/ TimestampWritten(p) \/ Format(p)
           \/ OpenFails(p) \/ SinkReturns(p) \/ LogReturns(p)
  <2>1. UNCHANGED listVars
    BY <1>6
    DEF logger_service_vlog, WriteTimestamp, TimestampWritten, Format, OpenFails, SinkReturns,
        LogReturns
  <2>2. QED
    BY <1>1, <1>6, <2>1, QuietSteps
<1>7. QED
  BY <1>3, <1>4, <1>5, <1>6 DEF LogStep
-----------------------------------------------------------------------------
(* All steps.                                                              *)

LEMMA TypesStay ==
  ASSUME LogTypes, UNCHANGED <<sinks, clock, logVars>>
  PROVE  LogTypes'
BY DEF LogTypes, logVars

LEMMA LogTypesKeep ==
  ASSUME Inv, NEW p \in Tasks, LogStep(p)
  PROVE  LogTypes'
<1>1. LogTypes /\ MaxTime \in Nat
  BY LoggerAssumption DEF Inv, LoggerAssumption
<1>2. UNCHANGED <<sinks, clock>>
  BY DEF LogStep, logger_service_vlog, WriteTimestamp, TimestampWritten, Format, OpenSinks,
         OpenFails, CallSink, SinkReturns, CloseSinks, LogReturns
<1>3. log' \in [Tasks -> {"idle", "stamp", "stamping", "format", "open", "iterate", "callback", "done"}]
  BY <1>1
  DEF LogTypes, LogStep, Goto, logger_service_vlog, WriteTimestamp, TimestampWritten, Format,
      OpenSinks, OpenFails, CallSink, SinkReturns, CloseSinks, LogReturns
<1>4. /\ now' \in [Tasks -> 0 .. MaxTime] /\ timestamp' \in 0 .. Torn
      /\ printed' \in [Tasks -> 0 .. Torn]
  <2>1. /\ now' \in {now, [now EXCEPT ![p] = clock], [now EXCEPT ![p] = 0]}
        /\ timestamp' \in {timestamp, Torn, now[p]}
        /\ printed' \in {printed, [printed EXCEPT ![p] = timestamp], [printed EXCEPT ![p] = 0]}
    BY DEF LogStep, logger_service_vlog, WriteTimestamp, TimestampWritten, Format,
           OpenSinks, OpenFails, CallSink, SinkReturns, CloseSinks, LogReturns
  <2>2. /\ clock \in 0 .. MaxTime /\ now \in [Tasks -> 0 .. MaxTime]
        /\ timestamp \in 0 .. Torn /\ printed \in [Tasks -> 0 .. Torn]
        /\ 0 \in 0 .. MaxTime /\ 0 \in 0 .. Torn /\ Torn \in 0 .. Torn
        /\ \A t \in 0 .. MaxTime : t \in 0 .. Torn
    BY <1>1 DEF LogTypes, Torn
  <2>3. QED
    BY <2>1, <2>2
<1>5. due' \in [Tasks -> SUBSET Sinks]
  <2>1. CASE OpenSinks(p)
    <3>1. exists /\ due' = [due EXCEPT ![p] = Listed]
      BY <2>1 DEF OpenSinks, List!slist_iter_new
    <3>2. Listed \subseteq sinks
      BY Typed DEF Inv, LogInv, SinksOK, From, Listed
    <3>3. QED
      BY <1>1, <3>1, <3>2 DEF LogTypes
  <2>2. CASE ~OpenSinks(p)
    <3>1. due' = due \/ due' = [due EXCEPT ![p] = {}]
      BY <2>2
      DEF LogStep, logger_service_vlog, WriteTimestamp, TimestampWritten, Format,
          OpenFails, CallSink, SinkReturns, CloseSinks, LogReturns
    <3>2. QED
      BY <1>1, <3>1 DEF LogTypes
  <2>3. QED
    BY <2>1, <2>2
<1>6. called' \in [Tasks -> Seq(Sinks)]
  <2>1. CASE CallSink(p)
    <3>1. /\ log[p] = "iterate" /\ iter[p].live /\ iter[p].next # NULL
          /\ called' = [called EXCEPT ![p] = Append(@, item[iter[p].next])]
      BY <2>1 DEF CallSink, Goto, List!slist_iter_next
    <3>2. exists
      BY <3>1 DEF Inv, LogInv, ExistsOK
    <3>3. item[iter[p].next] \in Sinks
      BY <1>1, <3>1, <3>2, NextNode DEF Inv, LogInv, SinksOK, LogTypes
    <3>4. QED
      BY <1>1, <3>1, <3>3, AppendProperties DEF LogTypes
  <2>2. CASE ~CallSink(p)
    <3>1. called' = called \/ called' = [called EXCEPT ![p] = <<>>]
      BY <2>2
      DEF LogStep, logger_service_vlog, WriteTimestamp, TimestampWritten, Format, OpenSinks,
          OpenFails, SinkReturns, CloseSinks, LogReturns
    <3>2. QED
      BY <1>1, <3>1, EmptySeq DEF LogTypes
  <2>3. QED
    BY <2>1, <2>2
<1>7. QED
  BY <1>1, <1>2, <1>3, <1>4, <1>5, <1>6 DEF LogTypes

LEMMA TypesKeep == ASSUME Inv, Next PROVE LogTypes'
<1>1. LogTypes /\ MaxTime \in Nat
  BY LoggerAssumption DEF Inv, LoggerAssumption
<1>2. CASE Tick
  BY <1>1, <1>2 DEF Tick, LogTypes, logVars
<1>3. ASSUME NEW p \in Tasks, logger_service_init(p) \/ ListStep(p) PROVE LogTypes'
  BY <1>1, <1>3, TypesStay DEF logger_service_init, ListStep
<1>4. ASSUME NEW p \in Tasks, logger_service_register_sink(p) PROVE LogTypes'
  <2>1. PICK x \in Sinks : List!Begin(p, "add", x, 0, NULL, "alloc")
    BY <1>4 DEF logger_service_register_sink, List!slist_add
  <2>2. call'[p].wanted = x
    BY <2>1, Typed DEF List!Begin, List!NoCall
  <2>3. QED
    BY <1>1, <1>4, <2>2 DEF logger_service_register_sink, LogTypes, logVars
<1>5. ASSUME NEW p \in Tasks, logger_service_unregister_sink(p) PROVE LogTypes'
  <2>1. PICK s : Unregister(p, s)
    BY <1>5 DEF logger_service_unregister_sink
  <2>2. QED
    BY <1>1, <2>1 DEF Unregister, LogTypes
<1>6. QED
  BY <1>2, <1>3, <1>4, <1>5, LogTypesKeep DEF Next

LEMMA InitialState == Init => Inv
<1> SUFFICES ASSUME Init PROVE Inv
  OBVIOUS
<1>1. L!ListInv
  BY SameInit, L!InitialState, ListAssumed DEF Init, L!ListAssumption, L!IInv
<1>2. LogTypes
  BY EmptySeq, LoggerAssumption DEF Init, LogTypes, Torn, LoggerAssumption
<1>3. /\ order = <<>> /\ ~exists
      /\ \A p \in Tasks :
           /\ call[p].pc = "idle" /\ call[p].op = "none" /\ ~iter[p].live
           /\ log[p] = "idle" /\ called[p] = <<>> /\ due[p] = {}
  BY DEF Init, List!Init, List!NoCall, List!NoIter
<1>4. Careful /\ ExistsOK
  BY <1>3 DEF Careful, OneChange, RemovalAlone, NextSinkStays, ExistsOK
<1>5. From(1) = {} /\ \A p \in Tasks : Passed(p) = {}
  BY <1>3, EmptySeq DEF From, Linked, Passed
<1>6. SinksOK /\ \A p \in Tasks : CallOK(p) /\ LogOK(p) /\ IterOK(p) /\ NoRepeat(p)
  BY <1>3, <1>5, EmptySeq DEF SinksOK, CallOK, LogOK, IterOK, NoRepeat
<1>7. QED
  BY <1>1, <1>2, <1>4, <1>6 DEF Inv, LogInv

LEMMA StepPreserves ==
  ASSUME ~AssertsEnabled, Inv, Next, Careful'
  PROVE  Inv'
<1>1. LogTypes'
  BY TypesKeep
<1>2. CASE Tick
  <2>1. UNCHANGED <<listVars, sinks, logVars>>
    BY <1>2 DEF Tick
  <2>2. L!ListInv'
    BY <2>1, Typed, ListStays DEF listVars
  <2>3. LogInv'
    BY <2>1, TickKeeps DEF listVars, logVars
  <2>4. QED
    BY <1>1, <2>2, <2>3 DEF Inv
<1>3. ASSUME NEW p \in Tasks,
             \/ logger_service_init(p) \/ logger_service_register_sink(p)
             \/ logger_service_unregister_sink(p) \/ ListStep(p) \/ LogStep(p)
      PROVE  Inv'
  BY <1>1, <1>3, InitKeeps, RegisterKeeps, UnregisterKeeps, ListStepKeeps, LogStepKeeps DEF Inv
<1>4. QED
  BY <1>2, <1>3 DEF Next

LEMMA StutterPreserves == ASSUME Inv, UNCHANGED vars PROVE Inv'
<1>1. UNCHANGED <<listVars, sinks, clock, logVars>>
  BY DEF vars
<1>2. LogTypes'
  BY <1>1, TypesStay DEF Inv
<1>3. L!ListInv'
  BY <1>1, Typed, ListStays DEF listVars
<1>4. LogInv'
  BY <1>1, TickKeeps DEF listVars, logVars
<1>5. QED
  BY <1>2, <1>3, <1>4 DEF Inv

-----------------------------------------------------------------------------
\* In a build without assertions, whatever tasks log and whatever tasks and
\* sinks register and unregister under the three rules of CarefulSpec: the invariant holds, for any
\* number of tasks, nodes, sinks and levels.
THEOREM LoggerInvariance == ASSUME ~AssertsEnabled PROVE CarefulSpec => []Inv
<1>1. Inv /\ [Next /\ Careful']_vars => Inv'
  BY StepPreserves, StutterPreserves
<1>2. QED
  BY <1>1, InitialState, PTL DEF CarefulSpec

\* Every variable of the logger, and of its list, keeps its type.
THEOREM LoggerTyped == ASSUME ~AssertsEnabled PROVE CarefulSpec => []TypeOK
<1>1. Inv => TypeOK
  BY SameTypes DEF Inv, L!ListInv, LogTypes, TypeOK
<1>2. QED
  BY <1>1, LoggerInvariance, PTL

\* No log follows a pointer to a node that was freed: sinks may be registered
\* under it, and a sink that is being called may register others and unregister
\* any handle, itself included, but that of the sink whose turn is next.
THEOREM SinkListIsSafe == ASSUME ~AssertsEnabled PROVE CarefulSpec => []SinkListSafe
<1>1. Inv => SinkListSafe
  BY Typed DEF SinkListSafe
<1>2. QED
  BY <1>1, LoggerInvariance, PTL

\* Every sink that is registered for the whole of a log gets its message, and
\* no sink gets it twice, whichever sinks come and go meanwhile.
THEOREM MessagesAreDelivered == ASSUME ~AssertsEnabled PROVE CarefulSpec => []Delivered
<1>1. Inv => Delivered
  <2> SUFFICES ASSUME Inv, NEW p \in Tasks
               PROVE  /\ \A i, j \in DOMAIN called[p] : called[p][i] = called[p][j] => i = j
                      /\ log[p] = "done" =>
                           \A s \in due[p] : \E i \in DOMAIN called[p] : called[p][i] = s
    BY DEF Delivered
  <2>1. NoRepeat(p) /\ (log[p] = "done" => due[p] \subseteq Passed(p))
    BY DEF Inv, LogInv, LogOK
  <2>2. \A s \in Passed(p) : \E i \in DOMAIN called[p] : called[p][i] = s
    BY DEF Passed
  <2>3. QED
    BY <2>1, <2>2 DEF NoRepeat
<1>2. QED
  BY <1>1, LoggerInvariance, PTL
=============================================================================
