-------------------------------- MODULE SList --------------------------------
(***************************************************************************)
(* utilities/slist.c: the singly linked list and the memory of its nodes.  *)
(* A call is cut into steps where a task that iterates at the same time    *)
(* could see the difference: at each write of a next pointer, of first,    *)
(* and at each free.  The functions take no lock: SerialSpec adds what the *)
(* callers must provide, and LoggerService is a use that is not serial.    *)
(* slist_copy_shallow and slist_copy_deep are not modelled.                *)
(***************************************************************************)
EXTENDS Naturals, SequencesExt

CONSTANTS
  Procs,    \* tasks that call the functions
  Nodes,    \* memory for nodes (bounds how many exist)
  Items,    \* what the list holds
  Indices,  \* arguments of slist_remove_at
  Ops,      \* the functions that are called
  NULL,
  AssertsEnabled  \* FALSE in a build with NDEBUG

ASSUME ListAssumption ==
  /\ Procs # {} /\ NULL \notin Nodes \cup Items
  /\ Indices \subseteq Nat /\ 0 \in Indices
  /\ Ops \subseteq {"add", "remove", "remove_at", "clear", "delete"}
  /\ AssertsEnabled \in BOOLEAN

VARIABLES
  exists,     \* FALSE before slist_new and after slist_delete
  first, last, count,
  next, item, \* the fields of each node
  allocated,  \* the nodes that are allocated
  call,       \* the call of each task: where it is, its arguments and its variables
  iter,       \* the iterator of each task
  order,      \* auxiliary: the nodes that are in the list
  fault       \* a NULL or dangling pointer was used, or an assertion failed

ends == <<first, last, count>>
memory == <<next, item, allocated>>
vars == <<exists, ends, memory, call, iter, order, fault>>

\* at: the nodes that the call has passed.
NoCall == [pc |-> "idle", op |-> "none", wanted |-> NULL, index |-> 0,
           node |-> NULL, prev |-> NULL, at |-> 0, result |-> "none"]
NoIter == [live |-> FALSE, next |-> NULL, index |-> 0]

Init ==
  /\ exists = FALSE
  /\ first = NULL /\ last = NULL /\ count = 0
  /\ next = [n \in Nodes |-> NULL] /\ item = [n \in Nodes |-> NULL] /\ allocated = {}
  /\ call = [p \in Procs |-> NoCall]
  /\ iter = [p \in Procs |-> NoIter]
  /\ order = <<>>
  /\ fault = FALSE

At(p, place) == call[p].pc = place /\ ~fault

\* n is dereferenced, or freed.
Uses(n) == fault' = (n \notin allocated)

Return(p, r) == call' = [call EXCEPT ![p].pc = "returned", ![p].result = r]

-----------------------------------------------------------------------------
(* slist_new, and the beginning and the end of a call on a list.           *)

\* calloc clears the new list.  When it fails, there is no list.
slist_new(p) ==
  /\ At(p, "idle") /\ ~exists
  /\ exists' = TRUE
  /\ first' = NULL /\ last' = NULL /\ count' = 0
  /\ UNCHANGED <<memory, call, iter, order, fault>>

\* A call starts at the node n.
Begin(p, o, x, i, n, place) ==
  /\ At(p, "idle") /\ exists /\ o \in Ops
  /\ call' = [call EXCEPT ![p] =
       [NoCall EXCEPT !.pc = place, !.op = o, !.wanted = x, !.index = i, !.node = n]]
  /\ UNCHANGED <<exists, ends, memory, iter, order, fault>>

slist_add(p) == \E x \in Items : Begin(p, "add", x, 0, NULL, "alloc")

Removal(p) ==
  \/ \E x \in Items : Begin(p, "remove", x, 0, first, "find")
  \/ \E i \in Indices : Begin(p, "remove_at", NULL, i, first, "find")

slist_clear(p) == \E o \in {"clear", "delete"} : Begin(p, o, NULL, 0, first, "clear")

\* The caller has the result; the call's local variables are gone.
End(p) ==
  /\ At(p, "returned")
  /\ call' = [call EXCEPT ![p] = NoCall]
  /\ UNCHANGED <<exists, ends, memory, iter, order, fault>>

-----------------------------------------------------------------------------
(* slist_add.                                                              *)

AllocNode(p) ==
  /\ At(p, "alloc")
  /\ \E n \in Nodes \ allocated :
       /\ allocated' = allocated \cup {n}
       /\ next' = [next EXCEPT ![n] = NULL]
       /\ item' = [item EXCEPT ![n] = call[p].wanted]
       /\ call' = [call EXCEPT ![p].pc = "link", ![p].node = n]
  /\ UNCHANGED <<exists, ends, iter, order, fault>>

AllocFails(p) ==
  /\ At(p, "alloc")
  /\ Return(p, "ERR_ALLOC")
  /\ UNCHANGED <<exists, ends, memory, iter, order, fault>>

LinkFirst(p) ==
  /\ At(p, "link") /\ first = NULL
  /\ first' = call[p].node
  /\ call' = [call EXCEPT ![p].pc = "finish"]
  /\ UNCHANGED <<exists, last, count, memory, iter, order, fault>>

LinkNext(p) ==
  /\ At(p, "link") /\ first # NULL
  /\ Uses(last)
  /\ next' = [next EXCEPT ![last] = call[p].node]
  /\ call' = [call EXCEPT ![p].pc = "finish"]
  /\ UNCHANGED <<exists, ends, item, allocated, iter, order>>

FinishAdd(p) ==
  /\ At(p, "finish")
  /\ last' = call[p].node
  /\ count' = count + 1
  /\ order' = Append(order, call[p].node)
  /\ Return(p, "OK")
  /\ UNCHANGED <<exists, first, memory, iter, fault>>

-----------------------------------------------------------------------------
(* slist_remove, slist_remove_at and remove_node.                          *)

\* Mutant of Found: one node further.
FoundPast(c) == IF c.op = "remove" THEN item[c.node] = c.wanted ELSE c.at > c.index

\* The loop condition is false: at the item, or at the index.
Found(c) == IF c.op = "remove" THEN item[c.node] = c.wanted ELSE c.at >= c.index

NotFound(p) ==
  /\ At(p, "find") /\ call[p].node = NULL
  /\ Return(p, IF call[p].op = "remove" THEN "ERR_NOT_FOUND" ELSE "ERR_OUT_OF_RANGE")
  /\ UNCHANGED <<exists, ends, memory, iter, order, fault>>

Advance(p) ==
  LET c == call[p] IN
  /\ At(p, "find") /\ c.node # NULL /\ ~Found(c)
  /\ Uses(c.node)
  /\ call' = [call EXCEPT ![p].prev = c.node, ![p].node = next[c.node], ![p].at = @ + 1]
  /\ UNCHANGED <<exists, ends, memory, iter, order>>

\* Mutant of UnlinkNode: the case of the first node is missing.
FirstKept(c) ==
  /\ UNCHANGED first
  /\ next' = IF c.prev = NULL THEN next ELSE [next EXCEPT ![c.prev] = next[c.node]]

UnlinkNode(c) ==
  IF c.prev = NULL THEN first' = next[c.node] /\ UNCHANGED next
  ELSE next' = [next EXCEPT ![c.prev] = next[c.node]] /\ UNCHANGED first

\* assert(prev->next == node)
AssertHolds(c) == AssertsEnabled => c.prev \in allocated /\ next[c.prev] = c.node

Unlink(p) ==
  LET c == call[p] IN
  /\ At(p, "find") /\ c.node # NULL /\ Found(c)
  /\ fault' = ~({c.node, c.prev} \subseteq allocated \cup {NULL} /\ AssertHolds(c))
  /\ UnlinkNode(c)
  /\ order' = RemoveAt(order, c.at + 1)
  /\ call' = [call EXCEPT ![p].pc = "dispose"]
  /\ UNCHANGED <<exists, last, count, item, allocated, iter>>

\* Mutants of LastWithout, Freed and Decremented.
LastKept(c) == last
NodeKept(n) == allocated
CountKept(k) == k
CountTwice(k) == k - 2

LastWithout(c) == IF next[c.node] = NULL THEN c.prev ELSE last
Freed(n) == allocated \ {n}
Decremented(k) == k - 1

Dispose(p) ==
  /\ At(p, "dispose")
  /\ Uses(call[p].node)
  /\ last' = LastWithout(call[p])
  /\ allocated' = Freed(call[p].node)
  /\ count' = Decremented(count)
  /\ Return(p, "OK")
  /\ UNCHANGED <<exists, first, next, item, iter, order>>

-----------------------------------------------------------------------------
(* slist_clear, and what slist_delete does after it.                       *)

ClearNode(p) ==
  /\ At(p, "clear") /\ call[p].node # NULL
  /\ Uses(call[p].node)
  /\ allocated' = Freed(call[p].node)
  /\ call' = [call EXCEPT ![p].node = next[@], ![p].at = @ + 1]
  /\ UNCHANGED <<exists, ends, next, item, iter, order>>

\* The list keeps its first, its last and its count.
Cleared(p) ==
  /\ At(p, "clear") /\ call[p].node = NULL
  /\ exists' = (call[p].op = "clear")
  /\ order' = <<>>
  /\ Return(p, "none")
  /\ UNCHANGED <<ends, memory, iter, fault>>

-----------------------------------------------------------------------------
(* Iterators, each used by the task that made it.  The end of the list and *)
(* a failing allocation leave everything as it is.                         *)

\* Mutants: an iterator begins at the second node; its index stays 0; it takes
\* the node before the last one for the last.
FirstSkipped(n) == [live |-> TRUE, next |-> IF n = NULL THEN NULL ELSE next[n], index |-> 0]
IndexKept(it) == [it EXCEPT !.next = next[@]]
EndsEarly(it) ==
  LET n == next[it.next] IN
  [it EXCEPT !.next = IF n # NULL /\ next[n] = NULL THEN NULL ELSE n, !.index = @ + 1]

Started(n) == [live |-> TRUE, next |-> n, index |-> 0]
Moved(it) == [it EXCEPT !.next = next[@], !.index = @ + 1]

slist_iter_new(p) ==
  /\ At(p, "idle") /\ exists /\ ~iter[p].live
  /\ iter' = [iter EXCEPT ![p] = Started(first)]
  /\ UNCHANGED <<exists, ends, memory, call, order, fault>>

slist_iter_next(p) ==
  /\ At(p, "idle") /\ iter[p].live /\ iter[p].next # NULL
  /\ Uses(iter[p].next)
  /\ iter' = [iter EXCEPT ![p] = Moved(@)]
  /\ UNCHANGED <<exists, ends, memory, call, order>>

slist_iter_delete(p) ==
  /\ At(p, "idle") /\ iter[p].live
  /\ iter' = [iter EXCEPT ![p] = NoIter]
  /\ UNCHANGED <<exists, ends, memory, call, order, fault>>

-----------------------------------------------------------------------------
AddStep(p) == AllocNode(p) \/ AllocFails(p) \/ LinkFirst(p) \/ LinkNext(p) \/ FinishAdd(p)
RemoveStep(p) == NotFound(p) \/ Advance(p) \/ Unlink(p) \/ Dispose(p)
ClearStep(p) == ClearNode(p) \/ Cleared(p)
Iterate(p) == slist_iter_new(p) \/ slist_iter_next(p) \/ slist_iter_delete(p)

\* The serial use of a list: one call at a time, and no node is freed while
\* somebody iterates.
Alone(p) == \A q \in Procs \ {p} : call[q].pc = "idle"
NoIterator == \A p \in Procs : ~iter[p].live

SerialNext ==
  \E p \in Procs :
    /\ Alone(p)
    /\ \/ slist_new(p) \/ slist_add(p)
       \/ NoIterator /\ (Removal(p) \/ slist_clear(p))
       \/ AddStep(p) \/ RemoveStep(p) \/ ClearStep(p) \/ Iterate(p) \/ End(p)

SerialSpec == Init /\ [][SerialNext]_vars

-----------------------------------------------------------------------------
(* Correctness.                                                            *)

Places == {"idle", "alloc", "link", "finish", "find", "dispose", "clear", "returned"}

Calls ==
  [pc : Places, op : Ops \cup {"none"}, wanted : Items \cup {NULL}, index : Indices,
   node : Nodes \cup {NULL}, prev : Nodes \cup {NULL}, at : Nat,
   result : {"none", "OK", "ERR_ALLOC", "ERR_NOT_FOUND", "ERR_OUT_OF_RANGE"}]

TypeOK ==
  /\ exists \in BOOLEAN
  /\ first \in Nodes \cup {NULL} /\ last \in Nodes \cup {NULL} /\ count \in Nat
  /\ next \in [Nodes -> Nodes \cup {NULL}] /\ item \in [Nodes -> Items \cup {NULL}]
  /\ allocated \subseteq Nodes
  /\ call \in [Procs -> Calls]
  /\ iter \in [Procs -> [live : BOOLEAN, next : Nodes \cup {NULL}, index : Nat]]
  /\ order \in Seq(Nodes)
  /\ fault \in BOOLEAN

\* No call follows a pointer that is NULL or to a freed node, frees a node
\* twice, or fails the assertion of remove_node.
NoFault == ~fault

AllIdle == \A p \in Procs : call[p].pc = "idle"

\* Between calls, next leads from first through exactly the nodes of the list
\* to last, and these are the nodes that are allocated: none is lost.
WellFormed ==
  exists /\ AllIdle =>
    LET n == Len(order) IN
    /\ first = (IF n = 0 THEN NULL ELSE order[1])
    /\ last = (IF n = 0 THEN NULL ELSE order[n])
    /\ \A i \in 1 .. n : next[order[i]] = (IF i = n THEN NULL ELSE order[i + 1])
    /\ allocated = {order[i] : i \in 1 .. n}

\* Between calls, slist_count is the number of items in the list.
CountCorrect == exists /\ AllIdle => count = Len(order)

\* slist_delete "frees all of its resources": no node outlives its list.
NoLeak == ~exists => allocated = {}

\* An iterator that is not at its end is in its place: its calls to next took
\* it past the first items of the list, one each, and the next one is for the
\* item behind them, also when items were added while it was open.
InPlace ==
  AllIdle => \A p \in Procs : iter[p].next # NULL =>
    iter[p].index < Len(order) /\ iter[p].next = order[iter[p].index + 1]

\* An iterator comes to its end only past every item that is in the list then.
\* There it stays: an item that is added after that it never sees, nor does one
\* that was made for an empty list.
MissesNone ==
  [][\A p \in Procs :
       iter'[p] # iter[p] /\ iter'[p].live /\ iter'[p].next = NULL =>
         iter'[p].index = Len(order)]_vars

-----------------------------------------------------------------------------
(* The list as AbstractList has it.  A call takes effect when a node becomes *)
(* the last one or is unlinked, when the search ends, or when all is freed. *)

items == [i \in DOMAIN order |-> item[order[i]]]
Stage(c) ==
  CASE c.pc = "idle" -> "idle" [] c.pc \in {"dispose", "returned"} -> "done" [] OTHER -> "called"
Result(c) == IF c.pc = "dispose" THEN "OK" ELSE c.result

stage == [p \in Procs |-> Stage(call[p])]
op == [p \in Procs |-> call[p].op]
wanted == [p \in Procs |-> call[p].wanted]
index == [p \in Procs |-> call[p].index]
result == [p \in Procs |-> Result(call[p])]

Abstract == INSTANCE AbstractList

\* Each function does to the list, and returns, what slist.h says.
ImplementsList == Abstract!Spec
=============================================================================
