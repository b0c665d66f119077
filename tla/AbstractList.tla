---------------------------- MODULE AbstractList ----------------------------
(***************************************************************************)
(* What utilities/include/slist.h promises: a list is a sequence of items, *)
(* and each call has its whole effect, and its result, at one moment       *)
(* between its beginning and its end.                                      *)
(***************************************************************************)
EXTENDS Naturals, SequencesExt

CONSTANTS Procs, Items, Indices, Ops, NULL

VARIABLES
  items,   \* the list
  stage,   \* stage[p]: "idle", "called" or "done"
  op,      \* op[p]: the function p is in
  wanted,  \* wanted[p]: its item argument
  index,   \* index[p]: its index argument
  result   \* result[p]: what it returns

Init ==
  /\ items = <<>>
  /\ stage = [p \in Procs |-> "idle"]
  /\ op = [p \in Procs |-> "none"]
  /\ wanted = [p \in Procs |-> NULL]
  /\ index = [p \in Procs |-> 0]
  /\ result = [p \in Procs |-> "none"]

Call(p) ==
  /\ stage[p] = "idle"
  /\ stage' = [stage EXCEPT ![p] = "called"]
  /\ \E o \in Ops : op' = [op EXCEPT ![p] = o]
  /\ \E x \in Items \cup {NULL} : wanted' = [wanted EXCEPT ![p] = x]
  /\ \E i \in Indices : index' = [index EXCEPT ![p] = i]
  /\ UNCHANGED <<items, result>>

\* The moment of p's call: it leaves the list as l and returns r.
Takes(p, l, r) ==
  /\ stage[p] = "called"
  /\ stage' = [stage EXCEPT ![p] = "done"]
  /\ items' = l
  /\ result' = [result EXCEPT ![p] = r]
  /\ UNCHANGED <<op, wanted, index>>

\* "Add an item to the end of the list."
Add(p) ==
  /\ op[p] = "add"
  /\ \/ Takes(p, Append(items, wanted[p]), "OK")
     \/ Takes(p, items, "ERR_ALLOC")

\* "Removes the specified item from the list ... UTIL_OK if the item was
\* succesfully removed, or UTIL_ERR_NOT_FOUND if the item was not found."
\* Of equal items the first one goes.
RemoveItem(p) ==
  /\ op[p] = "remove"
  /\ \/ \E i \in DOMAIN items :
          /\ items[i] = wanted[p]
          /\ \A j \in 1 .. i - 1 : items[j] # wanted[p]
          /\ Takes(p, RemoveAt(items, i), "OK")
     \/ /\ \A i \in DOMAIN items : items[i] # wanted[p]
        /\ Takes(p, items, "ERR_NOT_FOUND")

\* "Remove the item at the specified index from the list."  Indices are from 0.
RemoveIndex(p) ==
  /\ op[p] = "remove_at"
  /\ IF index[p] < Len(items) THEN Takes(p, RemoveAt(items, index[p] + 1), "OK")
     ELSE Takes(p, items, "ERR_OUT_OF_RANGE")

\* "Removes all items from the list"; "Deletes the Singly Linked List".
Empty(p) == op[p] \in {"clear", "delete"} /\ Takes(p, <<>>, "none")

Return(p) ==
  /\ stage[p] = "done"
  /\ stage' = [stage EXCEPT ![p] = "idle"]
  /\ op' = [op EXCEPT ![p] = "none"]
  /\ wanted' = [wanted EXCEPT ![p] = NULL]
  /\ index' = [index EXCEPT ![p] = 0]
  /\ result' = [result EXCEPT ![p] = "none"]
  /\ UNCHANGED items

Next ==
  \E p \in Procs :
    Call(p) \/ Add(p) \/ RemoveItem(p) \/ RemoveIndex(p) \/ Empty(p) \/ Return(p)

Spec == Init /\ [][Next]_<<items, stage, op, wanted, index, result>>
=============================================================================
