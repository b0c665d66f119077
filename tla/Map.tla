---------------------------------- MODULE Map ----------------------------------
(***************************************************************************)
(* utilities/map.c: a map is a list of entries, searched with an iterator. *)
(* The list is the sequence that SList implements, with the assertion of   *)
(* remove_node (slist.c:52) that the removal of its first item fails.      *)
(* One call runs at a time.                                                *)
(***************************************************************************)
EXTENDS Naturals, SequencesExt

CONSTANTS
  Keys, Values, NULL,
  MaxLen,          \* bounds the number of entries
  MayFail,         \* TRUE if memory may run out
  AbsentKeys,      \* TRUE if a key that is not in the map may be asked for
  AssertsEnabled   \* as in SList

ASSUME MapAssumption ==
  /\ NULL \notin Values
  /\ MaxLen \in Nat
  /\ {MayFail, AbsentKeys, AssertsEnabled} \subseteq BOOLEAN

VARIABLES
  entries,  \* the list of entries
  pc,       \* "idle", in the loop of "get" or "remove", "got" or "removed"
  wanted,   \* the key asked for
  passed,   \* the number of entries the iterator of the call has passed
  value,    \* what map_get stores through its last argument
  before,   \* auxiliary: the entries when the call began
  fault     \* a NULL pointer was used, or an assertion failed

vars == <<entries, pc, wanted, passed, value, before, fault>>

NoKey == "no key"

Init ==
  /\ entries = <<>> /\ before = <<>>
  /\ pc = "idle" /\ wanted = NoKey /\ passed = 0 /\ value = NULL
  /\ fault = FALSE

Has(k) == \E i \in DOMAIN entries : entries[i].key = k

-----------------------------------------------------------------------------
(* map_add: the entry is malloc'ed and written without a look at whether   *)
(* there is memory, and when slist_add finds none nobody is told.          *)

map_add(k, v) ==
  /\ pc = "idle" /\ ~fault
  /\ Len(entries) < MaxLen
  /\ \/ entries' = Append(entries, [key |-> k, value |-> v]) /\ UNCHANGED fault
     \/ MayFail /\ UNCHANGED entries /\ fault' \in BOOLEAN
  /\ UNCHANGED <<pc, wanted, passed, value, before>>

-----------------------------------------------------------------------------
(* map_get and map_remove: nothing happens in an empty map; otherwise an   *)
(* iterator, whose allocation is not looked at either, is created.         *)

Search(k, loop, end) ==
  /\ pc = "idle" /\ ~fault
  /\ Has(k) \/ entries = <<>> \/ AbsentKeys
  /\ wanted' = k /\ before' = entries /\ passed' = 0
  /\ IF entries = <<>> THEN pc' = end /\ UNCHANGED fault
     ELSE pc' = loop /\ fault' \in BOOLEAN /\ (fault' => MayFail)
  /\ UNCHANGED <<entries, value>>

map_get(k) == Search(k, "get", "got")
map_remove(k) == Search(k, "remove", "removed")

\* Mutants of the next two definitions.
IndexAfter(taken) == taken
KeyOf(entry) == entry.key
NoValue(entry) == NULL

\* An iterator counts the entries it returned; its index is that of the last one.
slist_iter_index(taken) == taken - 1
ValueOf(entry) == entry.value

Looping == pc \in {"get", "remove"} /\ ~fault
Matches == passed < Len(entries) /\ entries[passed + 1].key = wanted

\* Another entry.  The index of the iterator is below the count at every
\* entry, so the loop goes on even after the last one.
NextEntry ==
  /\ Looping
  /\ passed < Len(entries) /\ ~Matches
  /\ passed' = passed + 1
  /\ pc' = IF slist_iter_index(passed') < Len(entries) THEN pc
           ELSE IF pc = "get" THEN "got" ELSE "removed"
  /\ UNCHANGED <<entries, wanted, value, before, fault>>

\* The iterator is at its end and returns a NULL entry, whose key is read.
PastEnd ==
  /\ Looping
  /\ passed = Len(entries)
  /\ fault' = TRUE
  /\ UNCHANGED <<entries, pc, wanted, passed, value, before>>

GetEntry ==
  /\ pc = "get" /\ ~fault
  /\ Matches
  /\ pc' = "got"
  /\ passed' = passed + 1
  /\ value' = ValueOf(entries[passed'])
  /\ UNCHANGED <<entries, wanted, before, fault>>

\* slist_remove_at at the index of the iterator; the entry is not freed.
RemoveEntry ==
  /\ pc = "remove" /\ ~fault
  /\ Matches
  /\ pc' = "removed"
  /\ passed' = passed + 1
  /\ fault' = (AssertsEnabled /\ passed = 0)
  /\ entries' = RemoveAt(entries, slist_iter_index(passed') + 1)
  /\ UNCHANGED <<wanted, value, before>>

Return ==
  /\ pc \in {"got", "removed"} /\ ~fault
  /\ pc' = "idle" /\ wanted' = NoKey /\ passed' = 0 /\ value' = NULL /\ before' = <<>>
  /\ UNCHANGED <<entries, fault>>

Next ==
  \/ \E k \in Keys :
       \/ \E v \in Values : map_add(k, v)
       \/ map_get(k)
       \/ map_remove(k)
  \/ NextEntry \/ PastEnd \/ GetEntry \/ RemoveEntry \/ Return

Spec == Init /\ [][Next]_vars

-----------------------------------------------------------------------------
(* Correctness.                                                            *)

TypeOK ==
  /\ entries \in Seq([key : Keys, value : Values]) /\ Len(entries) <= MaxLen
  /\ pc \in {"idle", "get", "remove", "got", "removed"}
  /\ wanted \in Keys \cup {NoKey} /\ passed \in 0 .. MaxLen
  /\ value \in Values \cup {NULL}
  /\ fault \in BOOLEAN

\* The first of the entries before the call that has the key asked for.
First(i) ==
  i \in DOMAIN before /\ before[i].key = wanted /\ \A j \in 1 .. i - 1 : before[j].key # wanted

\* "Gets the value with the specified key from the map": of several entries
\* with the key, the one added first, and NULL when there is none.
GetCorrect ==
  pc = "got" =>
    /\ \A i \in DOMAIN before : First(i) => value = before[i].value
    /\ (\A i \in DOMAIN before : before[i].key # wanted) => value = NULL

\* "Removes the value with the specified key from the map": one entry with
\* the key goes, the one that map_get would have found, and no other.
RemoveCorrect ==
  pc = "removed" /\ ~fault =>
    /\ \A i \in DOMAIN before : First(i) => entries = RemoveAt(before, i)
    /\ (\A i \in DOMAIN before : before[i].key # wanted) => entries = before

\* Both, for any key: "Key not found" is a result and not an accident.
SearchReturns == ~fault
=============================================================================
