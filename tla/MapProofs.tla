------------------------------ MODULE MapProofs -------------------------------
(***************************************************************************)
(* map_get and map_remove, for any keys, any number of entries, any key    *)
(* asked for and memory that fails.                                        *)
(***************************************************************************)
EXTENDS Map, RemoveAtLemma

Entry == [key : Keys, value : Values]

(* The inductive invariant: the iterator of a search has passed entries    *)
(* with other keys only, of a list that is as the call found it.           *)

Passed ==
  pc \in {"get", "remove"} =>
    /\ before = entries
    /\ passed <= Len(entries)
    /\ \A j \in 1 .. passed : entries[j].key # wanted

NothingYet == pc # "got" => value = NULL

IInv == TypeOK /\ Passed /\ NothingYet /\ GetCorrect /\ RemoveCorrect

LEMMA InitialState == Init => IInv
<1> SUFFICES ASSUME Init PROVE IInv
  OBVIOUS
<1>1. entries \in Seq(Entry) /\ Len(entries) = 0
  BY EmptySeq DEF Init
<1>2. TypeOK
  <2>1. MaxLen \in Nat
    BY MapAssumption DEF MapAssumption
  <2>2. entries \in Seq([key : Keys, value : Values]) /\ Len(entries) <= MaxLen /\ passed \in 0 .. MaxLen
    BY <1>1, <2>1 DEF Init, Entry
  <2>3. QED
    BY <2>2 DEF Init, TypeOK
<1>3. QED
  BY <1>2 DEF Init, IInv, Passed, NothingYet, GetCorrect, RemoveCorrect

LEMMA Before ==
  ASSUME IInv
  PROVE  /\ entries \in Seq(Entry) /\ Len(entries) \in Nat /\ Len(entries) <= MaxLen
         /\ DOMAIN entries = 1 .. Len(entries)
         /\ \A i \in 1 .. Len(entries) : entries[i] \in Entry
         /\ passed \in Nat /\ MaxLen \in Nat
<1>1. entries \in Seq(Entry) /\ Len(entries) <= MaxLen /\ passed \in 0 .. MaxLen
  BY DEF IInv, TypeOK, Entry
<1>2. QED
  BY <1>1, ElementOfSeq, LenProperties, MapAssumption DEF MapAssumption

-----------------------------------------------------------------------------
(* The steps.                                                              *)

LEMMA AddKeeps ==
  ASSUME IInv, NEW k \in Keys, NEW v \in Values, map_add(k, v)
  PROVE  IInv'
<1> DEFINE new == [key |-> k, value |-> v]
<1>1. pc = "idle" /\ UNCHANGED <<pc, wanted, passed, value, before>> /\ Len(entries) < MaxLen
  BY DEF map_add
<1>2. fault' \in BOOLEAN /\ (entries' = entries \/ entries' = Append(entries, new))
  BY DEF map_add, IInv, TypeOK
<1>3. new \in Entry
  BY DEF Entry
<1>4. entries' \in Seq(Entry) /\ Len(entries') <= MaxLen
  BY <1>1, <1>2, <1>3, Before, AppendProperties
<1>5. TypeOK'
  BY <1>1, <1>2, <1>4 DEF IInv, TypeOK, Entry
<1>6. QED
  BY <1>1, <1>5 DEF IInv, Passed, NothingYet, GetCorrect, RemoveCorrect

LEMMA SearchKeeps ==
  ASSUME IInv, NEW k \in Keys, map_get(k) \/ map_remove(k)
  PROVE  IInv'
<1>1. PICK loop \in {"get", "remove"}, end \in {"got", "removed"} : Search(k, loop, end)
  BY DEF map_get, map_remove
<1>2. /\ pc = "idle" /\ ~fault /\ wanted' = k /\ before' = entries /\ passed' = 0
      /\ UNCHANGED <<entries, value>>
      /\ (entries = <<>> /\ pc' = end) \/ (entries # <<>> /\ pc' = loop)
      /\ fault' \in BOOLEAN
  BY <1>1 DEF Search, IInv, TypeOK
<1>3. TypeOK'
  BY <1>1, <1>2, Before DEF IInv, TypeOK
<1>4. Passed' /\ NothingYet'
  BY <1>1, <1>2, Before DEF IInv, Passed, NothingYet
<1>5. GetCorrect' /\ RemoveCorrect'
  <2>1. CASE entries # <<>>
    BY <1>1, <1>2, <2>1 DEF GetCorrect, RemoveCorrect
  <2>2. CASE entries = <<>>
    <3>1. DOMAIN before' = {}
      BY <1>2, <2>2, EmptySeq, Before
    <3>2. QED
      BY <1>2, <2>2, <3>1 DEF IInv, NothingYet, GetCorrect, RemoveCorrect, First
  <2>3. QED
    BY <2>1, <2>2
<1>6. QED
  BY <1>3, <1>4, <1>5 DEF IInv

LEMMA NextEntryKeeps == ASSUME IInv, NextEntry PROVE IInv'
<1>1. /\ pc \in {"get", "remove"} /\ passed < Len(entries) /\ entries[passed + 1].key # wanted
      /\ passed' = passed + 1 /\ UNCHANGED <<entries, wanted, value, before, fault>>
  BY DEF NextEntry, Looping, Matches
<1>2. pc' = pc
  <2>1. slist_iter_index(passed') < Len(entries)
    BY <1>1, Before DEF slist_iter_index
  <2>2. QED
    BY <2>1 DEF NextEntry
<1>3. TypeOK'
  BY <1>1, <1>2, Before DEF IInv, TypeOK
<1>4. Passed'
  <2>1. \A j \in 1 .. passed + 1 : j \in 1 .. passed \/ j = passed + 1
    BY Before
  <2>2. QED
    BY <1>1, <1>2, <2>1, Before DEF IInv, Passed
<1>5. QED
  BY <1>1, <1>2, <1>3, <1>4 DEF IInv, NothingYet, GetCorrect, RemoveCorrect

LEMMA PastEndKeeps == ASSUME IInv, PastEnd PROVE IInv'
<1>1. pc \in {"get", "remove"} /\ fault' = TRUE /\ UNCHANGED <<entries, pc, wanted, passed, value, before>>
  BY DEF PastEnd, Looping
<1>2. QED
  BY <1>1 DEF IInv, TypeOK, Passed, NothingYet, GetCorrect, RemoveCorrect

\* The entry at which a search ends is the first one with the key.
LEMMA FoundFirst ==
  ASSUME IInv, pc \in {"get", "remove"}, Matches
  PROVE  /\ passed + 1 \in DOMAIN before /\ before[passed + 1].key = wanted
         /\ \A i \in DOMAIN before : First(i) => i = passed + 1
<1>1. /\ before = entries /\ passed < Len(entries) /\ entries[passed + 1].key = wanted
      /\ \A j \in 1 .. passed : entries[j].key # wanted
  BY DEF IInv, Passed, Matches
<1>2. ASSUME NEW i \in DOMAIN before, First(i) PROVE i = passed + 1
  <2>1. /\ i \in 1 .. Len(entries) /\ entries[i].key = wanted
        /\ \A j \in 1 .. i - 1 : entries[j].key # wanted
    BY <1>1, <1>2, Before DEF First
  <2>2. ~(i <= passed)
    BY <1>1, <2>1, Before
  <2>3. ~(i > passed + 1)
    <3>1. i > passed + 1 => passed + 1 \in 1 .. i - 1
      BY <2>1, Before
    <3>2. QED
      BY <1>1, <2>1, <3>1
  <2>4. QED
    BY <2>1, <2>2, <2>3, Before
<1>3. QED
  BY <1>1, <1>2, Before

LEMMA GetEntryKeeps == ASSUME IInv, GetEntry PROVE IInv'
<1>1. /\ pc = "get" /\ Matches /\ pc' = "got" /\ passed' = passed + 1
      /\ value' = entries[passed + 1].value
      /\ UNCHANGED <<entries, wanted, before, fault>>
  BY DEF GetEntry, ValueOf
<1>2. passed < Len(entries) /\ before = entries
  BY <1>1 DEF Matches, IInv, Passed
<1>3. TypeOK'
  BY <1>1, <1>2, Before DEF IInv, TypeOK, Entry
<1>4. GetCorrect'
  BY <1>1, <1>2, FoundFirst DEF GetCorrect, First
<1>5. QED
  BY <1>1, <1>3, <1>4 DEF IInv, Passed, NothingYet, RemoveCorrect

LEMMA RemoveEntryKeeps == ASSUME IInv, RemoveEntry PROVE IInv'
<1>1. /\ pc = "remove" /\ Matches /\ pc' = "removed" /\ passed' = passed + 1
      /\ fault' \in BOOLEAN /\ UNCHANGED <<wanted, value, before>>
  BY DEF RemoveEntry
<1>2. passed < Len(entries) /\ before = entries
  BY <1>1 DEF Matches, IInv, Passed
<1>3. entries' = RemoveAt(entries, passed + 1)
  <2>1. slist_iter_index(passed') + 1 = passed + 1
    BY <1>1, Before DEF slist_iter_index
  <2>2. QED
    BY <2>1 DEF RemoveEntry
<1>4. entries' \in Seq(Entry) /\ Len(entries') <= MaxLen
  <2>1. passed + 1 \in 1 .. Len(entries)
    BY <1>2, Before
  <2>2. QED
    BY <1>3, <2>1, Before, RemoveAtProperties
<1>5. TypeOK'
  BY <1>1, <1>2, <1>4, Before DEF IInv, TypeOK, Entry
<1>6. RemoveCorrect'
  BY <1>1, <1>2, <1>3, FoundFirst DEF RemoveCorrect, First
<1>7. QED
  BY <1>1, <1>5, <1>6 DEF IInv, Passed, NothingYet, GetCorrect

LEMMA ReturnKeeps == ASSUME IInv, Return PROVE IInv'
<1>1. /\ pc' = "idle" /\ wanted' = NoKey /\ passed' = 0 /\ value' = NULL
      /\ UNCHANGED <<entries, fault>>
  BY DEF Return
<1>2. TypeOK'
  BY <1>1, Before DEF IInv, TypeOK
<1>3. QED
  BY <1>1, <1>2 DEF IInv, Passed, NothingYet, GetCorrect, RemoveCorrect

-----------------------------------------------------------------------------
(* The theorems.                                                           *)

\* The inductive invariant holds of every use of a map, in memory that fails
\* and in builds with and without assertions.
THEOREM Invariance == Spec => []IInv
<1>1. ASSUME IInv, Next PROVE IInv'
  BY <1>1, AddKeeps, SearchKeeps, NextEntryKeeps, PastEndKeeps, GetEntryKeeps, RemoveEntryKeeps,
     ReturnKeeps
  DEF Next
<1>2. ASSUME IInv, UNCHANGED vars PROVE IInv'
  BY <1>2
  DEF IInv, vars, TypeOK, Passed, NothingYet, GetCorrect, RemoveCorrect, First
<1>3. IInv /\ [Next]_vars => IInv'
  BY <1>1, <1>2
<1>4. QED
  BY <1>3, InitialState, PTL DEF Spec

\* The entries, the iterator of a search and what it stores keep their types.
THEOREM TypeCorrect == Spec => []TypeOK
<1>1. IInv => TypeOK
  BY DEF IInv
<1>2. QED
  BY <1>1, Invariance, PTL

\* map_get stores the value of the first entry with the key, or NULL.
THEOREM GetsTheFirst == Spec => []GetCorrect
<1>1. IInv => GetCorrect
  BY DEF IInv
<1>2. QED
  BY <1>1, Invariance, PTL

\* map_remove removes the first entry with the key, and no other: the index of
\* the iterator, which is one behind it, is the right one for slist_remove_at.
THEOREM RemovesTheFirst == Spec => []RemoveCorrect
<1>1. IInv => RemoveCorrect
  BY DEF IInv
<1>2. QED
  BY <1>1, Invariance, PTL
=============================================================================
