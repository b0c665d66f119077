---------------------------- MODULE LoggerService ----------------------------
(***************************************************************************)
(* logger/logger_service.c: any task may log, and register and unregister  *)
(* sinks.  The list of sinks is the list of module SList, shared by all of *)
(* them without a lock, and so is the buffer that holds the timestamp.     *)
(*                                                                         *)
(* Next lets all tasks do everything at the same time.  CarefulSpec adds   *)
(* what the callers must provide: sinks come and go one at a time, none    *)
(* goes while another task is calling the sinks, and a sink that is called *)
(* does not unregister the one whose turn is next.                         *)
(* A sink that logs itself is not modelled.                                *)
(***************************************************************************)
EXTENDS Naturals, Sequences

CONSTANTS
  Tasks,
  Nodes,    \* memory for list nodes (bounds how many exist)
  Sinks,    \* memory for struct sink_s (bounds how many exist)
  NULL,
  AssertsEnabled,  \* as in SList
  Levels,          \* levels of messages
  DefaultLevel,    \* CONFIG_LOG_DEFAULT_LEVEL
  MaxTime,         \* bounds the clock
  SinksChange      \* TRUE if a sink may register and unregister sinks when it is called

ASSUME LoggerAssumption ==
  /\ Tasks # {} /\ NULL \notin Nodes \cup Sinks
  /\ AssertsEnabled \in BOOLEAN
  /\ Levels \subseteq 0 .. 5 /\ DefaultLevel \in 0 .. 5
  /\ MaxTime \in Nat
  /\ SinksChange \in BOOLEAN

VARIABLES
  exists, first, last, count, next, item, allocated, call, iter, order, fault,
  sinks,     \* the sinks that were allocated; none is ever freed
  log,       \* log[p]: where task p is in logger_service_vlog
  clock,     \* the time
  now,       \* now[p]: the time of p's message
  timestamp, \* logger_service_timestamp: a time, or Torn while it is written
  printed,   \* printed[p]: the timestamp in p's message
  called,    \* called[p]: the sinks that got p's message
  due        \* due[p], auxiliary: the sinks that must get it

listVars == <<exists, first, last, count, next, item, allocated, call, iter, order, fault>>
logVars == <<log, now, timestamp, printed, called, due>>
vars == <<listVars, sinks, clock, logVars>>

List == INSTANCE SList
  WITH Procs <- Tasks, Items <- Sinks, Indices <- {0}, Ops <- {"add", "remove"}

Torn == MaxTime + 1

Init ==
  /\ List!Init
  /\ sinks = {}
  /\ log = [p \in Tasks |-> "idle"]
  /\ clock = 0
  /\ now = [p \in Tasks |-> 0]
  /\ timestamp = 0
  /\ printed = [p \in Tasks |-> 0]
  /\ called = [p \in Tasks |-> <<>>]
  /\ due = [p \in Tasks |-> {}]

Listed == {item[n] : n \in {order[i] : i \in DOMAIN order}}

Tick == clock < MaxTime /\ clock' = clock + 1 /\ UNCHANGED <<listVars, sinks, logVars>>

-----------------------------------------------------------------------------
(* logger_service_init, once, before anything else uses the logger.        *)

logger_service_init(p) ==
  /\ List!slist_new(p)
  /\ UNCHANGED <<sinks, clock, logVars>>

-----------------------------------------------------------------------------
(* Registering and unregistering, from a task or from within a sink.       *)

\* The list calls of p go on and end.  register_sink returns the new sink
\* whether or not slist_add found memory for its node.
ListStep(p) ==
  /\ List!AddStep(p) \/ List!RemoveStep(p) \/ List!End(p)
  /\ UNCHANGED <<sinks, clock, logVars>>

MayChange(p) == log[p] = "idle" \/ (log[p] = "callback" /\ SinksChange)

logger_service_register_sink(p) ==
  /\ MayChange(p)
  /\ List!slist_add(p)
  /\ call'[p].wanted \notin sinks
  /\ sinks' = sinks \cup {call'[p].wanted}
  /\ UNCHANGED <<clock, logVars>>

Unregister(p, s) ==
  /\ List!Removal(p)
  /\ call'[p].op = "remove" /\ call'[p].wanted = s
  /\ due' = [q \in Tasks |-> due[q] \ {s}]
  /\ UNCHANGED <<sinks, clock, log, now, timestamp, printed, called>>

Adding(s) == \E q \in Tasks : call[q].op = "add" /\ call[q].wanted = s

\* Any handle that register_sink has returned, also one that was removed
\* before: the struct sink_s is not freed.
logger_service_unregister_sink(p) ==
  /\ MayChange(p)
  /\ \E s \in sinks : ~Adding(s) /\ Unregister(p, s)

-----------------------------------------------------------------------------
(* logger_service_vlog.                                                    *)

Goto(p, from, to) ==
  log[p] = from /\ List!At(p, "idle") /\ log' = [log EXCEPT ![p] = to]

\* Levels above the default, and a failing calloc, end the call at once.
logger_service_vlog(p) ==
  /\ exists
  /\ Goto(p, "idle", "stamp")
  /\ \E level \in Levels : level <= DefaultLevel
  /\ now' = [now EXCEPT ![p] = clock]
  /\ UNCHANGED <<listVars, sinks, clock, timestamp, printed, called, due>>

\* strftime or snprintf writes into the shared buffer.
WriteTimestamp(p) ==
  /\ Goto(p, "stamp", "stamping")
  /\ timestamp' = Torn
  /\ UNCHANGED <<listVars, sinks, clock, now, printed, called, due>>

TimestampWritten(p) ==
  /\ Goto(p, "stamping", "format")
  /\ timestamp' = now[p]
  /\ UNCHANGED <<listVars, sinks, clock, now, printed, called, due>>

\* vsnprintf: the arguments of the LOG macros include the shared buffer.
Format(p) ==
  /\ Goto(p, "format", "open")
  /\ printed' = [printed EXCEPT ![p] = timestamp]
  /\ UNCHANGED <<listVars, sinks, clock, now, timestamp, called, due>>

OpenSinks(p) ==
  /\ Goto(p, "open", "iterate")
  /\ List!slist_iter_new(p)
  /\ due' = [due EXCEPT ![p] = Listed]
  /\ UNCHANGED <<sinks, clock, now, timestamp, printed, called>>

\* No memory for the iterator: the message is gone.
OpenFails(p) ==
  /\ Goto(p, "open", "done")
  /\ UNCHANGED <<listVars, sinks, clock, now, timestamp, printed, called, due>>

CallSink(p) ==
  /\ Goto(p, "iterate", "callback")
  /\ List!slist_iter_next(p)
  /\ called' = [called EXCEPT ![p] = Append(@, item[iter[p].next])]
  /\ UNCHANGED <<sinks, clock, now, timestamp, printed, due>>

SinkReturns(p) ==
  /\ Goto(p, "callback", "iterate")
  /\ UNCHANGED <<listVars, sinks, clock, now, timestamp, printed, called, due>>

CloseSinks(p) ==
  /\ Goto(p, "iterate", "done")
  /\ iter[p].next = NULL
  /\ List!slist_iter_delete(p)
  /\ UNCHANGED <<sinks, clock, now, timestamp, printed, called, due>>

LogReturns(p) ==
  /\ Goto(p, "done", "idle")
  /\ now' = [now EXCEPT ![p] = 0]
  /\ printed' = [printed EXCEPT ![p] = 0]
  /\ called' = [called EXCEPT ![p] = <<>>]
  /\ due' = [due EXCEPT ![p] = {}]
  /\ UNCHANGED <<listVars, sinks, clock, timestamp>>

-----------------------------------------------------------------------------
LogStep(p) ==
  \/ logger_service_vlog(p) \/ WriteTimestamp(p) \/ TimestampWritten(p) \/ Format(p)
  \/ OpenSinks(p) \/ OpenFails(p)
  \/ CallSink(p) \/ SinkReturns(p) \/ CloseSinks(p) \/ LogReturns(p)

Next ==
  \/ Tick
  \/ \E p \in Tasks :
       \/ logger_service_init(p) \/ logger_service_register_sink(p)
       \/ logger_service_unregister_sink(p) \/ ListStep(p) \/ LogStep(p)

\* What the callers must provide.
OneChange == \A p, q \in Tasks : call[p].pc # "idle" /\ call[q].pc # "idle" => p = q
RemovalAlone == \A p, q \in Tasks : call[p].op = "remove" /\ iter[q].live => p = q
NextSinkStays ==
  \A p \in Tasks :
    call[p].op = "remove" /\ iter[p].next # NULL => call[p].wanted # item[iter[p].next]
Careful == OneChange /\ RemovalAlone /\ NextSinkStays

CarefulSpec == Init /\ [][Next /\ Careful']_vars

-----------------------------------------------------------------------------
(* Correctness.                                                            *)

TypeOK ==
  /\ List!TypeOK
  /\ sinks \subseteq Sinks
  /\ log \in [Tasks -> {"idle", "stamp", "stamping", "format", "open", "iterate", "callback", "done"}]
  /\ clock \in 0 .. MaxTime /\ now \in [Tasks -> 0 .. MaxTime]
  /\ timestamp \in 0 .. Torn /\ printed \in [Tasks -> 0 .. Torn]
  /\ called \in [Tasks -> Seq(Sinks)] /\ due \in [Tasks -> SUBSET Sinks]

\* No task follows a dangling pointer through the shared list of sinks: not
\* while sinks are registered under a log, nor when a sink that is being
\* called registers others, or unregisters itself or any but the next one.
SinkListSafe == ~fault

\* Every sink that is registered for the whole of a log gets its message, and
\* no sink gets it twice.
Delivered ==
  \A p \in Tasks :
    /\ \A i, j \in DOMAIN called[p] : called[p][i] = called[p][j] => i = j
    /\ log[p] = "done" => \A s \in due[p] : \E i \in DOMAIN called[p] : called[p][i] = s

\* "Update timestamp so it has the correct value if it is present in vlist":
\* the timestamp printed in a message is the time of that message.
TimestampCorrect ==
  \A p \in Tasks : log[p] \in {"open", "iterate", "callback", "done"} => printed[p] = now[p]
=============================================================================
