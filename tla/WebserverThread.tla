-------------------------- MODULE WebserverThread ---------------------------
(***************************************************************************)
(* webserver-task/mongoose7_webserver_thread.c: the functions that start   *)
(* and stop the webserver thread, the thread itself and the HTTP events it *)
(* dispatches, one action per access to the state they share (the two task *)
(* handles, gManager, gHandler, and every task's notification value).      *)
(*                                                                         *)
(* The functions take no lock.  Spec lets every caller run them at any     *)
(* time; SerialSpec adds what the callers must provide: one call at a time,*)
(* and a handler that is not taken away from a server that runs.  Neither  *)
(* has a stop that is called from the handler, by the webserver thread: it *)
(* would wake from its own notification and free the manager under itself. *)
(***************************************************************************)
EXTENDS Naturals

CONSTANTS
  Callers,      \* tasks that may call start and stop
  Threads,      \* task control blocks for webserver threads (bounds how many exist)
  NoTask,       \* the NULL task handle
  Handlers,     \* HTTP event handlers of the application
  NoHandler,    \* the NULL handler
  MayFail       \* which of "listen" (mg_http_listen) and "task" (xTaskCreate...) may fail

Tasks == Callers \cup Threads

ASSUME TasksAssumption ==
  /\ Callers \cap Threads = {}
  /\ NoTask \notin Tasks
  /\ NoHandler \notin Handlers

VARIABLES
  call,                   \* call[c]: where task c is in start or stop
  thread,                 \* thread[t]: where webserver thread t is in its loop
  webserverThreadHandle,
  stoppingTaskHandle,
  gHandler,
  gManager,               \* "free", "empty" (no listener) or "listening"
  notified,               \* FreeRTOS notification value of each task
  fault                   \* a notification went to NULL or to a deleted task, or NULL was called

pointers == <<webserverThreadHandle, stoppingTaskHandle, gHandler>>
vars == <<call, thread, pointers, gManager, notified, fault>>

StartPc == {"init", "listen", "create", "unwind", "forget"}
StopPc == {"claim", "signal", "wait", "free", "clear", "unclaim"}
Polling == {"poll", "event", "handler"}   \* within mg_mgr_poll
ThreadPc == {"none", "check", "leave", "delete"} \cup Polling

Init ==
  /\ call = [c \in Callers |-> "idle"]
  /\ thread = [t \in Threads |-> "none"]
  /\ webserverThreadHandle = NoTask
  /\ stoppingTaskHandle = NoTask
  /\ gHandler = NoHandler
  /\ gManager = "free"
  /\ notified = [c \in Tasks |-> 0]
  /\ fault = FALSE

is_webserver_thread_running == webserverThreadHandle # NoTask

Step(c, from, to) == call[c] = from /\ call' = [call EXCEPT ![c] = to]
Pass(c, from, to) ==
  Step(c, from, to) /\ UNCHANGED <<thread, pointers, gManager, notified, fault>>
Move(t, from, to) == thread[t] = from /\ thread' = [thread EXCEPT ![t] = to]

-----------------------------------------------------------------------------
(* FreeRTOS.  xTaskNotifyGive asserts that its handle is not NULL and      *)
(* writes into the task control block it points to.                        *)

Exists(t) == t \in Callers \/ (t \in Threads /\ thread[t] # "none")

\* Mutants of the two operations below.
GiveCountsDown(t) ==
  /\ notified' = [notified EXCEPT ![t] = @ - 1]
  /\ fault' = (fault \/ ~Exists(t))
TakeKeepsCount(t) == UNCHANGED notified

xTaskNotifyGive(t) ==
  /\ notified' = [notified EXCEPT ![t] = @ + 1]
  /\ fault' = (fault \/ ~Exists(t))

\* pdTRUE: whatever was accumulated is cleared.
ulTaskNotifyTake(t) == notified' = [notified EXCEPT ![t] = 0]

-----------------------------------------------------------------------------
(* Mutants of the actions below, by which the properties are tested.       *)

UnwindKeepsManager(c) == Pass(c, "unwind", "forget")
ClaimForgotten(c) == Pass(c, "claim", "signal")
FreeNothing(c) == Pass(c, "free", "clear")
ClearNothing(c) == Pass(c, "clear", "unclaim")

AwaitNothing(c) ==
  /\ Step(c, "wait", "free")
  /\ ulTaskNotifyTake(c)
  /\ UNCHANGED <<thread, pointers, gManager, fault>>

CheckForTwo(t) ==
  /\ Move(t, "check", IF notified[t] > 1 THEN "leave" ELSE "poll")
  /\ ulTaskNotifyTake(t)
  /\ UNCHANGED <<call, pointers, gManager, fault>>

-----------------------------------------------------------------------------
(* A call begins: it reads webserverThreadHandle.                          *)

start_webserver_thread(c) ==
  Pass(c, "idle", IF is_webserver_thread_running THEN "returned" ELSE "init")

stop_webserver_thread(c) ==
  Pass(c, "idle", IF is_webserver_thread_running THEN "claim" ELSE "returned")

Return(c) == Pass(c, "returned", "idle")

-----------------------------------------------------------------------------
(* The steps of start_webserver_thread.                                    *)

InitManager(c) ==
  /\ Step(c, "init", "listen")
  /\ gManager' = "empty"
  /\ UNCHANGED <<thread, pointers, notified, fault>>

\* The result of mg_http_listen is not looked at.
Listen(c) ==
  /\ Step(c, "listen", "create")
  /\ \/ gManager' = "listening"
     \/ "listen" \in MayFail /\ UNCHANGED gManager
  /\ UNCHANGED <<thread, pointers, notified, fault>>

CreateThread(c) ==
  /\ Step(c, "create", "returned")
  /\ \E t \in Threads :
       /\ thread[t] = "none"
       /\ thread' = [thread EXCEPT ![t] = "poll"]
       /\ webserverThreadHandle' = t
       /\ notified' = [notified EXCEPT ![t] = 0]
  /\ UNCHANGED <<stoppingTaskHandle, gHandler, gManager, fault>>

CreateFails(c) == "task" \in MayFail /\ Pass(c, "create", "unwind")

UnwindManager(c) ==
  /\ Step(c, "unwind", "forget")
  /\ gManager' = "free"
  /\ UNCHANGED <<thread, pointers, notified, fault>>

ForgetThread(c) ==
  /\ Step(c, "forget", "returned")
  /\ webserverThreadHandle' = NoTask
  /\ UNCHANGED <<thread, stoppingTaskHandle, gHandler, gManager, notified, fault>>

-----------------------------------------------------------------------------
(* The steps of stop_webserver_thread.                                     *)

ClaimStop(c) ==
  /\ Step(c, "claim", "signal")
  /\ stoppingTaskHandle' = c
  /\ UNCHANGED <<thread, webserverThreadHandle, gHandler, gManager, notified, fault>>

SignalThread(c) ==
  /\ Step(c, "signal", "wait")
  /\ xTaskNotifyGive(webserverThreadHandle)
  /\ UNCHANGED <<thread, pointers, gManager>>

\* portMAX_DELAY: blocks until this task has a notification, from anyone.
AwaitStopped(c) ==
  /\ notified[c] > 0
  /\ Step(c, "wait", "free")
  /\ ulTaskNotifyTake(c)
  /\ UNCHANGED <<thread, pointers, gManager, fault>>

FreeManager(c) ==
  /\ Step(c, "free", "clear")
  /\ gManager' = "free"
  /\ UNCHANGED <<thread, pointers, notified, fault>>

ClearThread(c) ==
  /\ Step(c, "clear", "unclaim")
  /\ webserverThreadHandle' = NoTask
  /\ UNCHANGED <<thread, stoppingTaskHandle, gHandler, gManager, notified, fault>>

ClearStopping(c) ==
  /\ Step(c, "unclaim", "returned")
  /\ stoppingTaskHandle' = NoTask
  /\ UNCHANGED <<thread, webserverThreadHandle, gHandler, gManager, notified, fault>>

-----------------------------------------------------------------------------
(* mongoose7_webserver_thread: poll, look for a stop, and on the way out   *)
(* notify whoever asked for it.                                            *)

PollReturns(t) ==
  /\ Move(t, "poll", "check")
  /\ UNCHANGED <<call, pointers, gManager, notified, fault>>

\* mongoose7_event_handler sees a handler.  Without one, and after one, it at
\* most serves a file on the connection, which changes nothing here.
EventArrives(t) ==
  /\ gManager = "listening" /\ gHandler # NoHandler
  /\ Move(t, "poll", "event")
  /\ UNCHANGED <<call, pointers, gManager, notified, fault>>

\* gHandler is read again for the call.
CallHandler(t) ==
  /\ Move(t, "event", "handler")
  /\ fault' = (fault \/ gHandler = NoHandler)
  /\ UNCHANGED <<call, pointers, gManager, notified>>

HandlerReturns(t) ==
  /\ Move(t, "handler", "poll")
  /\ UNCHANGED <<call, pointers, gManager, notified, fault>>

\* Only a count of exactly 1 stops the loop; every count is cleared.
CheckStop(t) ==
  /\ Move(t, "check", IF notified[t] = 1 THEN "leave" ELSE "poll")
  /\ ulTaskNotifyTake(t)
  /\ UNCHANGED <<call, pointers, gManager, fault>>

NotifyStopper(t) ==
  /\ Move(t, "leave", "delete")
  /\ xTaskNotifyGive(stoppingTaskHandle)
  /\ UNCHANGED <<call, pointers, gManager>>

DeleteThread(t) ==
  /\ Move(t, "delete", "none")
  /\ UNCHANGED <<call, pointers, gManager, notified, fault>>

-----------------------------------------------------------------------------
StartStep(c) ==
  \/ InitManager(c)
  \/ Listen(c)
  \/ CreateThread(c)
  \/ CreateFails(c)
  \/ UnwindManager(c)
  \/ ForgetThread(c)

StopStep(c) ==
  \/ ClaimStop(c)
  \/ SignalThread(c)
  \/ AwaitStopped(c)
  \/ FreeManager(c)
  \/ ClearThread(c)
  \/ ClearStopping(c)

CallStep(c) == StartStep(c) \/ StopStep(c)

ThreadStep(t) ==
  \/ PollReturns(t) \/ EventArrives(t) \/ CallHandler(t) \/ HandlerReturns(t)
  \/ CheckStop(t)
  \/ NotifyStopper(t)
  \/ DeleteThread(t)

mongoose7_webserver_thread_set_event_handler(h) ==
  /\ gHandler' = h
  /\ UNCHANGED <<call, thread, webserverThreadHandle, stoppingTaskHandle, gManager, notified, fault>>

Begin(c) == start_webserver_thread(c) \/ stop_webserver_thread(c)

Next ==
  \/ \E c \in Callers : Begin(c) \/ CallStep(c) \/ Return(c)
  \/ \E t \in Threads : ThreadStep(t)
  \/ \E h \in Handlers \cup {NoHandler} : mongoose7_webserver_thread_set_event_handler(h)

Spec == Init /\ [][Next]_vars

\* The serial use of the functions: no call of start or stop begins while
\* another is under way.
Busy(c) == call[c] # "idle"
AtMostOneCall == \A c, d \in Callers : Busy(c) /\ Busy(d) => c = d

\* A server that runs keeps a handler once it has one, be it another one.
HandlerKept == is_webserver_thread_running' /\ gHandler # NoHandler => gHandler' # NoHandler

SerialNext == Next /\ AtMostOneCall' /\ HandlerKept
SerialSpec == Init /\ [][SerialNext]_vars

\* A task in a call, and a webserver thread, are scheduled; mg_mgr_poll handles
\* a few events and returns (its timeout is 100 ms), and the application's
\* handler returns.  Nobody is obliged to begin a call.
Fairness ==
  /\ \A c \in Callers : WF_vars(CallStep(c)) /\ WF_vars(Return(c))
  /\ \A t \in Threads : WF_vars(ThreadStep(t)) /\ SF_vars(PollReturns(t))

FairSerialSpec == SerialSpec /\ Fairness

-----------------------------------------------------------------------------
(* Correctness.                                                            *)

TypeOK ==
  /\ call \in [Callers -> {"idle", "returned"} \cup StartPc \cup StopPc]
  /\ thread \in [Threads -> ThreadPc]
  /\ webserverThreadHandle \in Threads \cup {NoTask}
  /\ stoppingTaskHandle \in Callers \cup {NoTask}
  /\ gHandler \in Handlers \cup {NoHandler}
  /\ gManager \in {"free", "empty", "listening"}
  /\ notified \in [Tasks -> Nat]
  /\ fault \in BOOLEAN

InLoop(t) == thread[t] \in Polling \cup {"check", "leave"}
UsesManager(c) ==
  \/ c \in Callers /\ call[c] \in {"init", "listen", "unwind", "free"}
  \/ c \in Threads /\ thread[c] \in Polling

\* mongoose is not thread safe: a call into it on gManager (init, listen,
\* poll or free) never overlaps another one, from whichever task.
ManagerExclusive ==
  \A c, d \in Tasks : UsesManager(c) /\ UsesManager(d) => c = d

\* The thread polls, and a start listens, only on a manager that is
\* initialised; mg_mgr_init only meets one whose resources were freed.
ManagerLifetime ==
  /\ \A t \in Threads : thread[t] \in Polling => gManager # "free"
  /\ \A c \in Callers : /\ call[c] \in {"listen", "create", "unwind"} => gManager # "free"
                        /\ call[c] = "init" => gManager = "free"

\* "Wait for websever thread to be stopped": once stop_webserver_thread is
\* past its wait, no webserver thread is left in its loop or in a handler.
StopMeansStopped ==
  \A c \in Callers : call[c] \in {"free", "clear"} => \A t \in Threads : ~InLoop(t)

\* Every notification reaches a task that exists: the thread leaves its loop
\* only while the task in stoppingTaskHandle is waiting for it.  And the
\* handler that an event found is not NULL by the time it is called.
NoFault == ~fault

\* No notification outlives the handshake it belongs to: one left over would
\* end the wait of a later stop before the thread has left its loop, or stop
\* a server that was just started.
NoStrayNotification ==
  (\A c \in Callers : ~Busy(c)) =>
    /\ \A c \in Callers : notified[c] = 0
    /\ is_webserver_thread_running => notified[webserverThreadHandle] = 0

\* Between calls, failed ones included, the server is entirely down or
\* entirely up: one thread in its loop, known by its handle, and a manager.
AllOrNothing ==
  (\A c \in Callers : ~Busy(c)) =>
    IF is_webserver_thread_running
    THEN gManager # "free" /\ \A t \in Threads : InLoop(t) <=> t = webserverThreadHandle
    ELSE gManager = "free" /\ \A t \in Threads : ~InLoop(t)

\* A stop that found the server running is over at some point.
StopReturns == \A c \in Callers : call[c] = "claim" ~> call[c] = "returned"

-----------------------------------------------------------------------------
(* gManager has one owner at a time, and they follow one another as        *)
(* ManagerOwnership says.                                                  *)

HoldsManager(c) == call[c] \in {"init", "listen", "create", "unwind", "free"}

owner ==
  IF \E c \in Callers : HoldsManager(c) THEN CHOOSE c \in Callers : HoldsManager(c)
  ELSE IF gManager # "free" THEN webserverThreadHandle ELSE NoTask

Ownership == INSTANCE ManagerOwnership

\* start_webserver_thread, stop_webserver_thread and the thread hand gManager
\* on in the promised order, and a caller does not keep it.
ImplementsOwnership == Ownership!Spec
=============================================================================
