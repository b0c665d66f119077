--------------------------- MODULE WebserverTask ----------------------------
(***************************************************************************)
(* webserver-task/webserver_task.c: the task that prepares the component,  *)
(* and the handlers by which network events start and stop the webserver   *)
(* thread of module WebserverThread.  The ESP-IDF event loop, the WiFi     *)
(* driver behind it and the FreeRTOS mutex are external.                   *)
(***************************************************************************)
EXTENDS Naturals, Sequences

CONSTANTS
  EventTasks,   \* tasks that dispatch events (ESP-IDF has one for the default loop)
  Threads,      \* as in WebserverThread
  NoTask,       \* the NULL task handle; also: nobody holds the mutex
  Handlers, NoHandler,  \* as in WebserverThread
  MayFail,      \* as in WebserverThread, and "register" (esp_event_handler_register)
  EarlyEvents,  \* TRUE if the network may come up before the handlers are registered
  QueueLength   \* capacity of the event queue (bounds it)

Events == {"DISCONNECTED", "GOT_IP"}
NoEvent == "none"

ASSUME EventAssumption ==
  /\ EventTasks \cap Threads = {}
  /\ NoTask \notin EventTasks \cup Threads
  /\ NoHandler \notin Handlers
  /\ EarlyEvents \in BOOLEAN
  /\ QueueLength \in Nat \ {0}

VARIABLES
  call, thread, webserverThreadHandle, stoppingTaskHandle, gHandler, gManager, notified, fault,
  setup,       \* where webserver_task_main is
  webserverControlSemaphore,  \* "null" until the mutex is created
  holder,      \* the task that has the mutex
  registered,  \* events that have their handler
  queue,       \* events posted and not dispatched
  network,     \* the last event posted
  handling     \* handling[c]: the event whose handler task c is running

serverVars ==
  <<call, thread, webserverThreadHandle, stoppingTaskHandle, gHandler, gManager, notified, fault>>
setupVars == <<setup, webserverControlSemaphore, registered>>
vars == <<serverVars, setupVars, holder, queue, network, handling>>

Server == INSTANCE WebserverThread WITH Callers <- EventTasks

Init ==
  /\ Server!Init
  /\ setup = "create_mutex"
  /\ webserverControlSemaphore = "null"
  /\ holder = NoTask
  /\ registered = {}
  /\ queue = <<>>
  /\ network = "DISCONNECTED"
  /\ handling = [c \in EventTasks |-> NoEvent]

-----------------------------------------------------------------------------
(* Mutants of the actions below, by which the properties are tested.       *)

MutexNotKept ==
  /\ setup = "create_mutex"
  /\ setup' = "register_disconnected"
  /\ UNCHANGED <<serverVars, webserverControlSemaphore, registered, holder, queue, network, handling>>

PostPastCapacity(e) ==
  /\ setup = "suspended" \/ EarlyEvents
  /\ Len(queue) <= QueueLength
  /\ queue' = Append(queue, e)
  /\ network' = e
  /\ UNCHANGED <<serverVars, setupVars, holder, handling>>

CallWithoutMutex(c) ==
  /\ \/ handling[c] = "DISCONNECTED" /\ Server!stop_webserver_thread(c)
     \/ handling[c] = "GOT_IP" /\ Server!start_webserver_thread(c)
  /\ UNCHANGED <<setupVars, holder, queue, network, handling>>

CallSwapped(c) ==
  /\ holder = c
  /\ \/ handling[c] = "GOT_IP" /\ Server!stop_webserver_thread(c)
     \/ handling[c] = "DISCONNECTED" /\ Server!start_webserver_thread(c)
  /\ UNCHANGED <<setupVars, holder, queue, network, handling>>

-----------------------------------------------------------------------------
(* webserver_task_main: webserver_init in three steps, then suspended for  *)
(* good.                                                                   *)

CreateMutex ==
  /\ setup = "create_mutex"
  /\ setup' = "register_disconnected"
  /\ webserverControlSemaphore' = "mutex"
  /\ UNCHANGED <<serverVars, registered, holder, queue, network, handling>>

\* The result of esp_event_handler_register is not looked at.
Register(e, from, to) ==
  /\ setup = from
  /\ setup' = to
  /\ \/ registered' = registered \cup {e}
     \/ "register" \in MayFail /\ UNCHANGED registered
  /\ UNCHANGED <<serverVars, webserverControlSemaphore, holder, queue, network, handling>>

webserver_init ==
  \/ CreateMutex
  \/ Register("DISCONNECTED", "register_disconnected", "register_got_ip")
  \/ Register("GOT_IP", "register_got_ip", "suspended")

-----------------------------------------------------------------------------
(* The event loop.  Either event may come again without the other one in   *)
(* between: every failed attempt to connect is a disconnect, and a renewed *)
(* address is a new GOT_IP.  An event whose handler is not registered when *)
(* it is dispatched is gone.                                               *)

Post(e) ==
  /\ setup = "suspended" \/ EarlyEvents
  /\ Len(queue) < QueueLength
  /\ queue' = Append(queue, e)
  /\ network' = e
  /\ UNCHANGED <<serverVars, setupVars, holder, handling>>

Dispatch(c) ==
  /\ handling[c] = NoEvent
  /\ queue # <<>>
  /\ queue' = Tail(queue)
  /\ handling' = [handling EXCEPT ![c] = IF Head(queue) \in registered
                                         THEN Head(queue) ELSE NoEvent]
  /\ UNCHANGED <<serverVars, setupVars, holder, network>>

-----------------------------------------------------------------------------
(* wifi_event_sta_disconnected and ip_event_sta_got_ip: take the mutex,    *)
(* stop or start the thread, give the mutex back.                          *)

\* xSemaphoreTake asserts that its handle is not NULL.
TakeMutex(c) ==
  /\ handling[c] # NoEvent
  /\ holder = NoTask
  /\ holder' = c
  /\ fault' = (fault \/ webserverControlSemaphore = "null")
  /\ UNCHANGED <<call, thread, webserverThreadHandle, stoppingTaskHandle, gHandler, gManager, notified>>
  /\ UNCHANGED <<setupVars, queue, network, handling>>

CallServer(c) ==
  /\ holder = c
  /\ \/ handling[c] = "DISCONNECTED" /\ Server!stop_webserver_thread(c)
     \/ handling[c] = "GOT_IP" /\ Server!start_webserver_thread(c)
  /\ UNCHANGED <<setupVars, holder, queue, network, handling>>

GiveMutex(c) ==
  /\ Server!Return(c)
  /\ holder' = NoTask
  /\ handling' = [handling EXCEPT ![c] = NoEvent]
  /\ UNCHANGED <<setupVars, queue, network>>

-----------------------------------------------------------------------------
ServerStep(A) == A /\ UNCHANGED <<setupVars, holder, queue, network, handling>>

HandlerStep(c) ==
  \/ CallServer(c)
  \/ ServerStep(Server!CallStep(c))
  \/ GiveMutex(c)

\* The application sets its HTTP event handler when it likes, without the
\* mutex; it does not take the handler away from a server that runs.
SetHandler ==
  /\ \E h \in Handlers \cup {NoHandler} :
       ServerStep(Server!mongoose7_webserver_thread_set_event_handler(h))
  /\ Server!HandlerKept

Next ==
  \/ webserver_init
  \/ SetHandler
  \/ \E e \in Events : Post(e)
  \/ \E c \in EventTasks : Dispatch(c) \/ TakeMutex(c) \/ HandlerStep(c)
  \/ \E t \in Threads : ServerStep(Server!ThreadStep(t))

Spec == Init /\ [][Next]_vars

\* Every task of the system is scheduled, and FreeRTOS gives a mutex to the
\* task that has waited longest.  Nobody is obliged to post an event.
Fairness ==
  /\ WF_vars(webserver_init)
  /\ \A c \in EventTasks :
       WF_vars(Dispatch(c)) /\ SF_vars(TakeMutex(c)) /\ WF_vars(HandlerStep(c))
  /\ \A t \in Threads :
       WF_vars(ServerStep(Server!ThreadStep(t))) /\ SF_vars(ServerStep(Server!PollReturns(t)))

FairSpec == Spec /\ Fairness

-----------------------------------------------------------------------------
(* Correctness.                                                            *)

TypeOK ==
  /\ Server!TypeOK
  /\ setup \in {"create_mutex", "register_disconnected", "register_got_ip", "suspended"}
  /\ webserverControlSemaphore \in {"null", "mutex"}
  /\ holder \in EventTasks \cup {NoTask}
  /\ registered \subseteq Events
  /\ queue \in Seq(Events) /\ Len(queue) <= QueueLength
  /\ network \in Events
  /\ handling \in [EventTasks -> Events \cup {NoEvent}]

\* Whatever the network does, and whichever tasks dispatch its events, the
\* handlers call start and stop one at a time: the use of WebserverThread
\* under which its safety properties hold.
UsesServerSerially == Server!SerialSpec

\* gManager is used by one task at a time, is live while the thread polls it,
\* every start and stop leaves the server entirely up or down, and no
\* notification or mutex operation of the component meets a handle that is NULL
\* or belongs to a deleted task.
ServerSafe ==
  /\ Server!ManagerExclusive
  /\ Server!ManagerLifetime
  /\ Server!StopMeansStopped
  /\ Server!AllOrNothing
  /\ ~fault

\* A network event never wedges the event loop: its handler is over at some
\* point, though a stop waits without a timeout.
HandlersReturn == \A c \in EventTasks : handling[c] # NoEvent ~> handling[c] = NoEvent

Serving ==
  \E t \in Threads : Server!InLoop(t) /\ webserverThreadHandle = t /\ gManager = "listening"
AllFreed == gManager = "free" /\ \A t \in Threads : thread[t] = "none"

\* The server follows the network: if the last event was GOT_IP for good, the
\* server comes up and stays up, and if it was DISCONNECTED for good, the
\* server goes down and leaves no thread and no manager behind.
FollowsNetwork ==
  /\ <>[](network = "GOT_IP") => <>[]Serving
  /\ <>[](network = "DISCONNECTED") => <>[]AllFreed
=============================================================================
