------------------------- MODULE WebserverTaskProofs --------------------------
(***************************************************************************)
(* Theorems about WebserverTask: the mutex makes every use of              *)
(* WebserverThread a serial one, so that its theorems apply, for any       *)
(* number of tasks that dispatch events and any behaviour of the network.  *)
(***************************************************************************)
EXTENDS WebserverTask, TLAPS

Thread == INSTANCE WebserverThreadProofs WITH Callers <- EventTasks

\* A task is in start or stop only with the mutex, and handlers run only when
\* there is a mutex to take.
MutexInv ==
  /\ \A c \in EventTasks : Server!Busy(c) => holder = c
  /\ handling \in [EventTasks -> Events \cup {NoEvent}]
  /\ queue \in Seq(Events)
  /\ \A c \in EventTasks : handling[c] # NoEvent => webserverControlSemaphore = "mutex"
  /\ registered # {} => webserverControlSemaphore = "mutex"
  /\ setup # "create_mutex" => webserverControlSemaphore = "mutex"

TaskInv == MutexInv /\ Thread!IInv

LEMMA ServerAssumption ==
  /\ EventTasks \cap Threads = {}
  /\ NoTask \notin EventTasks \cup Threads
  /\ NoHandler \notin Handlers
BY EventAssumption DEF EventAssumption

\* The two instances of WebserverThread are the same specification.
LEMMA SameInit == Server!Init <=> Thread!Init
BY DEF Server!Init, Thread!Init, Server!Tasks, Thread!Tasks

LEMMA SameSteps == [Server!SerialNext]_(Server!vars) <=> [Thread!SerialNext]_(Thread!vars)
BY
  DEF Server!SerialNext, Thread!SerialNext, Server!Next, Thread!Next, Server!AtMostOneCall,
      Thread!AtMostOneCall, Server!Busy, Thread!Busy, Server!Begin, Thread!Begin,
      Server!CallStep, Thread!CallStep, Server!StartStep, Thread!StartStep,
      Server!StopStep, Thread!StopStep, Server!Return, Thread!Return, Server!ThreadStep,
      Thread!ThreadStep, Server!start_webserver_thread, Thread!start_webserver_thread,
      Server!stop_webserver_thread, Thread!stop_webserver_thread,
      Server!is_webserver_thread_running, Thread!is_webserver_thread_running, Server!Step,
      Thread!Step, Server!InitManager, Thread!InitManager, Server!Listen, Thread!Listen,
      Server!CreateThread, Thread!CreateThread, Server!CreateFails, Thread!CreateFails,
      Server!UnwindManager, Thread!UnwindManager, Server!ForgetThread, Thread!ForgetThread,
      Server!ClaimStop, Thread!ClaimStop, Server!SignalThread, Thread!SignalThread,
      Server!AwaitStopped, Thread!AwaitStopped, Server!FreeManager, Thread!FreeManager,
      Server!ClearThread, Thread!ClearThread, Server!ClearStopping, Thread!ClearStopping,
      Server!PollReturns, Thread!PollReturns, Server!CheckStop, Thread!CheckStop,
      Server!NotifyStopper, Thread!NotifyStopper, Server!DeleteThread, Thread!DeleteThread,
      Server!xTaskNotifyGive, Thread!xTaskNotifyGive, Server!ulTaskNotifyTake,
      Thread!ulTaskNotifyTake, Server!Exists, Thread!Exists, Server!pointers,
      Thread!pointers, Server!vars, Thread!vars, Server!Tasks, Thread!Tasks, Server!Pass,
      Thread!Pass, Server!Move, Thread!Move, Server!EventArrives, Thread!EventArrives, Server!CallHandler, Thread!CallHandler,
      Server!HandlerReturns, Thread!HandlerReturns, Server!HandlerKept, Thread!HandlerKept,
      Server!mongoose7_webserver_thread_set_event_handler,
      Thread!mongoose7_webserver_thread_set_event_handler

LEMMA SameProperties ==
  Thread!Safe => /\ Server!ManagerExclusive
                 /\ Server!ManagerLifetime
                 /\ Server!StopMeansStopped
                 /\ Server!AllOrNothing
BY
  DEF Thread!Safe, Server!ManagerExclusive, Thread!ManagerExclusive,
      Server!ManagerLifetime, Thread!ManagerLifetime, Server!StopMeansStopped,
      Thread!StopMeansStopped, Server!UsesManager, Thread!UsesManager, Server!InLoop,
      Thread!InLoop, Server!Tasks, Thread!Tasks, Server!Polling, Thread!Polling, Server!AllOrNothing,
      Thread!AllOrNothing, Server!Busy, Thread!Busy, Server!is_webserver_thread_running,
      Thread!is_webserver_thread_running

LEMMA ServerPreserves ==
  ASSUME Thread!IInv, [Server!SerialNext]_(Server!vars)
  PROVE  Thread!IInv'
BY SameSteps, Thread!StepPreserves, ServerAssumption
DEF Thread!TasksAssumption, Thread!Tasks

-----------------------------------------------------------------------------
LEMMA InitialState == Init => TaskInv
<1> SUFFICES ASSUME Init PROVE TaskInv
  OBVIOUS
<1>1. Thread!IInv
  BY SameInit, Thread!InitialState, ServerAssumption
  DEF Init, Thread!TasksAssumption, Thread!Tasks
<1>2. MutexInv
  BY DEF Init, MutexInv, Server!Init, Server!Busy, Server!Tasks
<1>3. QED
  BY <1>1, <1>2 DEF TaskInv

\* What the mutex needs to know of the server: where the calls are.
CallsTyped == call = [c \in EventTasks |-> call[c]] /\ fault \in BOOLEAN

LEMMA CallsAreTyped == Thread!IInv => CallsTyped
BY DEF Thread!IInv, Thread!TypeOK, Thread!Tasks, CallsTyped

\* A step in which c is in the call keeps every other task out of one.
LEMMA SerialSteps ==
  ASSUME TaskInv, Next
  PROVE  [Server!SerialNext]_(Server!vars) /\ MutexInv'
<1> USE DEF MutexInv, CallsTyped, setupVars
<1>1. MutexInv /\ CallsTyped
  BY CallsAreTyped DEF TaskInv
<1>2. MutexInv' => Server!AtMostOneCall'
  BY DEF Server!AtMostOneCall
<1>3. ASSUME webserver_init PROVE UNCHANGED serverVars /\ MutexInv'
  BY <1>1, <1>3 DEF webserver_init, CreateMutex, Register, serverVars, Server!Busy
<1>4. ASSUME NEW e \in Events, Post(e) PROVE UNCHANGED serverVars /\ MutexInv'
  BY <1>1, <1>4 DEF Post, serverVars, Server!Busy
<1>5. ASSUME NEW c \in EventTasks, Dispatch(c) PROVE UNCHANGED serverVars /\ MutexInv'
  BY <1>1, <1>5 DEF Dispatch, serverVars, Server!Busy
<1>6. ASSUME NEW c \in EventTasks, TakeMutex(c) PROVE UNCHANGED serverVars /\ MutexInv'
  BY <1>1, <1>6, ServerAssumption DEF TakeMutex, serverVars, Server!Busy
<1>7. ASSUME NEW c \in EventTasks, HandlerStep(c)
      PROVE  Server!Next /\ MutexInv' /\ UNCHANGED gHandler
  <2>1. CASE CallServer(c)
    BY <1>1, <2>1, ServerAssumption
    DEF CallServer, Server!pointers, Server!Next, Server!Begin, Server!Busy, Server!Pass, Server!Step,
        Server!start_webserver_thread, Server!stop_webserver_thread
  <2>2. CASE ServerStep(Server!CallStep(c))
    <3>1. Server!CallStep(c) /\ UNCHANGED <<setupVars, holder, queue, network, handling>>
      BY <2>2 DEF ServerStep
    <3>2. /\ Server!Busy(c) /\ \A d \in EventTasks : d # c => call'[d] = call[d]
          /\ UNCHANGED gHandler
      BY <1>1, <3>1
      DEF Server!Busy, Server!pointers, Server!CallStep, Server!StartStep, Server!StopStep, Server!Pass,
          Server!Step, Server!InitManager, Server!Listen, Server!CreateThread,
          Server!CreateFails, Server!UnwindManager, Server!ForgetThread, Server!ClaimStop,
          Server!SignalThread, Server!AwaitStopped, Server!FreeManager, Server!ClearThread,
          Server!ClearStopping
    <3>3. QED
      BY <1>1, <3>1, <3>2, ServerAssumption DEF Server!Next, Server!Busy
  <2>3. CASE GiveMutex(c)
    <3>1. /\ Server!Return(c)
          /\ holder' = NoTask /\ handling' = [handling EXCEPT ![c] = NoEvent]
          /\ UNCHANGED <<setupVars, queue>>
      BY <2>3 DEF GiveMutex
    <3>2. /\ Server!Busy(c) /\ call'[c] = "idle" /\ UNCHANGED gHandler
          /\ \A d \in EventTasks : d # c => call'[d] = call[d]
      BY <1>1, <3>1 DEF Server!Busy, Server!pointers, Server!Return, Server!Pass, Server!Step
    <3>3. Server!Next
      BY <3>1 DEF Server!Next
    <3>4. \A d \in EventTasks : d # c => ~Server!Busy(d) /\ ~Server!Busy(d)'
      BY <1>1, <3>2 DEF Server!Busy
    <3>5. MutexInv'
      BY <1>1, <3>1, <3>2, <3>4, ServerAssumption DEF Server!Busy
    <3>6. QED
      BY <1>1, <3>2, <3>3, <3>5, ServerAssumption
  <2>4. QED
    BY <1>7, <2>1, <2>2, <2>3 DEF HandlerStep
<1>8. ASSUME NEW t \in Threads, ServerStep(Server!ThreadStep(t))
      PROVE  Server!Next /\ MutexInv' /\ UNCHANGED <<call, gHandler>>
  BY <1>1, <1>8
  DEF ServerStep, Server!Next, Server!Busy, Server!ThreadStep, Server!PollReturns, Server!pointers,
      Server!EventArrives, Server!CallHandler, Server!HandlerReturns,
      Server!CheckStop, Server!NotifyStopper, Server!DeleteThread
<1>9. UNCHANGED serverVars => UNCHANGED Server!vars
  BY DEF serverVars, Server!vars, Server!pointers
<1>10. ASSUME SetHandler
       PROVE  Server!Next /\ MutexInv' /\ Server!HandlerKept
  BY <1>1, <1>10
  DEF SetHandler, ServerStep, Server!Next, Server!Busy,
      Server!mongoose7_webserver_thread_set_event_handler
<1>11. UNCHANGED gHandler => Server!HandlerKept
  BY DEF Server!HandlerKept
<1>12. QED
  BY <1>1, <1>2, <1>3, <1>4, <1>5, <1>6, <1>7, <1>8, <1>9, <1>10, <1>11
  DEF Next, Server!SerialNext

LEMMA StepPreserves ==
  ASSUME TaskInv, [Next]_vars
  PROVE  TaskInv' /\ [Server!SerialNext]_(Server!vars)
<1>1. [Server!SerialNext]_(Server!vars) /\ MutexInv'
  <2>1. CASE UNCHANGED vars
    BY <2>1
    DEF vars, serverVars, setupVars, TaskInv, MutexInv, Server!Busy, Server!vars,
        Server!pointers
  <2>2. QED
    BY <2>1, SerialSteps
<1>2. QED
  BY <1>1, ServerPreserves DEF TaskInv

-----------------------------------------------------------------------------
\* The inductive invariant: calls are made with the mutex, and the server's
\* own invariant holds.
THEOREM Invariance == Spec => []TaskInv
<1>1. Init => TaskInv
  BY InitialState
<1>2. TaskInv /\ [Next]_vars => TaskInv'
  BY StepPreserves
<1>3. QED
  BY <1>1, <1>2, PTL DEF Spec

\* The handlers of webserver_task.c, run by any number of tasks, use
\* mongoose7_webserver_thread.c serially.
THEOREM SerialUse == Spec => UsesServerSerially
<1>1. Init => Server!Init
  BY DEF Init
<1>2. TaskInv /\ [Next]_vars => [Server!SerialNext]_(Server!vars)
  BY StepPreserves
<1>3. QED
  BY <1>1, <1>2, Invariance, PTL DEF UsesServerSerially, Spec, Server!SerialSpec

\* Whatever the network does, mongoose is entered by one task at a time and
\* only with a live manager, a stop that goes on finds the loop left, every
\* handler leaves the server entirely up or down, and no
\* notification or mutex operation meets a handle that is NULL or stale.
THEOREM Safety == Spec => []ServerSafe
<1>1. TaskInv => ServerSafe
  <2> SUFFICES ASSUME TaskInv PROVE ServerSafe
    OBVIOUS
  <2>1. Thread!Safe
    BY Thread!InvariantIsSafe, ServerAssumption
    DEF TaskInv, Thread!TasksAssumption, Thread!Tasks
  <2>2. ~fault
    BY DEF TaskInv, Thread!IInv
  <2>3. QED
    BY <2>1, <2>2, SameProperties DEF ServerSafe
<1>2. QED
  BY <1>1, Invariance, PTL

-----------------------------------------------------------------------------
\* The types of what WebserverTask adds to the server.
TaskTypes ==
  /\ setup \in {"create_mutex", "register_disconnected", "register_got_ip", "suspended"}
  /\ webserverControlSemaphore \in {"null", "mutex"}
  /\ holder \in EventTasks \cup {NoTask}
  /\ registered \subseteq Events
  /\ queue \in Seq(Events) /\ Len(queue) <= QueueLength
  /\ network \in Events
  /\ handling \in [EventTasks -> Events \cup {NoEvent}]

LEMMA TypesPreserved ==
  ASSUME TaskTypes, [Next]_vars
  PROVE  TaskTypes'
<1> USE EventAssumption DEF EventAssumption, TaskTypes, setupVars
<1>1. CASE UNCHANGED vars
  BY <1>1 DEF vars
<1>2. ASSUME webserver_init PROVE TaskTypes'
  BY <1>2 DEF webserver_init, CreateMutex, Register, Events
<1>3. ASSUME NEW e \in Events, Post(e) PROVE TaskTypes'
  BY <1>3 DEF Post
<1>4. ASSUME NEW c \in EventTasks, Dispatch(c) PROVE TaskTypes'
  <2>1. queue' \in Seq(Events) /\ Len(queue') <= QueueLength /\ Head(queue) \in Events
    BY <1>4 DEF Dispatch
  <2>2. QED
    BY <1>4, <2>1 DEF Dispatch
<1>5. ASSUME NEW c \in EventTasks, TakeMutex(c) \/ HandlerStep(c) PROVE TaskTypes'
  BY <1>5 DEF TakeMutex, HandlerStep, CallServer, ServerStep, GiveMutex
<1>6. ASSUME NEW t \in Threads, ServerStep(Server!ThreadStep(t)) PROVE TaskTypes'
  BY <1>6 DEF ServerStep
<1>7. ASSUME SetHandler PROVE TaskTypes'
  BY <1>7 DEF SetHandler, ServerStep
<1>8. QED
  BY <1>1, <1>2, <1>3, <1>4, <1>5, <1>6, <1>7 DEF Next

\* The variables keep their types and the event queue its capacity.
THEOREM TypeCorrect == Spec => []TypeOK
<1>1. Init => TaskTypes
  BY EventAssumption DEF EventAssumption, Init, TaskTypes, Events
<1>2. TaskTypes /\ [Next]_vars => TaskTypes'
  BY TypesPreserved
<1>3. TaskTypes /\ TaskInv => TypeOK
  BY DEF TaskTypes, TaskInv, Thread!IInv, TypeOK, Server!TypeOK, Thread!TypeOK, Server!Tasks,
         Thread!Tasks, Server!StartPc, Thread!StartPc, Server!StopPc, Thread!StopPc,
         Server!ThreadPc, Thread!ThreadPc, Server!Polling, Thread!Polling
<1>4. QED
  BY <1>1, <1>2, <1>3, Invariance, PTL DEF Spec
=============================================================================
