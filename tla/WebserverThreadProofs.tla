----------------------- MODULE WebserverThreadProofs ------------------------
(***************************************************************************)
(* Theorems about WebserverThread under serial use, for any sets of        *)
(* callers and threads.  The invariant IInv says, for every place a call   *)
(* can be in, what the two handles, the manager, the thread and the        *)
(* notification values are.                                                *)
(***************************************************************************)
EXTENDS WebserverThread, TLAPS

Gone(t) == thread[t] \in {"none", "delete"}
AllGone == \A t \in Threads : Gone(t)
OthersGone == \A t \in Threads : t # webserverThreadHandle => Gone(t)

\* No server: what start_webserver_thread finds and a stop leaves behind.
Down == webserverThreadHandle = NoTask /\ AllGone

\* A server nobody is stopping.
Up ==
  /\ webserverThreadHandle \in Threads
  /\ thread[webserverThreadHandle] \in Polling \cup {"check"}
  /\ notified[webserverThreadHandle] = 0
  /\ OthersGone
  /\ gManager # "free"

\* The handshake of a stop by c: the stop is on its way to the thread, the
\* thread is leaving, or the answer is on its way to c.
Handshake(c) ==
  \/ /\ thread[webserverThreadHandle] \in Polling \cup {"check"}
     /\ notified[webserverThreadHandle] = 1
     /\ notified[c] = 0
  \/ thread[webserverThreadHandle] = "leave" /\ notified[c] = 0
  \/ Gone(webserverThreadHandle) /\ notified[c] = 1

\* What holds at each place of a call.
CallInv(c) ==
  /\ call[c] \in {"init", "forget", "unclaim"} => Down /\ gManager = "free"
  /\ call[c] \in {"listen", "create", "unwind"} => Down /\ gManager # "free"
  /\ call[c] \in {"claim", "signal"} => Up
  /\ call[c] \in {"signal", "wait"} => stoppingTaskHandle = c
  /\ call[c] = "wait" => /\ webserverThreadHandle \in Threads
                         /\ OthersGone
                         /\ gManager # "free"
                         /\ Handshake(c)
  /\ call[c] \in {"free", "clear"} => webserverThreadHandle \in Threads /\ AllGone
  /\ call[c] = "free" => gManager # "free"
  /\ call[c] = "clear" => gManager = "free"
  /\ call[c] # "wait" => notified[c] = 0

\* The thread calls a handler that it has seen.
EventInv == \A t \in Threads : thread[t] = "event" => gHandler # NoHandler

\* Between calls the server is entirely down or entirely up.
AtRest == \A c \in Callers : call[c] \in {"idle", "returned"}
RestInv == AtRest => (Down /\ gManager = "free") \/ Up

IInv ==
  /\ TypeOK
  /\ ~fault
  /\ AtMostOneCall
  /\ \A c \in Callers : CallInv(c)
  /\ RestInv
  /\ EventInv

Safe ==
  /\ ManagerExclusive /\ ManagerLifetime /\ StopMeansStopped
  /\ NoFault /\ NoStrayNotification /\ AllOrNothing

-----------------------------------------------------------------------------
LEMMA InitialState == Init => IInv
<1> SUFFICES ASSUME Init PROVE IInv
  OBVIOUS
<1> USE TasksAssumption DEF TasksAssumption, Tasks, Init
<1>1. TypeOK
  BY DEF TypeOK, ThreadPc
<1>2. AtMostOneCall
  BY DEF AtMostOneCall, Busy
<1>3. \A c \in Callers : CallInv(c)
  BY DEF CallInv
<1>4. RestInv
  BY DEF RestInv, Down, AllGone, Gone
<1>5. QED
  BY <1>1, <1>2, <1>3, <1>4 DEF IInv, EventInv

LEMMA CallPreserves ==
  ASSUME IInv, NEW c \in Callers, AtMostOneCall', Begin(c) \/ CallStep(c) \/ Return(c)
  PROVE  IInv'
<1> USE TasksAssumption
    DEF TasksAssumption, Tasks, pointers, Pass, Step, ThreadPc, Polling, StartPc, StopPc,
        IInv, TypeOK, AtMostOneCall, Busy, CallInv, RestInv, EventInv, AtRest,
        Up, Down, AllGone, OthersGone, Gone, Handshake
<1>1. ASSUME start_webserver_thread(c) PROVE IInv'
  BY <1>1 DEF start_webserver_thread, is_webserver_thread_running
<1>2. ASSUME stop_webserver_thread(c) PROVE IInv'
  BY <1>2 DEF stop_webserver_thread, is_webserver_thread_running
<1>3. ASSUME Return(c) PROVE IInv'
  BY <1>3 DEF Return
<1>4. ASSUME InitManager(c) PROVE IInv'
  BY <1>4 DEF InitManager
<1>5. ASSUME Listen(c) PROVE IInv'
  BY <1>5 DEF Listen
<1>6. ASSUME CreateThread(c) PROVE IInv'
  BY <1>6 DEF CreateThread
<1>7. ASSUME CreateFails(c) PROVE IInv'
  BY <1>7 DEF CreateFails
<1>8. ASSUME UnwindManager(c) PROVE IInv'
  BY <1>8 DEF UnwindManager
<1>9. ASSUME ForgetThread(c) PROVE IInv'
  BY <1>9 DEF ForgetThread
<1>10. ASSUME ClaimStop(c) PROVE IInv'
  BY <1>10 DEF ClaimStop
<1>11. ASSUME SignalThread(c) PROVE IInv'
  BY <1>11 DEF SignalThread, xTaskNotifyGive, Exists
<1>12. ASSUME AwaitStopped(c) PROVE IInv'
  BY <1>12 DEF AwaitStopped, ulTaskNotifyTake
<1>13. ASSUME FreeManager(c) PROVE IInv'
  BY <1>13 DEF FreeManager
<1>14. ASSUME ClearThread(c) PROVE IInv'
  BY <1>14 DEF ClearThread
<1>15. ASSUME ClearStopping(c) PROVE IInv'
  BY <1>15 DEF ClearStopping
<1>16. QED
  BY <1>1, <1>2, <1>3, <1>4, <1>5, <1>6, <1>7, <1>8, <1>9, <1>10, <1>11, <1>12, <1>13, <1>14, <1>15 DEF Begin, CallStep, StartStep, StopStep

\* A step of a thread moves the server between poll and check (Up), or the
\* handshake of the one caller that waits from one of its stages to the next.
LEMMA ThreadPreserves ==
  ASSUME IInv, NEW t \in Threads, ThreadStep(t)
  PROVE  IInv'
<1> USE TasksAssumption
    DEF TasksAssumption, Tasks, pointers, Move, ThreadPc, Polling, StartPc, StopPc,
        IInv, TypeOK, AtMostOneCall, Busy, CallInv, RestInv, EventInv, AtRest,
        Up, Down, AllGone, OthersGone, Gone, Handshake
<1>1. ASSUME PollReturns(t) PROVE IInv'
  BY <1>1 DEF PollReturns
<1>2. ASSUME CheckStop(t) PROVE IInv'
  BY <1>2 DEF CheckStop, ulTaskNotifyTake
<1>3. ASSUME NotifyStopper(t) PROVE IInv'
  BY <1>3 DEF NotifyStopper, xTaskNotifyGive, Exists
<1>4. ASSUME DeleteThread(t) PROVE IInv'
  BY <1>4 DEF DeleteThread
<1>5. ASSUME EventArrives(t) PROVE IInv'
  BY <1>5 DEF EventArrives
<1>6. ASSUME CallHandler(t) PROVE IInv'
  BY <1>6 DEF CallHandler
<1>7. ASSUME HandlerReturns(t) PROVE IInv'
  BY <1>7 DEF HandlerReturns
<1>8. QED
  BY <1>1, <1>2, <1>3, <1>4, <1>5, <1>6, <1>7 DEF ThreadStep

\* Without a handle no thread is left, so that the handler that is taken away
\* is one that no event has found.
LEMMA HandlerPreserves ==
  ASSUME IInv, HandlerKept, NEW h \in Handlers \cup {NoHandler},
         mongoose7_webserver_thread_set_event_handler(h)
  PROVE  IInv'
<1> USE DEF mongoose7_webserver_thread_set_event_handler
<1>1. webserverThreadHandle = NoTask => AllGone
  BY TasksAssumption
  DEF TasksAssumption, Tasks, IInv, TypeOK, StartPc, StopPc, CallInv, RestInv, AtRest, Up, Down
<1>2. EventInv'
  BY <1>1 DEF IInv, EventInv, AllGone, Gone, HandlerKept, is_webserver_thread_running
<1>3. UNCHANGED <<call, thread, webserverThreadHandle, stoppingTaskHandle, gManager, notified, fault>>
  OBVIOUS
<1>4. gHandler' \in Handlers \cup {NoHandler}
  OBVIOUS
<1>5. QED
  BY <1>2, <1>3, <1>4
  DEF IInv, TypeOK, AtMostOneCall, Busy, CallInv, RestInv, AtRest, Up, Down, AllGone,
      OthersGone, Gone, Handshake

LEMMA StepPreserves ==
  ASSUME IInv, [SerialNext]_vars
  PROVE  IInv'
<1>1. CASE UNCHANGED vars
  BY <1>1 DEF vars, pointers, IInv, TypeOK, AtMostOneCall, Busy, CallInv, RestInv,
              EventInv, AtRest, Up, Down, AllGone, OthersGone, Gone, Handshake
<1>2. CASE SerialNext
  <2>1. CASE \E c \in Callers : Begin(c) \/ CallStep(c) \/ Return(c)
    BY <1>2, <2>1, CallPreserves DEF SerialNext
  <2>2. CASE \E t \in Threads : ThreadStep(t)
    BY <2>2, ThreadPreserves
  <2>3. CASE \E h \in Handlers \cup {NoHandler} : mongoose7_webserver_thread_set_event_handler(h)
    BY <1>2, <2>3, HandlerPreserves DEF SerialNext
  <2>4. QED
    BY <1>2, <2>1, <2>2, <2>3 DEF SerialNext, Next
<1>3. QED
  BY <1>1, <1>2

LEMMA InvariantIsSafe == IInv => Safe
<1> SUFFICES ASSUME IInv PROVE Safe
  OBVIOUS
<1> USE TasksAssumption
    DEF TasksAssumption, Tasks, StartPc, StopPc, Polling, IInv, TypeOK, AtMostOneCall, Busy,
        CallInv, Up, Down, AllGone, OthersGone, Gone
<1>1. ManagerExclusive
  BY DEF ManagerExclusive, UsesManager, RestInv, AtRest, Handshake
<1>2. ManagerLifetime
  BY DEF ManagerLifetime, RestInv, AtRest, Handshake
<1>3. StopMeansStopped
  BY DEF StopMeansStopped, InLoop
<1>4. NoFault
  BY DEF NoFault
<1>5. NoStrayNotification
  BY DEF NoStrayNotification, RestInv, AtRest, is_webserver_thread_running
<1>6. AllOrNothing
  BY DEF AllOrNothing, RestInv, AtRest, InLoop, is_webserver_thread_running
<1>7. QED
  BY <1>1, <1>2, <1>3, <1>4, <1>5, <1>6 DEF Safe

-----------------------------------------------------------------------------
\* The inductive invariant, for every number of callers and threads.
THEOREM Invariance == SerialSpec => []IInv
<1>1. Init => IInv
  BY InitialState
<1>2. IInv /\ [SerialNext]_vars => IInv'
  BY StepPreserves
<1>3. QED
  BY <1>1, <1>2, PTL DEF SerialSpec

\* Used one call at a time, the variables keep their types.
THEOREM TypeCorrect == SerialSpec => []TypeOK
<1>1. IInv => TypeOK
  BY DEF IInv
<1>2. QED
  BY <1>1, Invariance, PTL

\* Used one call at a time, mongoose is entered by one task at a time.
THEOREM ManagerIsExclusive == SerialSpec => []ManagerExclusive
<1>1. Safe => ManagerExclusive
  BY DEF Safe
<1>2. QED
  BY <1>1, Invariance, InvariantIsSafe, PTL

\* Used one call at a time, the manager is live where it is polled, listened on
\* or freed, and it is not initialised twice.
THEOREM ManagerIsLive == SerialSpec => []ManagerLifetime
<1>1. Safe => ManagerLifetime
  BY DEF Safe
<1>2. QED
  BY <1>1, Invariance, InvariantIsSafe, PTL

\* Used one call at a time, a stop that goes on past its wait finds every
\* webserver thread out of its loop and of the application's handler.
THEOREM StopIsComplete == SerialSpec => []StopMeansStopped
<1>1. Safe => StopMeansStopped
  BY DEF Safe
<1>2. QED
  BY <1>1, Invariance, InvariantIsSafe, PTL

\* Used one call at a time, every notification reaches a task that exists, and
\* the thread calls no NULL handler.
THEOREM NothingFaults == SerialSpec => []NoFault
<1>1. Safe => NoFault
  BY DEF Safe
<1>2. QED
  BY <1>1, Invariance, InvariantIsSafe, PTL

\* Used one call at a time, no notification is left over between calls.
THEOREM NothingIsLeftOver == SerialSpec => []NoStrayNotification
<1>1. Safe => NoStrayNotification
  BY DEF Safe
<1>2. QED
  BY <1>1, Invariance, InvariantIsSafe, PTL

\* Used one call at a time, every call, also one that fails, leaves the server
\* entirely down or entirely up.
THEOREM CallsAreAtomic == SerialSpec => []AllOrNothing
<1>1. Safe => AllOrNothing
  BY DEF Safe
<1>2. QED
  BY <1>1, Invariance, InvariantIsSafe, PTL

-----------------------------------------------------------------------------
(* The refinement of ManagerOwnership under serial use: its safety part.   *)

\* Who owns the manager, in a state where c is the one task in a call.
OwnerNear(c) ==
  /\ HoldsManager(c) => owner = c
  /\ ~HoldsManager(c) =>
       owner = IF gManager # "free" THEN webserverThreadHandle ELSE NoTask

LEMMA OneHolder ==
  ASSUME NEW c \in Callers, \A d \in Callers : HoldsManager(d) => d = c
  PROVE  OwnerNear(c)
<1>1. CASE HoldsManager(c)
  <2>1. (CHOOSE d \in Callers : HoldsManager(d)) = c
    BY <1>1
  <2>2. QED
    BY <1>1, <2>1 DEF OwnerNear, owner
<1>2. CASE ~HoldsManager(c)
  BY <1>2 DEF OwnerNear, owner
<1>3. QED
  BY <1>1, <1>2

\* The same fact of the state after a step.
LEMMA OneHolderNext ==
  ASSUME NEW c \in Callers, \A d \in Callers : HoldsManager(d)' => d = c
  PROVE  OwnerNear(c)'
<1>1. CASE HoldsManager(c)'
  <2>1. (CHOOSE d \in Callers : HoldsManager(d)') = c
    BY <1>1
  <2>2. QED
    BY <1>1, <2>1 DEF OwnerNear, owner
<1>2. CASE ~HoldsManager(c)'
  BY <1>2 DEF OwnerNear, owner
<1>3. QED
  BY <1>1, <1>2

\* A step of c's call leaves every other caller where it is, which is in no call.
LEMMA OthersIdle ==
  ASSUME IInv, AtMostOneCall', NEW c \in Callers, Begin(c) \/ CallStep(c) \/ Return(c)
  PROVE  \A d \in Callers : d # c => ~Busy(d) /\ ~Busy(d)'
<1> USE TasksAssumption
    DEF TasksAssumption, Tasks, IInv, TypeOK, Begin, start_webserver_thread,
        stop_webserver_thread, CallStep, StartStep, StopStep, Return, Pass, Step,
        InitManager, Listen, CreateThread, CreateFails, UnwindManager, ForgetThread,
        ClaimStop, SignalThread, AwaitStopped, FreeManager, ClearThread, ClearStopping
<1>1. call[c] # "idle" \/ call'[c] # "idle"
  OBVIOUS
<1>2. \A d \in Callers : d # c => call'[d] = call[d]
  OBVIOUS
<1>3. QED
  BY <1>1, <1>2 DEF AtMostOneCall, Busy

LEMMA OnlyCallerHolds ==
  ASSUME IInv, AtMostOneCall', NEW c \in Callers, Begin(c) \/ CallStep(c) \/ Return(c)
  PROVE  OwnerNear(c) /\ OwnerNear(c)'
<1>1. \A d \in Callers : d # c => ~HoldsManager(d) /\ ~HoldsManager(d)'
  BY OthersIdle DEF Busy, HoldsManager
<1>2. QED
  BY <1>1, OneHolder, OneHolderNext

\* Each step of a call is one step of the manager's round, or none.
LEMMA CallRefines ==
  ASSUME IInv, AtMostOneCall', NEW c \in Callers, Begin(c) \/ CallStep(c) \/ Return(c)
  PROVE  [Ownership!Next]_owner
<1>1. OwnerNear(c) /\ OwnerNear(c)' /\ CallInv(c)
  BY OnlyCallerHolds DEF IInv
<1>2. call \in [Callers -> {"idle", "returned"} \cup StartPc \cup StopPc]
  BY DEF IInv, TypeOK
<1>3. ASSUME call[c] \in {"idle", "returned"} PROVE (Down /\ gManager = "free") \/ Up
  BY <1>3, OthersIdle DEF IInv, RestInv, AtRest, Busy
<1> USE DEF OwnerNear, CallInv, Down, Up, HoldsManager, Pass, Step, pointers
<1>4. ASSUME start_webserver_thread(c) PROVE Ownership!Claim(c) \/ UNCHANGED owner
  BY <1>1, <1>2, <1>3, <1>4
  DEF start_webserver_thread, is_webserver_thread_running, Ownership!Claim
<1>5. ASSUME stop_webserver_thread(c) PROVE UNCHANGED owner
  BY <1>1, <1>2, <1>5 DEF stop_webserver_thread
<1>6. ASSUME Return(c) PROVE UNCHANGED owner
  BY <1>1, <1>2, <1>6 DEF Return
<1>7. ASSUME InitManager(c) \/ Listen(c) \/ CreateFails(c) PROVE UNCHANGED owner
  BY <1>1, <1>2, <1>7 DEF InitManager, Listen, CreateFails
<1>8. ASSUME CreateThread(c) PROVE \E t \in Threads : Ownership!Launch(c, t)
  BY <1>1, <1>2, <1>8 DEF CreateThread, Ownership!Launch
<1>9. ASSUME UnwindManager(c) \/ FreeManager(c) PROVE Ownership!Release(c)
  BY <1>1, <1>2, <1>9 DEF UnwindManager, FreeManager, Ownership!Release
<1>10. ASSUME ForgetThread(c) \/ ClearThread(c) \/ ClearStopping(c) PROVE UNCHANGED owner
  BY <1>1, <1>2, <1>10 DEF ForgetThread, ClearThread, ClearStopping
<1>11. ASSUME ClaimStop(c) \/ SignalThread(c) PROVE UNCHANGED owner
  BY <1>1, <1>2, <1>11 DEF ClaimStop, SignalThread
<1>12. ASSUME AwaitStopped(c) PROVE \E t \in Threads : Ownership!TakeOver(c, t)
  BY <1>1, <1>2, <1>12 DEF AwaitStopped, Ownership!TakeOver
<1>13. QED
  BY <1>4, <1>5, <1>6, <1>7, <1>8, <1>9, <1>10, <1>11, <1>12
  DEF Begin, CallStep, StartStep, StopStep, Ownership!Next

\* The manager does not change hands in the loop of the thread, nor when a
\* handler is set.
LEMMA ThreadRefines ==
  ASSUME NEW t \in Threads, ThreadStep(t)
  PROVE  UNCHANGED owner
BY DEF ThreadStep, PollReturns, EventArrives, CallHandler, HandlerReturns, CheckStop, NotifyStopper,
       DeleteThread, owner, HoldsManager, pointers

LEMMA HandlerRefines ==
  ASSUME NEW h, mongoose7_webserver_thread_set_event_handler(h)
  PROVE  UNCHANGED owner
BY DEF mongoose7_webserver_thread_set_event_handler, owner, HoldsManager

LEMMA StepRefines ==
  ASSUME IInv, [SerialNext]_vars
  PROVE  [Ownership!Next]_owner
<1>1. CASE UNCHANGED vars
  BY <1>1 DEF vars, pointers, owner, HoldsManager
<1>2. CASE SerialNext /\ \E c \in Callers : Begin(c) \/ CallStep(c) \/ Return(c)
  BY <1>2, CallRefines DEF SerialNext
<1>3. CASE SerialNext /\ \E t \in Threads : ThreadStep(t)
  BY <1>3, ThreadRefines
<1>4. CASE \E h \in Handlers \cup {NoHandler} : mongoose7_webserver_thread_set_event_handler(h)
  BY <1>4, HandlerRefines
<1>5. QED
  BY <1>1, <1>2, <1>3, <1>4 DEF SerialNext, Next

\* gManager changes hands only as ManagerOwnership says: from nobody to a
\* starting task, to the thread it creates, to a stopping task, to nobody.
THEOREM Implementation == SerialSpec => Ownership!SafeSpec
<1>1. Init => Ownership!Init
  BY TasksAssumption DEF TasksAssumption, Tasks, Init, owner, HoldsManager, Ownership!Init
<1>2. IInv /\ [SerialNext]_vars => [Ownership!Next]_owner
  BY StepRefines
<1>3. QED
  BY <1>1, <1>2, Invariance, PTL DEF SerialSpec, Ownership!SafeSpec
=============================================================================
