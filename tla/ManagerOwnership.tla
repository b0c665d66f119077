-------------------------- MODULE ManagerOwnership --------------------------
(***************************************************************************)
(* What the webserver component promises about gManager, the one mongoose  *)
(* manager it owns (mongoose7_webserver_thread.c:23).  Mongoose is not     *)
(* thread safe, so the manager belongs to nobody or to exactly one task,   *)
(* and it travels in a fixed round: nobody, a task that starts the server, *)
(* the webserver thread, the task that stops the server, nobody.  A start  *)
(* that fails returns it to nobody.                                        *)
(***************************************************************************)
CONSTANTS Callers,  \* tasks that start and stop the server
          Threads,  \* webserver threads
          NoTask    \* the manager belongs to nobody

VARIABLE owner

Init == owner = NoTask

\* A starting task takes the unused manager.
Claim(c) == owner = NoTask /\ owner' = c

\* The starting task hands the manager to the thread it created.
Launch(c, t) == owner = c /\ owner' = t

\* A stopping task takes the manager over from the thread.
TakeOver(c, t) == owner = t /\ owner' = c

\* The task that holds the manager frees it: the end of a stop, or of a
\* start that failed.
Release(c) == owner = c /\ owner' = NoTask

Next ==
  \E c \in Callers :
    \/ Claim(c)
    \/ Release(c)
    \/ \E t \in Threads : Launch(c, t) \/ TakeOver(c, t)

\* A task that starts or stops the server does not keep the manager.
PassesOn == \E c \in Callers : Release(c) \/ \E t \in Threads : Launch(c, t)

SafeSpec == Init /\ [][Next]_owner
Spec == SafeSpec /\ WF_owner(PassesOn)
=============================================================================
