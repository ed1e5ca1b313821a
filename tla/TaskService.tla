----------------------------- MODULE TaskService -----------------------------
(***************************************************************************)
(* What a thread pool promises the thread that feeds it (thread_pool.hpp), *)
(* with no thread, lock or condition variable in sight: tasks are accepted *)
(* in order or refused because the queue is full, each accepted task is    *)
(* executed once and then counted off, and the service goes down only when *)
(* everything it accepted while it was open has been counted off.          *)
(*                                                                         *)
(* ThreadPool implements this module; IoWorker is built on top of it.      *)
(***************************************************************************)
EXTENDS Naturals, Sequences, FiniteSets

CONSTANTS
    Tasks,      \* the calls to push_task
    Capacity    \* the bound of the task queue, 0 = unbounded

VARIABLES
    status,     \* status[t]: how far the service has got with task t
    order,      \* the accepted tasks nobody has started yet, oldest first
    phase       \* "open", "closed" (told to stop) or "down" (all workers joined)

svcVars == <<status, order, phase>>

ServiceStatus == {"new", "refused", "pending", "late", "running", "ran", "done"}

\* Tasks get_unfinished_tasks() must account for. A "late" task was accepted
\* after the service had been told to stop.
UnfinishedTasks == {t \in Tasks : status[t] \in {"pending", "late", "running", "ran"}}

ServiceInit ==
    /\ status = [t \in Tasks |-> "new"]
    /\ order = <<>>
    /\ phase = "open"

Full == Capacity > 0 /\ Len(order) >= Capacity

Accept(t) ==
    /\ status[t] = "new"
    /\ ~Full
    /\ status' = [status EXCEPT ![t] = IF phase = "open" THEN "pending" ELSE "late"]
    /\ order' = Append(order, t)
    /\ UNCHANGED phase

Refuse(t) ==
    /\ status[t] = "new"
    /\ Full
    /\ status' = [status EXCEPT ![t] = "refused"]
    /\ UNCHANGED <<order, phase>>

Start ==
    /\ phase # "down"
    /\ order # <<>>
    /\ status' = [status EXCEPT ![Head(order)] = "running"]
    /\ order' = Tail(order)
    /\ UNCHANGED phase

Finish(t) ==
    /\ status[t] = "running"
    /\ status' = [status EXCEPT ![t] = "ran"]
    /\ UNCHANGED <<order, phase>>

\* The task is counted off only after it has been executed.
Settle(t) ==
    /\ status[t] = "ran"
    /\ status' = [status EXCEPT ![t] = "done"]
    /\ UNCHANGED <<order, phase>>

Close ==
    /\ phase = "open"
    /\ phase' = "closed"
    /\ UNCHANGED <<status, order>>

GoDown ==
    /\ phase = "closed"
    /\ \A t \in Tasks : status[t] \notin {"pending", "running", "ran"}
    /\ phase' = "down"
    /\ UNCHANGED <<status, order>>

ServiceNext ==
    \/ \E t \in Tasks : Accept(t) \/ Refuse(t) \/ Finish(t) \/ Settle(t)
    \/ Start
    \/ Close
    \/ GoDown

ServiceSafety == ServiceInit /\ [][ServiceNext]_svcVars

\* A service that has work keeps working, and one told to stop goes down.
ServiceLiveness ==
    /\ WF_svcVars(Start)
    /\ \A t \in Tasks : WF_svcVars(Finish(t)) /\ WF_svcVars(Settle(t))
    /\ WF_svcVars(GoDown)

ServiceSpec == ServiceSafety /\ ServiceLiveness
=============================================================================
