------------------------------ MODULE ThreadPool ------------------------------
(***************************************************************************)
(* thread_pool (thread_pool.hpp) on its shared_queue<dispatch_task>        *)
(* (shared_queue.hpp, the condition-variable flavour): any number of       *)
(* threads push tasks, the workers take and run them, one thread stops the *)
(* pool.  A section of code under m_mutex is one action; between two such  *)
(* sections, and between an atomic counter access and the section next to  *)
(* it, every other thread may run.                                         *)
(*                                                                         *)
(* Each element of Tasks stands for one call of push_task, made by a       *)
(* thread of its own: the calls are as concurrent as they can be.          *)
(***************************************************************************)
EXTENDS Naturals, Sequences, FiniteSets

CONSTANTS
    Tasks,      \* the calls to push_task
    Workers,    \* the threads of m_threads
    Capacity,   \* m_capacity of the task queue, 0 = unbounded
    NoTask      \* a worker holds no task

ASSUME TasksAssumption == IsFiniteSet(Tasks) /\ NoTask \notin Tasks
\* server::start gives each I/O thread at least one worker.
ASSUME WorkersAssumption == IsFiniteSet(Workers) /\ Workers # {}
ASSUME CapacityAssumption == Capacity \in Nat

VARIABLES
    task,       \* task[t]: where the call push_task(t), and then the task, is
    queue,      \* m_queue of the task queue
    unfinished, \* m_unfinished_tasks
    owing,      \* the pushes that have released m_mutex but not notified yet
    stopped,    \* m_stopped of the task queue
    wpc,        \* wpc[w]: where worker w is in worker_loop
    held,       \* held[w]: the task w took from the queue
    stopPc      \* how far thread_pool::stop has got

vars == <<task, queue, unfinished, owing, stopped, wpc, held, stopPc>>

TaskState == {"new", "counted", "refusing", "refused", "queued", "late", "running", "ran", "done"}
WorkerState == {"absent", "ready", "waiting", "running", "ran", "exited"}

\* The calls and tasks m_unfinished_tasks counts.
Counted == {t \in Tasks :
    task[t] \in {"counted", "refusing", "queued", "late", "running", "ran"}}

Waiting == {w \in Workers : wpc[w] = "waiting"}
Awake == {w \in Workers : wpc[w] = "ready"}

Init ==
    /\ task = [t \in Tasks |-> "new"]
    /\ queue = <<>>
    /\ unfinished = 0
    /\ owing = {}
    /\ stopped = FALSE
    /\ wpc = [w \in Workers |-> "absent"]
    /\ held = [w \in Workers |-> NoTask]
    /\ stopPc = "no"

\* start(): io_worker::run calls it once, before its event loop pushes anything.
StartPool ==
    /\ stopPc = "no"
    /\ \A w \in Workers : wpc[w] = "absent"
    /\ wpc' = [w \in Workers |-> "ready"]
    /\ UNCHANGED <<task, queue, unfinished, owing, stopped, held, stopPc>>

Started == \A w \in Workers : wpc[w] # "absent"
-----------------------------------------------------------------------------
(* push_task and shared_queue::push *)

Count(t) ==
    /\ Started
    /\ task[t] = "new"
    /\ task' = [task EXCEPT ![t] = "counted"]
    /\ unfinished' = unfinished + 1
    /\ UNCHANGED <<queue, owing, stopped, wpc, held, stopPc>>

Full == Capacity > 0 /\ Len(queue) >= Capacity

\* push's critical section. Nothing looks at m_stopped: a push after stop is
\* accepted, which "late" records.
Enqueue(t) ==
    /\ task[t] = "counted"
    /\ ~Full
    /\ queue' = Append(queue, t)
    /\ task' = [task EXCEPT ![t] = IF stopped THEN "late" ELSE "queued"]
    /\ owing' = owing \cup {t}
    /\ UNCHANGED <<unfinished, stopped, wpc, held, stopPc>>

\* Bug: the notification is skipped unless the queue was empty before the push.
NotifyWhenSingle(t) ==
    /\ t \in owing
    /\ owing' = owing \ {t}
    /\ IF Waiting = {} \/ Len(queue) > 1
         THEN UNCHANGED wpc
         ELSE \E w \in Waiting : wpc' = [wpc EXCEPT ![w] = "ready"]
    /\ UNCHANGED <<task, queue, unfinished, stopped, held, stopPc>>

\* notify_one, called with m_mutex released.
Notify(t) ==
    /\ t \in owing
    /\ owing' = owing \ {t}
    /\ IF Waiting = {}
         THEN UNCHANGED wpc
         ELSE \E w \in Waiting : wpc' = [wpc EXCEPT ![w] = "ready"]
    /\ UNCHANGED <<task, queue, unfinished, stopped, held, stopPc>>

\* push throws queue_full_error ...
Refuse(t) ==
    /\ task[t] = "counted"
    /\ Full
    /\ task' = [task EXCEPT ![t] = "refusing"]
    /\ UNCHANGED <<queue, unfinished, owing, stopped, wpc, held, stopPc>>

\* Bug: the catch block rethrows without taking the increment back.
UncountForgotten(t) ==
    /\ task[t] = "refusing"
    /\ task' = [task EXCEPT ![t] = "refused"]
    /\ UNCHANGED <<queue, unfinished, owing, stopped, wpc, held, stopPc>>

\* ... and push_task's catch block takes the increment back and rethrows.
Uncount(t) ==
    /\ task[t] = "refusing"
    /\ task' = [task EXCEPT ![t] = "refused"]
    /\ unfinished' = unfinished - 1
    /\ UNCHANGED <<queue, owing, stopped, wpc, held, stopPc>>
-----------------------------------------------------------------------------
(* worker_loop and wait_and_pop *)

Pop(w) ==
    /\ wpc[w] = "ready"
    /\ queue # <<>>
    /\ held' = [held EXCEPT ![w] = Head(queue)]
    /\ task' = [task EXCEPT ![Head(queue)] = "running"]
    /\ queue' = Tail(queue)
    /\ wpc' = [wpc EXCEPT ![w] = "running"]
    /\ UNCHANGED <<unfinished, owing, stopped, stopPc>>

\* The predicate of m_cond.wait is false: the worker releases the mutex and
\* sleeps, in one atomic step.
Wait(w) ==
    /\ wpc[w] = "ready"
    /\ queue = <<>> /\ ~stopped
    /\ wpc' = [wpc EXCEPT ![w] = "waiting"]
    /\ UNCHANGED <<task, queue, unfinished, owing, stopped, held, stopPc>>

\* A condition variable may wake a thread nobody notified.
SpuriousWakeup(w) ==
    /\ wpc[w] = "waiting"
    /\ wpc' = [wpc EXCEPT ![w] = "ready"]
    /\ UNCHANGED <<task, queue, unfinished, owing, stopped, held, stopPc>>

\* Bug: a stopped queue hands out nothing, whatever it still holds.
ExitWhenStopped(w) ==
    /\ wpc[w] = "ready"
    /\ stopped
    /\ wpc' = [wpc EXCEPT ![w] = "exited"]
    /\ UNCHANGED <<task, queue, unfinished, owing, stopped, held, stopPc>>

\* wait_and_pop returns nullopt and worker_loop breaks.
Exit(w) ==
    /\ wpc[w] = "ready"
    /\ queue = <<>> /\ stopped
    /\ wpc' = [wpc EXCEPT ![w] = "exited"]
    /\ UNCHANGED <<task, queue, unfinished, owing, stopped, held, stopPc>>

\* The task returns, or throws a std::exception that worker_loop catches.
Run(w) ==
    /\ wpc[w] = "running"
    /\ task' = [task EXCEPT ![held[w]] = "ran"]
    /\ wpc' = [wpc EXCEPT ![w] = "ran"]
    /\ UNCHANGED <<queue, unfinished, owing, stopped, held, stopPc>>

Decrement(w) ==
    /\ wpc[w] = "ran"
    /\ task' = [task EXCEPT ![held[w]] = "done"]
    /\ unfinished' = unfinished - 1
    /\ held' = [held EXCEPT ![w] = NoTask]
    /\ wpc' = [wpc EXCEPT ![w] = "ready"]
    /\ UNCHANGED <<queue, owing, stopped, stopPc>>
-----------------------------------------------------------------------------
(* thread_pool::stop and shared_queue::stop *)

StopQueue ==
    /\ stopPc = "no"
    /\ stopped' = TRUE
    /\ stopPc' = "flagged"
    /\ UNCHANGED <<task, queue, unfinished, owing, wpc, held>>

\* Bug: stop wakes one worker only.
NotifyOneOnStop ==
    /\ stopPc = "flagged"
    /\ IF Waiting = {}
         THEN UNCHANGED wpc
         ELSE \E w \in Waiting : wpc' = [wpc EXCEPT ![w] = "ready"]
    /\ stopPc' = "notified"
    /\ UNCHANGED <<task, queue, unfinished, owing, stopped, held>>

NotifyAll ==
    /\ stopPc = "flagged"
    /\ wpc' = [w \in Workers |-> IF wpc[w] = "waiting" THEN "ready" ELSE wpc[w]]
    /\ stopPc' = "notified"
    /\ UNCHANGED <<task, queue, unfinished, owing, stopped, held>>

\* m_threads.clear() joins every thread that was started.
Join ==
    /\ stopPc = "notified"
    /\ \A w \in Workers : wpc[w] \in {"absent", "exited"}
    /\ stopPc' = "joined"
    /\ UNCHANGED <<task, queue, unfinished, owing, stopped, wpc, held>>
-----------------------------------------------------------------------------
PushStep(t) == Count(t) \/ Enqueue(t) \/ Notify(t) \/ Refuse(t) \/ Uncount(t)
WorkerStep(w) == Pop(w) \/ Wait(w) \/ Exit(w) \/ Run(w) \/ Decrement(w)

\* Nothing is left to do: the pool is joined and every push_task has returned.
Terminated ==
    /\ stopPc = "joined"
    /\ owing = {}
    /\ Counted \subseteq {t \in Tasks : task[t] = "late"}
    /\ UNCHANGED vars

Next ==
    \/ StartPool
    \/ \E t \in Tasks : PushStep(t)
    \/ \E w \in Workers : WorkerStep(w) \/ SpuriousWakeup(w)
    \/ StopQueue \/ NotifyAll \/ Join
    \/ Terminated

Safety == Init /\ [][Next]_vars

\* A thread that can take a step takes one: a caller in the middle of push_task
\* goes on (whether it calls push_task is its own affair), a worker goes on (the
\* handlers return), the stopping thread goes on once it has begun. A spurious
\* wakeup is never owed to anybody.
Fairness ==
    /\ \A t \in Tasks : WF_vars(Enqueue(t) \/ Notify(t) \/ Refuse(t) \/ Uncount(t))
    /\ \A w \in Workers : WF_vars(WorkerStep(w))
    /\ WF_vars(NotifyAll) /\ WF_vars(Join)

Spec == Safety /\ Fairness
-----------------------------------------------------------------------------
(* What must hold *)

\* Every variable has its type; in particular the size_t counter
\* m_unfinished_tasks never goes below zero, where it would wrap around.
TypeOK ==
    /\ task \in [Tasks -> TaskState]
    /\ queue \in Seq(Tasks)
    /\ unfinished \in Nat
    /\ owing \subseteq Tasks
    /\ stopped \in BOOLEAN
    /\ wpc \in [Workers -> WorkerState]
    /\ held \in [Workers -> Tasks \cup {NoTask}]
    /\ stopPc \in {"no", "flagged", "notified", "joined"}

\* m_unfinished_tasks is exact at every instant: it is the number of calls and
\* tasks between the increment in push_task and the decrement that pairs with
\* it, in the catch block of push_task or at the end of the worker's turn.
CounterExact == unfinished = Cardinality(Counted)

\* The queue and the workers hold the accepted tasks, each of them once: a task
\* is in the queue, at one place, exactly while nobody has popped it, and a
\* worker executes the task it popped and shares it with no other worker.
OneHolderEach ==
    /\ \A t \in Tasks : task[t] \in {"queued", "late"} <=> \E i \in 1..Len(queue) : queue[i] = t
    /\ \A i, j \in 1..Len(queue) : queue[i] = queue[j] => i = j
    /\ \A w \in Workers : IF wpc[w] \in {"running", "ran"}
                            THEN held[w] \in Tasks /\ task[held[w]] = wpc[w]
                            ELSE held[w] = NoTask
    /\ \A v, w \in Workers : held[v] = held[w] /\ held[v] # NoTask => v = w
    /\ \A t \in Tasks : task[t] \in {"running", "ran"} => \E w \in Workers : held[w] = t

\* How the parts of the pool are ordered in its life: nothing is pushed before
\* the workers exist, a worker leaves only a stopped queue from which every
\* task accepted before the stop has gone, and stop() waits for all of them.
LifeCycle ==
    /\ stopped <=> stopPc # "no"
    /\ (\E w \in Workers : wpc[w] = "absent") =>
           /\ \A w \in Workers : wpc[w] = "absent"
           /\ \A t \in Tasks : task[t] = "new"
    /\ (\E w \in Workers : wpc[w] = "exited") =>
           stopped /\ \A t \in Tasks : task[t] # "queued"
    /\ stopPc = "joined" => \A w \in Workers : wpc[w] \in {"absent", "exited"}
    /\ \A t \in owing : task[t] \notin {"new", "counted", "refusing", "refused"}

\* What io_worker::drain_pending_responses relies on when it reads the counter:
\* once it is zero, no accepted task is waiting or executing.
ZeroMeansIdle ==
    unfinished = 0 => \A t \in Tasks : task[t] \notin {"queued", "late", "running", "ran"}

\* No wakeup is lost: while some worker sleeps in wait_and_pop, every task in
\* the queue has a worker on its way to the queue or a notification still to
\* come from the push that queued it.
NoLostWakeup ==
    Waiting # {} => Len(queue) <= Cardinality(Awake) + Cardinality(owing)

\* A task accepted before stop() is executed and counted off, even if the stop
\* comes while it waits: workers leave only a queue that is stopped and empty.
QueuedTaskRuns == \A t \in Tasks : task[t] = "queued" ~> task[t] = "done"

\* stop() returns: every worker, asleep or busy when it is called, ends.
StopTerminates == stopPc = "flagged" ~> stopPc = "joined"

\* The refinement mapping: a push that has not reached its critical section is
\* still "new" to the service, one that throws has been refused.
ServiceStatusOf(s) ==
    CASE s = "counted" -> "new"
      [] s = "refusing" -> "refused"
      [] s = "queued" -> "pending"
      [] OTHER -> s

ServicePhase ==
    CASE stopPc = "no" -> "open"
      [] stopPc = "joined" -> "down"
      [] OTHER -> "closed"

Service == INSTANCE TaskService WITH
    status <- [t \in Tasks |-> ServiceStatusOf(task[t])],
    order <- queue,
    phase <- ServicePhase

\* The pool is a task service: first in first out, each accepted task executed
\* once and counted off after that, refusals only from a full queue, and join
\* returns only when everything accepted before stop() has been counted off.
ImplementsTaskService == Service!ServiceSafety
=============================================================================
