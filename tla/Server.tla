-------------------------------- MODULE Server --------------------------------
(***************************************************************************)
(* The life of the process (server.cpp: server, start, io_worker's         *)
(* constructor, destructor and run) with all of its threads: the main      *)
(* thread that builds, starts, stops and joins, the I/O threads, each with *)
(* a pool of its own, and the metrics (metrics.hpp) they all share.        *)
(*                                                                         *)
(* IoWorker and ThreadPool model one I/O thread and one pool in detail;    *)
(* here an I/O thread sets itself up, takes requests for its pool or for   *)
(* the metrics, and drains, and a worker takes tasks one after the other.  *)
(* Every access to a counter of the metrics is a step of its own.  A task  *)
(* takes one unit of time.                                                 *)
(***************************************************************************)
EXTENDS Integers, FiniteSets

CONSTANTS
    IoThreads,    \* IO_THREADS
    PoolSize,     \* POOL_SIZE
    MaxTasks,     \* bound: requests for the pools
    MaxSnapshots  \* bound: requests for the metrics

\* With IO_THREADS = 0 the division in start() ends the process.
ASSUME IoThreadsAssumption == IoThreads \in Nat \ {0}
ASSUME PoolSizeAssumption == PoolSize \in Nat
ASSUME BoundsAssumption == MaxTasks \in Nat /\ MaxSnapshots \in Nat

Ios == 1..IoThreads

\* worker_threads_per_io
Share == IF PoolSize \div IoThreads < 1 THEN 1 ELSE PoolSize \div IoThreads

\* Worker <<i, n>> belongs to the pool of I/O thread i.
Workers == Ios \X (1..Share)
PoolOf(i) == {w \in Workers : w[1] = i}

VARIABLES
    main,       \* where the main thread is in start() and after it
    made,       \* io_workers built, and registered with the metrics
    launched,   \* I/O threads started
    told,       \* response queues stopped
    torn,       \* io_workers destroyed
    broken,     \* start() was left by an exception
    running,    \* m_running
    io,         \* io[i]: where I/O thread i is in run()
    hasFd,      \* hasFd[i]: its response queue knows the eventfd
    event,      \* event[i]: the eventfd's counter is not zero
    queued,     \* queued[i]: its response queue is not empty
    pending,    \* pending[i]: tasks in the queue of its pool
    open,       \* open[i]: its descriptors have not been closed
    worker,     \* worker[w]: where worker w is in its current task
    \* the metrics
    active, requests, time,
    snap,       \* snap[i]: the snapshot I/O thread i is taking
    \* history
    leaked,     \* tasks that threw between the two updates of active
    sent, asked \* requests so far for the pools and for the metrics

mainVars == <<main, made, launched, told, torn, broken>>
ioVars == <<io, hasFd, open>>
queueVars == <<event, queued, pending>>
metrics == <<active, requests, time>>
others == <<sent, asked>>
vars == <<mainVars, running, ioVars, queueVars, worker, metrics, snap, leaked, others>>

\* Between increment_active_threads and decrement_active_threads.
Inside == {"executing", "responded", "counted", "timed"}
Executing(i) == {w \in PoolOf(i) : worker[w] \notin {"absent", "idle", "ended"}}

\* thread_pool::get_unfinished_tasks
Unfinished(i) == pending[i] + Cardinality(Executing(i))

\* What a snapshot reads of the two counters, and the pools it has polled. The
\* gauges and the queues' lengths are shown as they are read: no property tells
\* their values apart.
NoSnapshot == [requests |-> 0, time |-> 0, polled |-> {}]

Init ==
    /\ main = "building"
    /\ made = 0 /\ launched = 0 /\ told = 0 /\ torn = 0
    /\ broken = FALSE /\ running = TRUE
    /\ io = [i \in Ios |-> "absent"]
    /\ hasFd = [i \in Ios |-> FALSE] /\ open = [i \in Ios |-> TRUE]
    /\ event = [i \in Ios |-> FALSE] /\ queued = [i \in Ios |-> FALSE]
    /\ pending = [i \in Ios |-> 0]
    /\ worker = [w \in Workers |-> "absent"]
    /\ active = 0 /\ requests = 0 /\ time = 0
    /\ snap = [i \in Ios |-> NoSnapshot]
    /\ leaked = 0 /\ sent = 0 /\ asked = 0
-----------------------------------------------------------------------------
(* The main thread *)

othersThanMain == <<ioVars, queueVars, worker, metrics, snap, leaked, others>>

\* An io_worker is built and its pool registered with the metrics.
Build ==
    /\ main = "building" /\ made < IoThreads
    /\ made' = made + 1
    /\ main' = IF made' = IoThreads THEN "launching" ELSE main
    /\ UNCHANGED <<launched, told, torn, broken, running, othersThanMain>>

Launch ==
    /\ main = "launching"
    /\ launched' = launched + 1
    /\ io' = [io EXCEPT ![launched'] = "setup"]
    /\ main' = IF launched' = IoThreads THEN "waiting" ELSE main
    /\ UNCHANGED <<made, told, torn, broken, running, hasFd, open, queueVars, worker, metrics,
                   snap, leaked, others>>

\* An allocation or the creation of a thread fails. The exception leaves start(),
\* whose vector of threads joins those that were started.
StartThrows ==
    /\ main \in {"building", "launching"}
    /\ broken' = TRUE /\ main' = "joining"
    /\ UNCHANGED <<made, launched, told, torn, running, othersThanMain>>

\* Bug: the flag is not cleared.
SignalKeepsRunning ==
    /\ main = "waiting"
    /\ main' = "stopping"
    /\ UNCHANGED <<made, launched, told, torn, broken, running, othersThanMain>>

\* read() on the signalfd returns.
Signal ==
    /\ main = "waiting"
    /\ running' = FALSE /\ main' = "stopping"
    /\ UNCHANGED <<made, launched, told, torn, broken, othersThanMain>>

\* Bug: only the queue of the first I/O thread is stopped.
StopFirstQueue ==
    /\ main = "stopping"
    /\ told' = IoThreads /\ main' = "joining"
    /\ event' = [event EXCEPT ![1] = @ \/ hasFd[1]]
    /\ UNCHANGED <<made, launched, torn, broken, running, ioVars, queued, pending, worker,
                   metrics, snap, leaked, others>>

\* shared_queue::stop writes the eventfd, if the queue knows one.
StopQueue ==
    /\ main = "stopping"
    /\ told' = told + 1
    /\ event' = [event EXCEPT ![told'] = @ \/ hasFd[told']]
    /\ main' = IF told' = IoThreads THEN "joining" ELSE main
    /\ UNCHANGED <<made, launched, torn, broken, running, ioVars, queued, pending, worker,
                   metrics, snap, leaked, others>>

\* The vector of jthreads goes out of scope.
Join ==
    /\ main = "joining"
    /\ \A i \in Ios : io[i] \in {"absent", "ended"}
    /\ main' = "destroying"
    /\ UNCHANGED <<made, launched, told, torn, broken, running, othersThanMain>>

\* ~io_worker closes its descriptors first ...
CloseDescriptors ==
    /\ main = "destroying" /\ torn < made /\ open[torn + 1]
    /\ open' = [open EXCEPT ![torn + 1] = FALSE]
    /\ UNCHANGED <<mainVars, running, io, hasFd, queueVars, worker, metrics, snap, leaked, others>>

\* ... and then stops the pool, whose workers end when its queue is empty.
StopPool ==
    /\ main = "destroying" /\ torn < made /\ ~open[torn + 1]
    /\ \A w \in PoolOf(torn + 1) : worker[w] \in {"absent", "ended"}
    /\ torn' = torn + 1
    /\ UNCHANGED <<main, made, launched, told, broken, running, othersThanMain>>

\* main() returns, after a report of the exception if start() was left by one.
End ==
    /\ main = "destroying" /\ torn = made
    /\ main' = "ended"
    /\ UNCHANGED <<made, launched, told, torn, broken, running, othersThanMain>>
-----------------------------------------------------------------------------
(* An I/O thread: io_worker::run *)

othersThanIo == <<mainVars, running, worker, metrics, leaked>>

Goes(i, from, to) == io[i] = from /\ io' = [io EXCEPT ![i] = to]

\* setup_listening_socket and setup_timerfd; server_error ends the thread.
Setup(i) ==
    /\ Goes(i, "setup", "event") \/ Goes(i, "setup", "ended")
    /\ UNCHANGED <<hasFd, open, queueVars, snap, others, othersThanIo>>

\* Bug: a failure of setup_eventfd starts the set-up over.
SetupStartsOver(i) ==
    /\ Goes(i, "event", "pool") \/ Goes(i, "event", "setup")
    /\ hasFd' = [hasFd EXCEPT ![i] = TRUE]
    /\ UNCHANGED <<open, queueVars, snap, others, othersThanIo>>

\* setup_eventfd: the queue learns of the eventfd before it is added to epoll.
SetupEventFd(i) ==
    /\ \/ Goes(i, "event", "pool") /\ hasFd' = [hasFd EXCEPT ![i] = TRUE]
       \/ Goes(i, "event", "ended") /\ hasFd' = [hasFd EXCEPT ![i] = TRUE]
       \/ Goes(i, "event", "ended") /\ UNCHANGED hasFd
    /\ UNCHANGED <<open, queueVars, snap, others, othersThanIo>>

StartPool(i) ==
    /\ Goes(i, "pool", "test")
    /\ worker' = [w \in Workers |-> IF w \in PoolOf(i) THEN "idle" ELSE worker[w]]
    /\ UNCHANGED <<hasFd, open, queueVars, snap, others, mainVars, running, metrics, leaked>>

\* while (m_running)
Test(i) ==
    /\ IF running THEN Goes(i, "test", "wait") ELSE Goes(i, "test", "drain")
    /\ UNCHANGED <<hasFd, open, queueVars, snap, others, othersThanIo>>

\* on_response_ready
Respond(i) ==
    /\ Goes(i, "wait", "test") /\ event[i]
    /\ event' = [event EXCEPT ![i] = FALSE]
    /\ queued' = [queued EXCEPT ![i] = FALSE]
    /\ UNCHANGED <<hasFd, open, pending, snap, others, othersThanIo>>

\* The timer, every five seconds, or an event of a connection.
Wake(i) ==
    /\ Goes(i, "wait", "test")
    /\ UNCHANGED <<hasFd, open, queueVars, snap, others, othersThanIo>>

\* A request for the pool: dispatch_to_worker.
Dispatch(i) ==
    /\ Goes(i, "wait", "test") /\ sent < MaxTasks
    /\ sent' = sent + 1
    /\ pending' = [pending EXCEPT ![i] = @ + 1]
    /\ UNCHANGED <<hasFd, open, event, queued, snap, asked, othersThanIo>>

\* Bug: the drain loop waits for the responses only.
DrainEndsEarly(i) ==
    /\ Goes(i, "drain", "ended") /\ ~queued[i]
    /\ UNCHANGED <<hasFd, open, queueVars, snap, others, othersThanIo>>

\* drain_pending_responses: the end of its loop, and one round of it.
DrainEnd(i) ==
    /\ Goes(i, "drain", "ended") /\ Unfinished(i) = 0 /\ ~queued[i]
    /\ UNCHANGED <<hasFd, open, queueVars, snap, others, othersThanIo>>

DrainRound(i) ==
    /\ io[i] = "drain" /\ queued[i]
    /\ queued' = [queued EXCEPT ![i] = FALSE]
    /\ UNCHANGED <<ioVars, event, pending, snap, others, othersThanIo>>
-----------------------------------------------------------------------------
(* A request for /metrics: collect_metrics_snapshot, on the I/O thread *)

Snapshot(i, values) ==
    /\ snap' = [snap EXCEPT ![i] = values]
    /\ UNCHANGED <<hasFd, open, pending, othersThanIo>>

ReadRequests(i) ==
    /\ Goes(i, "wait", "time") /\ asked < MaxSnapshots
    /\ asked' = asked + 1
    /\ Snapshot(i, [NoSnapshot EXCEPT !.requests = requests])
    /\ UNCHANGED <<event, queued, sent>>

\* Bug: the requests are read after the time.
ReadTimeFirst(i) ==
    /\ \/ Goes(i, "time", "late") /\ Snapshot(i, [snap[i] EXCEPT !.time = time])
       \/ Goes(i, "late", "poll") /\ Snapshot(i, [snap[i] EXCEPT !.requests = requests])
    /\ UNCHANGED <<event, queued, others>>

ReadTime(i) ==
    /\ Goes(i, "time", "poll")
    /\ Snapshot(i, [snap[i] EXCEPT !.time = time])
    /\ UNCHANGED <<event, queued, others>>

\* The loop over the registered pools, in their order.
Poll(i) ==
    /\ io[i] = "poll"
    /\ \E j \in 1..made : j = Cardinality(snap[i].polled) + 1 /\
           Snapshot(i, [snap[i] EXCEPT !.polled = @ \cup {j}])
    /\ UNCHANGED <<io, event, queued, others>>

\* The report goes to the response queue like every answer; the snapshot is gone.
Report(i) ==
    /\ Goes(i, "poll", "test") /\ Cardinality(snap[i].polled) = made
    /\ event' = [event EXCEPT ![i] = TRUE]
    /\ queued' = [queued EXCEPT ![i] = TRUE]
    /\ Snapshot(i, NoSnapshot)
    /\ UNCHANGED others
-----------------------------------------------------------------------------
(* A worker and its task: the lambda of dispatch_to_worker *)

othersThanWorkers == <<mainVars, running, ioVars, snap, others>>

At(w, from, to) == worker[w] = from /\ worker' = [worker EXCEPT ![w] = to]

Take(w) ==
    /\ At(w, "idle", "taken") /\ pending[w[1]] > 0
    /\ pending' = [pending EXCEPT ![w[1]] = @ - 1]
    /\ UNCHANGED <<event, queued, metrics, leaked, othersThanWorkers>>

Enter(w) ==
    /\ At(w, "taken", "executing")
    /\ active' = active + 1
    /\ UNCHANGED <<queueVars, requests, time, leaked, othersThanWorkers>>

\* The handler has returned; the response is pushed and the eventfd written.
PushResponse(w) ==
    /\ At(w, "executing", "responded")
    /\ event' = [event EXCEPT ![w[1]] = TRUE]
    /\ queued' = [queued EXCEPT ![w[1]] = TRUE]
    /\ UNCHANGED <<pending, metrics, leaked, othersThanWorkers>>

\* Something throws outside the try block of execute_handler; worker_loop catches it.
Throw(w) ==
    /\ At(w, "executing", "idle")
    /\ leaked' = leaked + 1
    /\ UNCHANGED <<queueVars, metrics, othersThanWorkers>>

\* record_request_time: one counter ...
CountRequest(w) ==
    /\ At(w, "responded", "counted")
    /\ requests' = requests + 1
    /\ UNCHANGED <<queueVars, active, time, leaked, othersThanWorkers>>

\* ... and the other.
AddTime(w) ==
    /\ At(w, "counted", "timed")
    /\ time' = time + 1
    /\ UNCHANGED <<queueVars, active, requests, leaked, othersThanWorkers>>

\* Bug: the gauge is not decremented.
LeaveUncounted(w) ==
    /\ At(w, "timed", "idle")
    /\ UNCHANGED <<queueVars, metrics, leaked, othersThanWorkers>>

\* The task ends, and worker_loop counts it off.
Leave(w) ==
    /\ At(w, "timed", "idle")
    /\ active' = active - 1
    /\ UNCHANGED <<queueVars, requests, time, leaked, othersThanWorkers>>

\* wait_and_pop returns nothing: the pool is being stopped and its queue empty.
Quit(w) ==
    /\ At(w, "idle", "ended")
    /\ main = "destroying" /\ torn + 1 = w[1] /\ ~open[w[1]]
    /\ pending[w[1]] = 0
    /\ UNCHANGED <<queueVars, metrics, leaked, othersThanWorkers>>
-----------------------------------------------------------------------------
MainStep == Build \/ Launch \/ StopQueue \/ Join \/ CloseDescriptors \/ StopPool \/ End

IoStep(i) ==
    \/ Setup(i) \/ SetupEventFd(i) \/ StartPool(i) \/ Test(i) \/ Respond(i) \/ Wake(i)
    \/ ReadTime(i) \/ Poll(i) \/ Report(i)
    \/ DrainRound(i) \/ DrainEnd(i)

TaskStep(w) ==
    \/ Take(w) \/ Enter(w) \/ PushResponse(w) \/ Throw(w)
    \/ CountRequest(w) \/ AddTime(w) \/ Leave(w) \/ Quit(w)

Terminated == main = "ended" /\ UNCHANGED vars

Next ==
    \/ MainStep \/ StartThrows \/ Signal
    \/ \E i \in Ios : IoStep(i) \/ Dispatch(i) \/ ReadRequests(i)
    \/ \E w \in Workers : TaskStep(w)
    \/ Terminated

Safety == Init /\ [][Next]_vars

\* Every thread runs when it can. No request, no failure and no signal is owed.
Fairness ==
    /\ WF_vars(MainStep)
    /\ \A i \in Ios : WF_vars(IoStep(i))
    /\ \A w \in Workers : WF_vars(TaskStep(w))

Spec == Safety /\ Fairness
-----------------------------------------------------------------------------
(* What must hold *)

MainPlaces == {"building", "launching", "waiting", "stopping", "joining", "destroying", "ended"}
IoPlaces == {"absent", "setup", "event", "pool", "test", "wait", "drain", "time", "poll", "ended"}
WorkerPlaces == {"absent", "idle", "taken", "ended"} \cup Inside

Snapshots == [requests : Nat, time : Nat, polled : SUBSET Ios]

\* Every variable has its type.
TypeOK ==
    /\ main \in MainPlaces
    /\ made \in 0..IoThreads /\ launched \in 0..IoThreads
    /\ told \in 0..IoThreads /\ torn \in 0..IoThreads
    /\ broken \in BOOLEAN /\ running \in BOOLEAN
    /\ io \in [Ios -> IoPlaces]
    /\ hasFd \in [Ios -> BOOLEAN] /\ open \in [Ios -> BOOLEAN]
    /\ event \in [Ios -> BOOLEAN] /\ queued \in [Ios -> BOOLEAN]
    /\ pending \in [Ios -> Nat]
    /\ worker \in [Workers -> WorkerPlaces]
    /\ active \in Int /\ requests \in Nat /\ time \in Nat
    /\ snap \in [Ios -> Snapshots]
    /\ leaked \in Nat /\ sent \in Nat /\ asked \in Nat

\* The gauge of active threads is exact at every instant, for all pools together,
\* but for the tasks that threw after the increment: each of them stays in it.
ActiveExact ==
    active = Cardinality({w \in Workers : worker[w] \in Inside}) + leaked

\* No thread outlives what it uses. While a snapshot polls the pools it holds bare
\* pointers to, all of them exist; while a worker has a task, the eventfd it will
\* write when it pushes the response is open, although ~io_worker closes it before
\* it stops the pool; and no I/O thread runs in an io_worker that is torn down.
NothingOutlived ==
    /\ \A i \in Ios : io[i] = "poll" => made = IoThreads /\ \A j \in Ios : open[j]
    /\ \A w \in Workers : worker[w] \in {"taken", "executing"} => open[w[1]]
    /\ \A i \in Ios : ~open[i] => io[i] \in {"absent", "ended"}

\* The average a snapshot shows is made of two counters read one after the other
\* and written one after the other, and still the sum of the times it has read
\* lags behind the number of requests by no more than one for each worker,
\* however many tasks end in between: the counters are read in the order in which
\* a worker writes them.
SnapshotLag ==
    \A i \in Ios : io[i] = "poll" =>
        snap[i].requests - snap[i].time <= Cardinality(Workers)

\* Once the main thread waits for the I/O threads after a signal, none of them
\* is asleep: each that waits has been told by its eventfd, whatever it was doing
\* when the flag was cleared, also if it then set itself up and its response
\* queue had no eventfd to write to. (The timer would wake it, five seconds later.)
NoneSleepsOn ==
    main = "joining" /\ ~broken => \A i \in Ios : io[i] = "wait" => event[i]

\* A signal ends the process, wherever each of the I/O threads is when it comes:
\* setting itself up, asleep, in the middle of a snapshot, or ended because it
\* could not be set up.
StopReachesAll == main = "stopping" ~> main = "ended"

\* A start() that fails half way is reported in the end, if none of the I/O threads
\* it had started got as far as its loop. One that did is joined for ever: the
\* exception skips the two steps that tell it to stop.
Serving(i) == io[i] \in {"pool", "test", "wait", "drain", "time", "poll"}
BrokenStartEnds == broken ~> main = "ended" \/ \E i \in Ios : Serving(i)
=============================================================================
