# Verification of APIServer2

TLA+ models of the server in `src/src/`: what its threads, queues and connections do,
the properties that make them correct, the TLC runs that check them on small instances,
and proofs, checked by TLAPS, that hold for every size.

## The system

APIServer2 is an HTTP server for JSON APIs in C++23. A process runs `IO_THREADS` I/O
threads; each has its own listening socket (`SO_REUSEPORT`), epoll set, connection table,
response queue and private pool of worker threads. Nothing but the metrics and the flag
`m_running` is shared between I/O threads. So one I/O worker with its pool is the unit the
detailed models take, and one more model, `Server`, puts several of them together with
what they share: the main thread, the flag and the metrics.

| Part | State | Operations | Talks to |
|---|---|---|---|
| thread pool (`thread_pool.hpp`) | task queue, unfinished counter, stop flag, threads | `start`, `push_task`, `worker_loop`, `stop` | I/O thread pushes; workers pop; destructor stops |
| queues (`shared_queue.hpp`) | deque, mutex, condition variable or eventfd, capacity | `push`, `wait_and_pop`, `drain_to`, `stop`, `size` | pool (condition variable), I/O thread (eventfd) |
| I/O worker (`server.cpp`) | connection table, timeout list, connection ids, epoll registrations | `on_connect`, `on_read`, `on_write`, `on_timer_tick`, `on_response_ready`, `drain_pending_responses` | clients through sockets, pool through tasks and responses |
| server start (`server.cpp`, `signal_handler.hpp`, `main.cpp`) | `m_running`, the io_workers, the I/O threads | `start`: divides `POOL_SIZE`, builds and starts, waits for a signal, clears the flag, stops the response queues, joins; `~io_worker` | I/O threads, pools |
| request parser (`http_request.cpp`, `socket_buffer.hpp`) | read buffer, position, parsed parts | `get_buffer`, `update_pos`, `eof`, `finalize` | I/O worker; moved into the request |
| response (`http_response.hpp`) | buffer, position | `set_body`, `buffer`, `update_pos` | handler, `do_write` |
| routing (`api_router.hpp`, `cors.hpp`, `input_validator.hpp`) | literal routes, patterns, validators | `register_api`, `register_api_regex`, `find_handler`, validators | `route_parsed_request`, `execute_handler` |
| authentication (`jwt.cpp`, `mfa.hpp`, `otp.hpp`) | secret, lifetimes; the tokens clients hold | `get_token`, `is_valid`, `validate_token`, TOTP | handlers, worker |
| SQL (`sql.cpp`, `sql.tpp`) | per thread: connections, prepared statements, cursors | `get`, `query`, `exec`, `get_json` | handlers, ODBC |
| REST client (`restclient.hpp`, `http_client.cpp`) | per thread: session token and its expiry | `get_customer_info`, `login_and_get_token` | handlers, remote service |
| metrics (`metrics.hpp`) | atomic counters, registered pools | increments, snapshot | everybody |

What makes each of them correct, and what is hard about it:

* **thread pool** - every accepted task is executed once, a refused one leaves no trace,
  the counter of unfinished tasks is exact at every instant, `stop` returns and loses
  nothing. Hard: the notification is sent outside the mutex, the counter is atomic but
  not under the mutex, `stop` comes at any moment.
* **I/O worker** - each request of a connection is answered once, in order, on that
  connection; a connection is closed if and only if it should be; nobody is forgotten;
  the shutdown waits for what was accepted. Hard: events of one `epoll_wait` are stale by
  the time they are handled, descriptors are reused, registrations are one-shot and
  edge-triggered, responses come from other threads, a timer races both.
* **server start** - a signal ends the process wherever its threads are; nothing is torn
  down that a thread still uses; a start that fails is reported. Hard: the signal may come
  while threads set themselves up, and each step of the start may fail.
* **request parser** - a request is complete when headers and body are there, what it
  announces is what its handler gets, and the buffer never runs out without an error.
  Hard: any fragmentation of the byte stream, and what one request leaves for the next.
* **routing** - a path is handled by the route it was registered for first. Hard: a
  pattern may match what a literal route or another pattern was meant for.
* **authentication** - a resource is served only to the holder of a full, unexpired
  token; the intermediate token opens the second step only. Hard: order of the steps,
  expiry between two of them.
* **SQL** - a call that returns has used a live connection and left the statement
  reusable; an update is applied once. Hard: errors between execute, fetch and close,
  and the retry.
* **REST client** - a refused token is dropped, a good one is used. Hard: the token is
  judged by two clocks and a secret the client does not see change, and calls fail for
  other reasons too.
* **metrics** - gauges return to zero; a snapshot shows values that belong together, up to
  what is under way. Hard: the counters are written and read one by one.

`PROJECT.json` lists under "hazards" each of the hard spots at its line, with the property
that would notice it going wrong.

## Modules

| Module | Models | Kind |
|---|---|---|
| `TaskService` | what the pool promises its user | abstract specification |
| `ThreadPool` | `thread_pool` on `shared_queue<dispatch_task>` | detailed specification |
| `ThreadPoolProofs` | theorems about `ThreadPool` for every constant | proofs |
| `Server` | the process: main thread, several I/O threads with pools, the metrics | composition |
| `ServerProofs` | theorems about `Server` for every number of threads | proofs |
| `HttpService` | what an I/O worker promises its clients | abstract specification |
| `IoWorker` | `io_worker`, its clients, its kernel objects, its pool as a `TaskService`, the stopping main thread | composition |
| `MCIoWorker` | instances of `IoWorker` with symmetric descriptors | model checking |
| `IoWorkerProofs` | theorems about `IoWorker` for every constant: types, table, backlog, eventfd, drain | proofs |
| `IoConnectionProofs` | theorems about one connection of `IoWorker`: one-shot, exemption, timeouts, answers, the refinement of `HttpService` | proofs |
| `RequestStream` | one connection: `request_parser`, `socket_buffer`, the read loop | detailed specification |
| `MCRequestStream` | the streams a client may send | model checking |
| `RequestStreamProofs` | theorems about `RequestStream` for every constant | proofs |
| `SqlSession` | one thread's connection, statements and cursors; `get`, `query`, `get_json`, `exec` | detailed specification |
| `MCSqlSession` | one statement for each of the four calls | model checking |
| `SqlSessionProofs` | theorems about `SqlSession` for every constant | proofs |
| `SqlChunks` | the loop around `SQLGetData` | detailed specification |
| `AuthSession` | routing, authorisation, login, TOTP, tokens over a clock | detailed specification |
| `MCAuthSession` | symmetric connections, a secured and an open pattern | model checking |
| `AuthSessionProofs` | theorems about `AuthSession` for every constant | proofs |
| `RestClient` | `RemoteCustomerService` as a client of `AuthSession` | composition |
| `MCRestClient` | a service without patterns | model checking |
| `RestClientProofs` | theorems about `RestClient` for every constant | proofs |

### ThreadPool

A section of code under `m_mutex` is one action; between two such sections, and between a
section and the atomic counter next to it, every other thread may run. `push_task` is
`Count` (the increment), `Enqueue` or `Refuse` (the critical section of `push`), then
`Notify` (`notify_one`, after the mutex is released) or `Uncount` (the `catch` block).
`worker_loop` is `Pop`, `Wait` (the predicate is false: release and sleep in one step) or
`Exit`, then `Run` and `Decrement`. `stop` is `StopQueue`, `NotifyAll`, `Join`. The
condition variable is the set of workers in state `"waiting"`; `SpuriousWakeup` lets any
of them return. Each element of `Tasks` is one call of `push_task` by a thread of its own,
which is more concurrency than the I/O thread alone makes; a task pushed after the stop
is `"late"`: the code accepts it and promises it nothing.

`TaskService` is the same object with no thread in it: accept or refuse, start in order,
finish, settle (count off), close, go down. `ThreadPool` implements it under the mapping
`ServiceStatusOf`/`ServicePhase` (property `ImplementsTaskService`, checked by TLC and
proved), and `IoWorker` uses it in place of the pool.

### IoWorker

The I/O thread handles one event per action, a handler with all the calls it makes. It is
split further exactly where another thread can tell: the accept loop (a client may arrive
between two turns), the read of the eventfd, the drain of the response queue, each
response, and the two reads of the drain loop's condition. What the handlers do to one
connection is computed in a record `l` (the connection, its registration, whether it was
touched, what was read and written); `Commit` assigns it to the variables. So `OnRequest`
is `on_read`, `handle_socket_read`, `process_request`, `route_parsed_request`,
`dispatch_to_worker` and the tail of `handle_epoll_event` in one step, with the four
outcomes the code has: 400, an answer given by the I/O thread (CORS, OPTIONS, internal
API, 404), 503 when the task queue is full, and a task.

* `conns[fd]` is `m_connections`; `got` counts the fragments in the parser, `moved` says
  the parser has been moved into a request, `resp` is the response being written and `pos`
  its position, `caw` is `close_after_write`, `proc` is `is_processing`, `last` is
  `last_activity`.
* `timeouts` is `m_timeout_list`. Its elements carry the connection id, which the code
  does not have: it stands for the identity of a list node (`timeout_it`).
* `reg[fd]` is the epoll registration. `Disarm` is `EPOLLONESHOT`. `batch` is the array
  `epoll_wait` filled, in any order; an entry keeps what was true when it was reported.
* `origin[r]` is what the task captured: descriptor and connection id.
* A worker pushes its response (`WorkerPush`), then writes the eventfd (`WorkerSignal`),
  then is counted off (`WorkerSettle`). A task may throw outside the `try` block of
  `execute_handler`: `worker_loop` counts it off, and nobody answers (`failed`).
* `main` follows `server::start` and the destructor: clear `m_running`, stop the response
  queue, join, close the descriptors, stop the pool.
* `answers` is what the kernel took of each response, piece by piece. `inherited`,
  `halted` and `failed` are history: clients whose connection was handed an event of their
  descriptor's former owner, whether the last accept loop met the limit, and the requests
  whose task threw.

The environment: a client connects once, sends its requests in fragments, one request at
a time, may half-close or reset at any moment, and, if slow, may have room for some pieces
of a response only until it reads. The clock advances by one with each expiry of the timer.

`HttpService` is the same worker as its clients see it, with no descriptor, event, timer,
thread or queue: who waits, who is admitted and how many at a time (`Admit`), which request
is accepted, once and after all its former ones were answered (`Take`), the next pieces of
what a client may receive (`Give`), whom the timer (`Reap`) or a handler (`Besides`) may
leave, and what has been answered when the worker ends (`End`). `MayLeave` is its heart: a
client that is owed the answer to an accepted request is left only after a reset of its own.
Its exceptions are what the code does, named one by one: slow clients, whose response the
drain may cut off, clients that were handed an event of their descriptor's former owner
(`disturbed`), and tasks that throw (`thrown`); nothing at all is said of what a client
receives that is both slow and disturbed. `IoWorker` implements it (`ImplementsHttpService`)
under the mapping at its end: `link` is where the client's socket is, `accepted` is what
the pool did not refuse, `phase` is `ServicePhase`.

### Server

The whole process at a coarser grain. The main thread is the sequence `Build`, `Launch`,
`Signal`, `StopQueue`, `Join`, `CloseDescriptors`, `StopPool`, `End`, one io_worker at a
time where the code loops over them; `StartThrows` is an exception in the first two, which
goes straight to the join (the vector of `jthread`s is destroyed) and then to the report
in `main()`. An I/O thread is `Setup`, `SetupEventFd`, `StartPool` and the loop of `run()`:
`Test` (the flag), what wakes it (`Respond`, `Wake`, `Dispatch`, `ReadRequests`), and the
drain. Sockets and connections are left to `IoWorker`; what remains of them is that a
thread may get a request for its pool, or one for the metrics, at any time.

A task is the lambda of `dispatch_to_worker` with each access to a counter as a step of
its own: `Enter` (increment), `PushResponse`, `CountRequest`, `AddTime`, `Leave`; a task
may throw in between (`Throw`). A snapshot reads the same counters one after the other and
then walks over the registered pools (`ReadRequests` to `Report`). Accesses are taken in
program order; the code relaxes some of them, and on x86, which it is built for, they stay
in that order. A task takes one unit of time, so that `time` can be compared with
`requests`. `leaked`, `sent` and `asked` are history.

`hasFd` is whether the response queue knows its eventfd (`set_event_fd`), which a stop that
comes during the set-up does not find. The timer of five seconds is `Wake`, which may also
be an event of a connection; it is not needed for any property.

### RequestStream

`IoWorker` counts fragments and asks whether all have come; this module looks at what
`eof()` and `finalize()` do with the bytes. The stream is a sequence of units: the request
line with its header lines, the blank line that ends a head, pieces of a JSON body,
delimiters, part headers and data of a multipart body. A unit takes one byte of the
buffer, so `ChunkSize` and `MaxSize` are counted in units. A client sends its two requests
back to back in whatever fragments, without waiting for an answer, and may half-close at
any unit. `Framed` says what the numbers of the units mean: requests follow each other,
each is a line, the end of its head and a JSON body or a form, and what a Content-Length
covers is part of its own request (RFC 9112). A Content-Length that is too small for its
body, a body that is never sent whole and every malformed head are still among the streams.

`ReadData`, `ReadAgain` and `ReadEnd` are one turn each of the loop in
`handle_socket_read`; `Rearm` and `Process` are the two ends of `on_read`; `Respond` is
the end of `do_write`, with `connection_state::reset`. The parser is made of operators on
the buffer, in the order of the code: `HeadEnd` (`find_and_store_header_end`), `Identify`
and `Identified` (what `parse_and_store_method` stores, and what it returns), `Eof`,
`RefusedLine` and `HeadAccepted` (`parse_headers`, header line by header line: malformed
ones, Transfer-Encoding, a second Host or Content-Length, too many; `parse_uri` is one
verdict), `LengthOf` and `TypeOf` (Content-Length and Content-Type), `BodyOf`, `Accepts`
(`finalize`: what a POST needs, the length of a JSON body and whether it is complete),
`PartsOf` and `Fields` (the multipart parser: parts cut at the delimiters, named or not,
files apart from parameters, the first of a name kept), `Handed` (`request::request`; its
`content` is what `parse_body` cut out, which a multipart request has as fields and not as
a body).
`start` is where the current parser begins in the stream; what a request took with it is
gone, read or not. `taken` is history.

`FirstLine` says what `parse_and_store_method` makes of bytes that are no request line,
because after a truncated request the next parser starts in the middle of a body.

### SqlSession

A worker thread keeps one connection per database (`thread_local`), a connection keeps
its prepared statements, a statement has a cursor. One call is `Connect`, `Prepare`, `Bind`
(`bind_all_params`), `Execute`, for results `Describe` and the fetches, and `Close`; each may throw, and
`Catch` is the block all four calls share: with a state out of HY000, 01000, 08S01
("link") the first attempt drops the connection and runs again. `query` and `get_json`
have the same control and differ from `get` in what a failing fetch does
(`FetchFails`, `FetchDamaged`). `FetchRow` reads all columns of a row, each to its end;
`FetchSpins` is the one way in which that loop does not end (see Findings), and a thread in
`"spin"` never leaves it.

The database is the environment: connections break and the server stops and starts at
any moment, also while `SQLExecute` waits for its reply (`ExecuteLost`: applied or not,
nobody can tell). What is assumed of the driver stands at the head of the module. The
other variables are history: what the call has met, how often its statement took effect,
and the three excuses a failing call may have.

`SqlChunks` is the loop that reads one column. `Memory(n)` is what lies behind the end of
the string after `SQLGetData` has written its piece, and the string is extended over
`Indicator` bytes of it. `ReadNoData` is the turn of the loop that changes nothing, after
a warning about a value that was delivered whole. It has no property that passes: the loop
is right as long as the value fits into one piece and comes without a warning, and that is
all there is to say for it.

### AuthSession

One level above the connections: a line carries one request at a time. `Send` is
`route_parsed_request`, done by the I/O thread (CORS, OPTIONS, internal API, unknown path,
full queue, or a task for the pool); `Execute` is `execute_handler` up to the handler
(method, `validate_token`, validator), with the clock read once; `HandleLogin`,
`HandleTotp` and `HandleData` are the handlers, which end at a later reading of the clock;
`HandlerThrows` is the `catch` blocks. `main_example.cpp` is the documented application
and gives the literal routes and handlers; `main.cpp`, the one the Makefile builds,
registers a pattern that matches every path, for any method and open to everybody
(`HandleRegex`). An application may register both kinds: `RegexRoutes` is any sequence of
patterns, each the set of paths it matches, and `find_handler` is the literal path or else
the first pattern. `Secured` says what was registered as secured, told from the tables and
not from the lookup.

A token is the record of what matters in it: the session it was made for, `preauth`,
`exp`, and the secret it is signed with. `sessions` remembers of each login what no
variable of the program does, and what the properties need: when it was, whether it asked
for a second factor, whether a code was accepted since, and the longest that a TOTP
request took between its authorisation and the new token (`late`), which the code does not
bound. `held` are the tokens that reached a client; clients keep them for ever and send
any of them anywhere. `Ask` gives a client its user's correct TOTP code or a wrong one.

`Restart` starts the process again, as a rollout does, with another `JWT_SECRET` and
another `MFA_ENABLED` or the same: requests are lost, tokens are not. `Lose` is a broken
connection or a client that stops waiting; the session a handler was about to open is then
never seen by anybody, so ending the request there loses nothing.

### RestClient

The threads of one server that call another (`restclient.hpp`), over the same lines;
`AuthSession` is the service they call, with its requests, its clock and its restarts.
`Begin` is the look into the cache and the first request; `LoginAnswered`, `PostCustomer`
and `CustomerAnswered` are the rest of `get_customer_info`, one action between two
network calls. `skew` is the difference of the two clocks. `obtained` and `refused` are
history. The gateway's prefix `/api` is left out.

## Runs

All runs finish within about three minutes on two cores.

| Run | Instance | What it shows |
|---|---|---|
| `ThreadPool` | 3 pushes, 2 workers, capacity 2 | `CounterExact`, `NoLostWakeup`, `QueuedTaskRuns`, `StopTerminates`, `ImplementsTaskService`: three tasks fill the queue and are refused, two workers compete and sleep at once; a lost wakeup needs two sleepers and two tasks, which fits |
| `Server` | 2 I/O threads, `POOL_SIZE` 3 (2 workers), 3 tasks, 1 snapshot | `ActiveExact`, `NothingOutlived`, `SnapshotLag`, `NoneSleepsOn`, `StopReachesAll`, `BrokenStartEnds`: two I/O threads are enough for a start that stops half way, a signal that meets each of them elsewhere, and a snapshot of one that polls the pool of the other; the share of 3 in 2 is not exact; three tasks are one more than the lag two workers may cause, so that a snapshot that reads its two counters in the other order is caught |
| `IoOneClient` | 1 slow client, 2 requests of 2 fragments, responses of 2 pieces, half-close, reset, tasks that throw, shutdown | `NeverDeaf`, `ExemptionEnds`, `DrainDelivers`, `ImplementsHttpService`, `RequestAnswered`, `ShutdownEnds`: keep-alive over two requests, partial reads and writes, each with a hang-up, a failure or a stop at any moment; one slow client on one descriptor is never disturbed, so that each step of `HttpService` about answers is checked in full |
| `IoTwoClients` | 2 clients, 2 descriptors, capacity 1, 1 tick, timeout 0, failing registrations and tasks, shutdown | `ConnectionTable`, `NoForgottenBacklog`, `NoUnseenResponse`, `AnswersInOrder`, `ImplementsHttpService`, `OneShotShield`, `TimeoutListExact`, `IdleReaped`, `ExecutingKept`: two requests at once fill the queue (503) and share batches, a descriptor changes hands inside one batch and while a response is under way, and one tick lets a connection expire or be kept next to another one |
| `IoMovedParser` | 2 clients, 1 descriptor, timeouts | expected violation, see Findings |
| `RequestStream` | 2 pipelined requests of 27 kinds each, first chunk 2, limit 10, at most 3 header names | `RoomLeft`, `BodyIsOwn`, `NoHeadLeftWaiting`, `InStep`, `WholeRequestUnderstood`: the longest stream has 14 units, so that the buffer grows (2, 4, 8, 10), is capped and overflows; each header rule, each way to announce a body, repeated names, files and a form cut short are among the kinds; the second request shows what the first leaves behind |
| `RequestTruncated` | the same | expected violation |
| `SqlSession` | one statement per call, results of up to 2 rows | `CallSurvives`, `AppliedOnce`, `GetWhole`, `CursorsClosed`, `CallEnds`: calls follow each other without bound; two rows give an error at the start, in the middle and at the end of a result, and a loop over a column that does not end in either row |
| `SqlErrors` | the same | expected violation |
| `SqlChunks` | pieces of 4 bytes, values of up to 12 | expected violation |
| `AuthSession` | 2 lines, 1 session, both timeouts 1 second of 2 ticks, 5 ticks, 1 restart, a secured pattern and an open one that also matches every literal path | `SecondFactor`, `SessionBounded`: five ticks are enough for a first token, an exchange and the end of the full token, also when `exp` loses half a second; one restart turns the second factor on or off or changes the secret; two lines exchange the same token at once |
| `RestClient` | 2 threads, 2 sessions, 3 ticks, timeout 2, 1 restart, clocks up to 1 apart | `RefusedTokenDropped`, `NoNeedlessLogin`: a token is refused because its secret is gone or the service's clock is ahead, expires by the caller's clock first, or lives through failed calls; the second session shows what the first left |

The bounds are `MaxRequests`, `MaxClock`, `MaxTasks`, `MaxSnapshots`, `MaxRows`,
`MaxLength`, `MaxSessions`, `MaxRestarts`, `MaxSkew` and the sets
themselves; `Frags`, `Pieces`, `MaxSize` and `MaxHeaders` are small values of the code's
parameters (`MaxHeaders` is 50 there). One descriptor is enough
for the limit, two for the order of the timeout list and for a full task
queue. A client's second request sees whatever the first left behind.
Deadlock is checked in every run; the only states without a further step are those of
`Terminated` (everything joined, the process ended, or died of `ReadMovedParser`) and of `Closed`
(the connection of `RequestStream`). A failed start of `Server` whose I/O threads were
serving never ends, but those threads keep waking up.

Each property has a mutant: an operator marked `Bug:` next to the definition it replaces,
which is a slip somebody could make in that code and which the property notices.

### Fairness

Weak fairness for every thread that has a step to make: the caller inside `push_task`, each
worker, the stopping thread, the I/O thread, and each handler (`WorkerStep`: handlers
return, which a handler whose SQL call spins does not, see Findings); in `SqlSession` the
call under way (ODBC functions return), in `Server` the main
thread, each I/O thread and each worker. The kernel schedules runnable threads and nothing in the code waits for
something else. Not assumed: that anybody calls `push_task` or a SQL function, that a signal comes, that
clients connect, send or hang up, that anything fails or succeeds, or any spurious wakeup.
A client with a full window reads eventually (`Relieve`), all there is; its window is
decided before the response, so a response meets it once.

## Findings

`IoMovedParser`: the events of one `epoll_wait` are handled by descriptor
(`server.cpp:78-118`, `143-145`). If the timer closes a connection and the listener
reuses its descriptor earlier in the same batch, the old connection's event is applied to
the new one. A read event then reads and dispatches the new client's request while its own
registration is still armed, and the next readiness calls `get_buffer()` on a parser whose
buffer has moved into the request (`http_request.cpp:218`, a null `unique_ptr`).
`readme.md:114` promises memory safety. Responses are protected against reuse by the
connection id (`AnswersInOrder` holds in `IoTwoClients`), events are not.

`RequestTruncated`: `server.cpp:492` asks whether the request is complete, but `eof()` is
true with the head (`http_request.cpp:247-253`; the branch for Content-Length behind it is
dead). A multipart body whose end comes in a later segment is handed to the handler
without it, a cut JSON body is answered with 400, and the rest is parsed as the next
request line. `WholeRequestUnderstood` and `InStep` say what holds instead: requests that
were in the buffer as a whole, and nothing else with them, are understood.

`SqlErrors`: `sql.hpp:31` speaks of an exception for ODBC errors; `query` and `get_json` take
an error of `SQLFetch` for the end of the result (`sql.cpp:108`, `sql.tpp:447`) and return what
they have. `get` does not: `GetWhole`.

`SqlChunks`: `sql.cpp:68` calls the reading of large texts robust; with a value that does not
fit into one piece (8191 or 4095 bytes) the string gets the terminator, and then bytes
nobody wrote, into its middle.

A SQL call that never ends, without a run of its own because no line of the repository
promises otherwise: the loops over the pieces of a column (`sql.tpp:123-143`, `400-416`,
`sql.cpp:70-85`) go on after `SQL_SUCCESS_WITH_INFO` and return on `SQL_NO_DATA` without
clearing `has_more_chunks`. If the driver warns of a column it has delivered whole, the next
`SQLGetData` has no data, nor has any after it, and the worker thread spins in `get`,
`query` or `get_json` for ever. `CallEnds` excepts it (`FetchSpins`, `"spin"`), and no
`exec` can get there. What rests on handlers that return, `RequestAnswered` and
`ShutdownEnds` of `IoWorker` and `StopReachesAll` of `Server`, does not hold of such a
handler: its client gets no answer, is spared by the timer, and the drain of a shutdown
waits for the task for ever.

Without a run of their own, seen while translating: `jwt.hpp:74` says that `get_claims`
checks the expiration time, and `jwt.cpp:136-138` does not (`HandleTotp` does as the code;
`SessionBounded` says what follows); `restclient.hpp:78` and `readme.md` speak of a cache of
three minutes, and the code keeps a token until its `exp`; `main_example.cpp:251` calls
`otp::is_valid_token(30, totp, secret)`, which `otp.hpp:139` does not declare, and the
compiled `main.cpp` has no such handler. The call is modelled as the declared function with
its defaults, 30 seconds and the current step only.

More weaknesses are visible as the exceptions that true invariants need:
`NoHeadLeftWaiting` must except a head without a header line and a first line without a
space, which leave client and server waiting for each other; `CallSurvives` must except a
statement whose cursor a failed `get` has left open, which then fails on that thread until
some other error replaces the connection; `AppliedOnce` must except the lost reply, after
which an `exec` is applied again. `NeverDeaf` must except a half-closed client whose response waits for room (the RDHUP
event uses up the one-shot registration of the pending write), and `NoForgottenBacklog`
must except an accept loop that met the descriptor limit. `NeverDeaf`, `ExemptionEnds` and
`ActiveExact` must except a task that throws outside `execute_handler`: its client is never
answered, its connection never closed by the timer, and the gauge of active threads never
comes back. `AnswersInOrder` must except a slow client whose connection was handed an event
of its descriptor's former owner: it can be sent a second 400 in the middle of the first.
`TimeoutListExact` and `IdleReaped` must except the list node that a failed registration
leaves, which can end the walk of `check_timeouts` too early. `DrainDelivers` must except
a client that does not take its response at once: the drain does not wait for sockets.
`BrokenStartEnds` must except a start that fails after an I/O thread has begun to serve:
it is joined for ever, and the error never reported, because nobody has cleared
`m_running`. `SnapshotLag` says how far "consistent" in `metrics.hpp:108` goes: the average
may be made of a count and a sum that are a task of each worker apart, and no more because
the counters are read in the order in which they are written. `CallEnds` must except the
loop above.
`WholeRequestUnderstood` excepts a head with more than 50 header lines of fewer names,
which the limit also refuses.

## Proofs

`ThreadPoolProofs` proves, for any finite set of tasks, any finite non-empty set of
workers and any capacity (the three assumptions of `ThreadPool`), from `Safety` (the
specification without its fairness, hence from `Spec`):

1. `StructCorrect`: the inductive invariant `StructInv`, the types together with
   `OneHolderEach` and `LifeCycle`. Neither part is inductive alone: that a worker which
   counts off a task holds it, and no other worker does, needs the queue to be free of
   duplicates and of running tasks. `HoldersCorrect` and `LifeCycleCorrect` state two
   parts of it as results.
2. `CounterCorrect`: `CounterExact` is preserved because each action moves at most one
   task across the border of `Counted`, and moves the counter with it; that the task was
   on the other side before comes from `StructInv`.
3. `TypeCorrect`: the counter is a natural number because it is a cardinality.
4. `ZeroMeansIdleCorrect`, from 2.
5. `WakeupCorrect`: `NoLostWakeup`, by the number of awake workers and owed
   notifications against the length of the queue, step by step.
6. `RefinesTaskService`: every step of the pool is a step of `TaskService` or a stutter.

`ServerProofs` proves, for any `IO_THREADS` but zero, any `POOL_SIZE` and any number of
requests, every safety property of `Server`. `StructCorrect` is the inductive invariant
`StructInv`: the types, how far the main thread is with each io_worker (`MainPlaced`),
that I/O threads run only between launch and join (`IosPlaced`), and that a pool has work
only for an I/O thread that serves or drains (`PoolsPlaced`). The last part is what makes
`NothingOutlivedCorrect` follow: `~io_worker` closes the eventfd before it stops the pool,
which is safe only because the drain has left no task behind. `ActiveCorrect` moves one
worker across the border of `Inside` with each change of the gauge. `SnapshotLagCorrect`
needs `LagInv` (requests and time differ by the workers between the two writes, and the
requests a snapshot has read are ahead of the time it has still to read by no more than
the number of workers). `NoneSleepsOnCorrect` needs
`WakeInv`: an I/O thread that is told before it has an eventfd will see the flag at its
first `Test`. `SharesFit` is the arithmetic of `worker_threads_per_io`.

`IoWorkerProofs` and `IoConnectionProofs` prove every safety and action property of
`IoWorker`, for any finite sets of clients and descriptors, any capacity, any number of
requests, fragments and pieces, any clock and timeout (`IoAssumption`; what stands for
nothing is told from the rest, `ModelValuesAssumption`), from `Safety`, the specification
without its fairness. The invariants stand on each other, in this order:

1. `CoreInv`: the types; which events and responses the I/O thread may hold where it is
   (`Control`); table, kernel and metric agree (`TableInv`, `CountInv`); the listen queue
   holds each client once (`BacklogInv`); a parser has read no more than its client sent
   (`ReadInv`); each open connection has its node (`ListedInv`); an accepted task has
   captured a connection (`TaskInv`). They are one invariant because they need each other:
   that a new connection's id is nobody else's needs the counter, that closing a descriptor
   lowers the gauge by one needs table and kernel to agree. `TypeCorrect`, `TableCorrect`.
2. `ControlInv`: who will serve the listen queue (`ServedInv`) and what the drain loop's two
   reads have found (`DrainInv`), with `NoUnseenResponse`. No response is overlooked
   because `ReadEventFd` comes before `Collect`; and the queue stays empty at the end
   because no task is left and the I/O thread, which alone makes them, makes no more. `ResponsesSeen`, `BacklogServed`,
   `DrainLeavesNothing`.
3. `LifeInv`: what a connection has in flight is of one request, read whole (`BusyInv`); a
   batch has one event for each source (`BatchInv`); the one-shot discipline (`ShieldInv`),
   for connections that were not handed the event of their descriptor's former owner: an
   event in the batch, an armed registration and a request in flight exclude each other in
   the way `EventFits` says. `OneShotShield` alone is not inductive, for it does not see
   the events in hand. `ExemptionEnds` and `NeverDeaf` are inductive with it.
   `OneRequestAtATime`, `ExemptionHasReason`, `SocketsRearmed`, `ExecutingNeverClosed`.
4. `ListInv`: the list has no node twice and is sorted by activity, which is kept because
   a node moves to the end when its `last_activity` becomes the present, and only then.
   `TimeoutListCorrect`, and from it that the walk which ends at the first fresh node has
   seen all others (`TimeoutsReaped`).
5. `AnswerInv`: `TurnInv` gives each connection a number of answered requests, such that
   what it has in flight is the next one and fragments sent, read and unread add up;
   `WholeInv` and `DeliveryInv` say what each client has received and is owed. The
   responses in the queue are tied to a connection by its id, which `CoreInv` keeps unique.
   `ResponsesInOrder` and `DrainDeliversAll`.
6. `FullInv`, all of these with `ServeInv`, which says whom the worker may leave. A hangup
   in the batch means that its client has reset (`HupInv`); as long as the response to an
   accepted request is queued its connection is marked as processing, so that the timer
   spares it (`ProcInv`); hence a client that was closed and not answered has reset, is slow
   or was disturbed (`ClosedInv`); and an open client has a descriptor (`PlaceInv`), hence
   no more are open than `Places`. None of it follows from the former: `DeliveryInv`, for
   one, is content with any closed connection. `ServeInvariant`.

`RefinesHttpService` then takes the steps of `Next` one by one (`NextServe`). A handler that
commits is a `Give` of what it has written, in turn by `WholeInv` and no more than was asked
by `TurnInv` (`WritesNext`, `HandledGive`), or, when it dispatches, the `Take` of the request
sent last (`HandledTake`); a tick is a `Reap`, whose closed clients are among those that may
be left by `ClosedInv` of the state after it; the last turn of the drain loop is `End`, by
`DrainInv` and `DeliveryInv` (`AllDelivered`); the death of the process is `Die`, by
`ShieldInv`. Nothing else shows. `PoolUsed` closes the other side: the steps of `IoWorker`
are steps of `TaskService`, so that the pool is used as `ThreadPool` was shown to allow.

`RequestStreamProofs` proves every property of `RequestStream`, for any framed streams
(`WireAssumption`, `FramingAssumption`), any first chunk of at least one unit and
any limit (a limit below the first chunk included). `RoomInv`, the types together with
`RoomLeft`, is inductive: what `read` returned fits into the room there was
(`ReadKeepsRoom`), and after that `update_pos` grows or throws. `NoHeadLeftWaiting` is
preserved because `OnlyTwoLinesWait`: whatever method the parser has cached, `eof()` says
no to a complete head only if it cannot place the first line. `StreamInv` adds that the
history is what the parser makes of the places where it cut the stream (`TakenAt`), that
the parsers follow each other without a gap (`Chained`, `Current`) and that a cached
method is that of the buffer's first line (`Cached`). `InStep` is inductive with it, for
if all parsers so far held their requests exactly, the next one begins at a line.
`BodyIsOwn` follows from `StreamInv` because a body is cut at its Content-Length at the
latest, and what that covers is its own by the framing.
`WholeRequestUnderstood` compares the parser with the request itself: what it reads off a
header line by line with sets of header lines, and the parts it cuts with those sent.

`SqlSessionProofs` proves every safety property of `SqlSession`, for any set of statements
and any size of results, from three inductive invariants: `TypeInv` (types, where an
attempt has a connection and a statement, how often it can have been applied),
`SurviveInv` (a call that has no excuse yet runs on a database that is up, on a closed
cursor, in its second attempt on a good connection, and can only have thrown a
connection error in its first) and `ResultInv` (an `exec` that has taken effect throws only after a
lost reply; a `get` has met no error until it throws; the cursor of an `exec` is open only
between execution and close). `SurvivalCorrect`, `AppliedCorrect`, `GetWholeCorrect` and
`CursorsCorrect` follow.

`AuthSessionProofs` proves `TypeCorrect`, `SecondFactorHolds` and `SessionBoundedHolds`,
for any connections, lifetimes, ticks per second, step of the codes and sequence of
patterns (`TimesAreNat`, `NotTokens`, `RoutesAreTyped`), from the invariant `IInv`. Its heart is `HonestTokens`: every token,
delivered, on its way or in a request, says the truth of its session and expires by the
end of what it may be used for (`Honest`); `HandledAreAdmitted` keeps what `Execute`
established while the handler runs; `SecuredIsFound` is the lemma that `find_handler` never
puts an open route in the place of a secured one. `SecondFactor` alone is not inductive: it says
nothing of the tokens a client will send later. A token stays honest because a session
only gains (`Gained`, `HonestStays`), so each action has one thing to show: that the
token it makes is honest when it is made.

`RestClientProofs` proves that every step of the REST client is a step of a client of
`AuthSession` (`ClientIsAClient`: the three results above hold of the service under it),
and `RefusedTokenDroppedHolds` and `NoNeedlessLoginHolds`, for any number of threads and
any skew. `Good` says of a thread where it is in the call, that its tokens were delivered
to it, that none it holds was refused, and that one it no longer holds was refused or has
expired; a token of a new login is new because those delivered are of older sessions
(`Honest` again).

Proved but not in a run, because the proved invariants contain them: the types of every
module, and of `ThreadPool` `ZeroMeansIdle`, `OneHolderEach` and
`LifeCycle`.

Every invariant and every action property that a passing run checks is stated by a
theorem, and so are both refinements, of `TaskService` (its safety part) and of
`HttpService` (which has no other). Only model-checked: the liveness
properties (`QueuedTaskRuns`, `StopTerminates`, `StopReachesAll`, `BrokenStartEnds`,
`RequestAnswered`, `ShutdownEnds`, `CallEnds`, and the fairness of `TaskService`), because
TLAPS has no rules for `ENABLED` here; and the four expected violations.

## Not modelled

* Failure of `epoll_wait` other than EINTR (the loop is left without the drain), of
  `epoll_ctl(MOD)`, of `read` on timer, eventfd and signalfd, and recoverable errors of
  `accept4`, which the loop retries. A pool that cannot create its threads: the exception
  leaves the I/O thread, which ends the process at once.
* `IO_THREADS` = 0, by which `start` divides; the pool size the metrics report, which is
  `POOL_SIZE` whatever the pools got (`SharesFit` says what they get).
* Exceptions that are no `std::exception`: they end the process in `worker_loop`.
* Contents of requests and responses beyond what the models tell apart; the headers and
  status lines of responses.
* Of requests: the checks of `parse_uri` one by one (they are one verdict), a delimiter of
  a form that is not where a line starts, `get_value` and its conversions, a reset
  connection (it is in `IoWorker`), bytes of a unit that arrive apart. The branch of `eof`
  that waits for Content-Length bytes, and `parse_and_store_content_length` with it, cannot
  be reached.
* Of SQL: conversions of values, exceptions that are no `sql::error` (they are never
  retried), several databases on one thread (each has a session of its own), statements that are refused
  after having taken effect in part. The second attempt forwards the arguments again
  (`sql.tpp:181`, `228`, `274`), so that a string passed as a temporary would be bound empty
  then; every call in the repository passes its strings as lvalues.
* Of routing: how a regular expression matches (a pattern is the set of paths it does),
  methods other than GET, POST and OPTIONS, the set of allowed origins (allowed or not is an
  input), the rules of a validator one by one, an `MFA_URI` other than the default, an empty
  `API_KEY`. Of authentication: HMAC, base32 and base64, which are taken to work, and nonces.
* Of the REST client: an answer to the login that cannot be parsed (it throws and leaves
  the session, as any status but 200 does), TLS, the options of libcurl.
* Sockets and connections of more than one I/O worker: they share descriptor numbers but no
  table (`Server` has their threads, pools and metrics).
* JSON, logging and environment parsing: conversions without control. `aes_gcm.hpp`,
  `pkeyutil.cpp` and `proxy_encrypter.cpp`: conversions without state of their own; the
  Makefile builds the second only.

## Plan

Pool, I/O worker, process and metrics, request stream, SQL session, routing with
authentication, and the REST client are modelled, and their safety properties proved.
Next, in this order:

1. A refinement of `Server` by `IoWorker`: one I/O thread of the former is the latter with
   its sockets hidden.
2. Lemmas that say more of the operators than their properties need: that `Fields` depends
   on the order of parts of one name only, that `find_handler` is stable under patterns
   registered later.
3. Allowed origins and the rules of a validator as data of `AuthSession`.
