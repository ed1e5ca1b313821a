------------------------------- MODULE IoWorker -------------------------------
(***************************************************************************)
(* server::io_worker (server.cpp): one I/O thread with its epoll loop, its *)
(* connection table and timeout list, its response queue and eventfd, the  *)
(* thread pool that runs the handlers, the main thread that stops it, and  *)
(* the clients at the other end of the sockets.                            *)
(*                                                                         *)
(* Every call handle_epoll_event makes for one event is one action of the  *)
(* I/O thread, except where another thread can tell the difference: the    *)
(* accept loop, the eventfd read, the drain of the response queue, each    *)
(* response and the two reads of the drain loop's condition are steps of   *)
(* their own.  The pool appears as the TaskService that ThreadPool         *)
(* implements; a handler's push and its eventfd write are two steps.       *)
(*                                                                         *)
(* A request is Frags fragments long and complete when all have been read; *)
(* a response is Pieces pieces long and written as the socket takes them.  *)
(***************************************************************************)
EXTENDS Naturals, Sequences, FiniteSets

CONSTANTS
    Clients,      \* each opens one connection
    Fds,          \* descriptors left to client sockets (RLIMIT_NOFILE)
    MaxRequests,  \* bound: requests a client sends on its connection
    Frags,        \* reads a request may be spread over
    Pieces,       \* writes a response may be spread over
    QueueCapacity,\* QUEUE_CAPACITY, 0 = unbounded
    MaxClock,     \* bound on the clock, whose unit is the period of the timerfd
    ReadTimeout,  \* READ_TIMEOUT in this unit
    Hangups,      \* how clients may hang up, a subset of {"fin", "rst"}
    SlowClients,  \* clients whose receive window may be full
    AddMayFail,   \* whether epoll_ctl(ADD) may fail for an accepted socket
    TasksMayFail, \* whether a task may throw before it pushes its response
    NoClient, NoConn, NoReq

ASSUME IoAssumption ==
    /\ MaxRequests \in Nat /\ Frags \in Nat \ {0} /\ Pieces \in Nat \ {0}
    /\ QueueCapacity \in Nat
    /\ MaxClock \in Nat /\ ReadTimeout \in Nat
    /\ Hangups \subseteq {"fin", "rst"} /\ SlowClients \subseteq Clients
    /\ AddMayFail \in BOOLEAN /\ TasksMayFail \in BOOLEAN
    /\ IsFiniteSet(Clients) /\ IsFiniteSet(Fds)

Requests == Clients \X (1..MaxRequests)

\* connection_state: the connection's id, what its parser has read, whether the
\* parser has been moved away, the response being written and the position in it,
\* close_after_write, is_processing and last_activity.
ConnType ==
    [id : Nat, got : 0..Frags, moved : BOOLEAN, resp : Requests \cup {NoReq}, pos : 0..Pieces,
     caw : BOOLEAN, proc : BOOLEAN, last : Nat]

SpecialSources == {"listen", "timer", "eventfd"}

\* What stands for nothing, and the special descriptors, are told from the rest.
ASSUME ModelValuesAssumption ==
    /\ NoClient \notin Clients /\ NoReq \notin Requests /\ NoConn \notin ConnType
    /\ Fds \cap SpecialSources = {}

VARIABLES
    \* the network: clients and the kernel's side of their sockets
    peer,       \* peer[c]: state of client c's socket
    answers,    \* answers[c]: what was written to c's socket, as pieces of responses
    backlog,    \* clients waiting in the listen queue, oldest first
    sock,       \* sock[fd]: the client at the other end of descriptor fd
    reg,        \* reg[fd]: epoll registration, "none", "off" (one-shot fired), "in", "out"
    edge,       \* a connection has arrived since the listener was last reported
    now, tick,  \* the clock; the timerfd has expired and has not been read
    \* the I/O thread
    conns,      \* m_connections
    timeouts,   \* m_timeout_list; an entry's id tells its list node from others
    nextId,     \* m_next_connection_id
    gauge,      \* metrics: active connections
    io,         \* where the I/O thread is
    draining,   \* it is in drain_pending_responses
    batch,      \* events of the last epoll_wait still to be handled
    found,      \* response_batch: responses still to be handled
    \* shared with the workers and with the main thread
    respq,      \* m_response_queue
    event,      \* the eventfd's counter is not zero
    status, order, phase, \* the task service
    origin,     \* origin[r]: descriptor and connection id the task captured
    unsignalled,\* tasks that have pushed their response, not yet written the eventfd
    running,    \* server::m_running
    main,       \* where server::start and the destructor of io_worker are
    \* history
    inherited,  \* clients whose connection was handed an event of a former one
    halted,     \* the last accept loop ended at the descriptor limit
    failed      \* requests whose task threw before it pushed a response

netVars == <<peer, answers, backlog, sock, reg, edge>>
clockVars == <<now, tick>>
connVars == <<conns, timeouts, nextId, gauge>>
loopVars == <<io, draining, batch, found>>
poolVars == <<status, order, phase>>
taskVars == <<poolVars, origin, unsignalled>>
mainVars == <<running, main>>
ghostVars == <<inherited, halted, failed>>
vars == <<netVars, clockVars, connVars, loopVars, respq, event, taskVars, mainVars, ghostVars>>

Pool == INSTANCE TaskService WITH Tasks <- Requests, Capacity <- QueueCapacity

Open(fd) == conns[fd] # NoConn

\* A parser that has read nothing, and nothing to write: connection_state::reset.
Fresh(id) == [id |-> id, got |-> 0, moved |-> FALSE, resp |-> NoReq, pos |-> 0,
              caw |-> FALSE, proc |-> FALSE, last |-> now]

Init ==
    /\ peer = [c \in Clients |-> [st |-> "new", sent |-> 0, unread |-> 0,
                                  fin |-> FALSE, rst |-> FALSE, room |-> Pieces]]
    /\ answers = [c \in Clients |-> <<>>]
    /\ backlog = <<>> /\ edge = FALSE
    /\ sock = [fd \in Fds |-> NoClient]
    /\ reg = [fd \in Fds |-> "none"]
    /\ now = 0 /\ tick = FALSE
    /\ conns = [fd \in Fds |-> NoConn]
    /\ timeouts = <<>> /\ nextId = 0 /\ gauge = 0
    /\ io = "test" /\ draining = FALSE /\ batch = <<>> /\ found = <<>>
    /\ respq = <<>> /\ event = FALSE
    /\ Pool!ServiceInit
    /\ origin = [r \in Requests |-> NoReq] /\ unsignalled = {}
    /\ running = TRUE /\ main = "serving"
    /\ inherited = {} /\ halted = FALSE /\ failed = {}
-----------------------------------------------------------------------------
(* The environment: clients, time *)

othersThanPeer == <<answers, sock, reg, clockVars, connVars, loopVars, respq, event, taskVars,
                    mainVars, ghostVars>>

Connect(c) ==
    /\ peer[c].st = "new"
    /\ peer' = [peer EXCEPT ![c].st = "backlog"]
    /\ backlog' = Append(backlog, c)
    /\ edge' = TRUE
    /\ UNCHANGED othersThanPeer

Talking(c) == peer[c].st \in {"backlog", "open"} /\ ~peer[c].rst

\* The responses client c has received whole.
Received(c) == Len(answers[c]) \div Pieces

\* A client waits for the answer to a request before it sends the next one.
Send(c) ==
    /\ Talking(c) /\ ~peer[c].fin
    /\ peer[c].sent < Frags * MaxRequests
    /\ peer[c].sent < Frags * (Received(c) + 1)
    /\ peer' = [peer EXCEPT ![c].sent = @ + 1, ![c].unread = @ + 1]
    /\ UNCHANGED <<backlog, edge, othersThanPeer>>

HangUp(c) ==
    /\ Talking(c)
    /\ \/ "fin" \in Hangups /\ ~peer[c].fin /\ peer' = [peer EXCEPT ![c].fin = TRUE]
       \/ "rst" \in Hangups /\ peer' = [peer EXCEPT ![c].fin = TRUE, ![c].rst = TRUE]
    /\ UNCHANGED <<backlog, edge, othersThanPeer>>

\* The next response is larger than the window of a slow client: there is room
\* for some of its pieces only, until the client reads again.
Congest(c) ==
    /\ c \in SlowClients /\ peer[c].st = "open" /\ peer[c].room = Pieces
    /\ \A fd \in Fds : sock[fd] = c => conns[fd].resp = NoReq
    /\ \E n \in 0..(Pieces - 1) : peer' = [peer EXCEPT ![c].room = n]
    /\ UNCHANGED <<backlog, edge, othersThanPeer>>

Relieve(c) ==
    /\ peer[c].st = "open" /\ peer[c].room < Pieces
    /\ peer' = [peer EXCEPT ![c].room = Pieces]
    /\ UNCHANGED <<backlog, edge, othersThanPeer>>

\* The timerfd expires, once per unit of the clock.
Tick ==
    /\ now < MaxClock
    /\ now' = now + 1
    /\ tick' = TRUE
    /\ UNCHANGED <<netVars, connVars, loopVars, respq, event, taskVars, mainVars, ghostVars>>
-----------------------------------------------------------------------------
(* The handlers' effect on one connection.  They read and change only what   *)
(* belongs to its descriptor, kept in a record while the calls follow one    *)
(* another: conn and reg, whether the connection was touched, whether its    *)
(* socket was read, and what was written to it.                              *)

Here(fd) == [conn |-> conns[fd], reg |-> reg[fd], touched |-> FALSE, read |-> FALSE,
             wrote |-> <<>>]

\* close_connection
Closed(l) == [l EXCEPT !.conn = NoConn, !.reg = "none"]

\* modify_epoll
Rearm(l, for) == [l EXCEPT !.reg = for]

\* Bug: the activity is recorded but the connection keeps its place in the list.
TouchInPlace(l) == [l EXCEPT !.conn.last = now]

\* touch_connection
Touch(l) == [l EXCEPT !.conn.last = now, !.touched = TRUE]

\* write() takes n pieces: response::buffer and update_pos.
Write(l, n) == [l EXCEPT !.wrote = [i \in 1..n |-> <<l.conn.resp, l.conn.pos + i>>],
                         !.conn.pos = @ + n]

\* The whole response has gone out: close, or reset and read the next request.
Sent(l) == IF l.conn.caw THEN Closed(l)
           ELSE Rearm([l EXCEPT !.conn = Fresh(l.conn.id)], "in")

\* Bug: a write that would block is not resumed.
DoWriteForgetsRearm(l, p) ==
    IF l.conn.resp = NoReq THEN l
    ELSE LET rest == Pieces - l.conn.pos
         IN  CASE p.rst -> Closed(Touch(l))
               [] ~p.rst /\ p.room < rest -> Write(Touch(l), p.room)
               [] ~p.rst /\ p.room >= rest -> Sent(Write(Touch(l), rest))

\* Bug: a resumed write starts again at the first byte.
DoWriteFromStart(l, p) ==
    IF l.conn.resp = NoReq THEN l
    ELSE CASE p.rst -> Closed(Touch(l))
           [] ~p.rst /\ p.room < Pieces -> [Write(Touch(l), p.room) EXCEPT !.conn.pos = 0, !.reg = "out"]
           [] ~p.rst /\ p.room >= Pieces -> Sent(Write(Touch(l), Pieces))

\* do_write, on the socket p: it writes until nothing is left of the response or
\* the socket takes no more.
DoWrite(l, p) ==
    IF l.conn.resp = NoReq THEN l
    ELSE LET rest == Pieces - l.conn.pos
         IN  CASE p.rst -> Closed(Touch(l))
               [] ~p.rst /\ p.room < rest -> Rearm(Write(Touch(l), p.room), "out")
               [] ~p.rst /\ p.room >= rest -> Sent(Write(Touch(l), rest))

\* handle_socket_read: reads until the socket has nothing left. Closes on an
\* error, or at end of file if the request is not complete.
SocketRead(l, p) ==
    LET t == [Touch(l) EXCEPT !.conn.got = IF @ + p.unread > Frags THEN Frags ELSE @ + p.unread,
                              !.read = TRUE]
    IN  IF p.rst \/ (p.fin /\ t.conn.got < Frags) THEN Closed(t)
        ELSE [t EXCEPT !.conn.caw = @ \/ p.fin]

\* eof(): the read has left a whole request in the parser.
Complete(l) == IF l.conn = NoConn THEN FALSE ELSE l.conn.got = Frags

\* What handle_epoll_event does last for an event of a client socket.
Hangup(l, ev) ==
    IF l.conn = NoConn THEN l
    ELSE IF ev.hup THEN Closed(l)
    ELSE [l EXCEPT !.conn.caw = @ \/ ev.rdhup]

Node(fd) == [fd |-> fd, id |-> conns[fd].id]

\* The list without the node e: std::list::erase at the connection's iterator.
Without(e) ==
    LET i == CHOOSE k \in 1..Len(timeouts) : timeouts[k] = e
    IN  SubSeq(timeouts, 1, i - 1) \o SubSeq(timeouts, i + 1, Len(timeouts))

\* The list after the handlers ran: a closed connection's node is erased, a
\* touched one's is spliced to the end.
TimeoutsAfter(fd, l) ==
    IF l.conn = NoConn THEN Without(Node(fd))
    ELSE IF l.touched THEN Append(Without(Node(fd)), Node(fd)) ELSE timeouts

\* Bug: close_connection does not update the metric.
GaugeKept(l) == gauge

GaugeAfterClose(l) == IF l.conn = NoConn THEN gauge - 1 ELSE gauge

\* Assign what the handlers left in l to the variables of descriptor fd.
Commit(fd, l) ==
    LET c == sock[fd]
    IN  /\ conns' = [conns EXCEPT ![fd] = l.conn]
        /\ reg' = [reg EXCEPT ![fd] = l.reg]
        /\ timeouts' = TimeoutsAfter(fd, l)
        /\ gauge' = GaugeAfterClose(l)
        /\ sock' = IF l.conn = NoConn THEN [sock EXCEPT ![fd] = NoClient] ELSE sock
        /\ peer' = [peer EXCEPT ![c].unread = IF l.read THEN 0 ELSE @,
                                ![c].st = IF l.conn = NoConn THEN "closed" ELSE @,
                                ![c].room = IF @ = Pieces THEN @ ELSE @ - Len(l.wrote)]
        /\ answers' = [answers EXCEPT ![c] = @ \o l.wrote]
        /\ UNCHANGED <<backlog, edge, nextId>>
-----------------------------------------------------------------------------
(* The event loop *)

\* Goes back to the head of the current loop once the batch is handled.
AfterEvent(rest) ==
    /\ batch' = rest
    /\ io' = IF rest # <<>> THEN "event" ELSE IF draining THEN "tasks" ELSE "test"

othersThanLoop == <<netVars, clockVars, connVars, respq, event, taskVars, mainVars, ghostVars>>

\* while (m_running)
TestRunning ==
    /\ io = "test"
    /\ io' = IF running THEN "wait" ELSE "tasks"
    /\ draining' = ~running
    /\ UNCHANGED <<batch, found, othersThanLoop>>

Armed(fd) == reg[fd] \in {"in", "out"}

\* The event epoll reports for a client socket. A reset makes it readable,
\* writable and hung up.
FdEvent(fd) ==
    LET p == peer[sock[fd]]
    IN  [src |-> fd, of |-> sock[fd],
         in |-> reg[fd] = "in" /\ (p.unread > 0 \/ p.fin),
         out |-> reg[fd] = "out" /\ (p.room > 0 \/ p.rst),
         rdhup |-> p.fin, hup |-> p.rst]

ReadyFds == {fd \in Fds : Armed(fd) /\
                LET e == FdEvent(fd) IN e.in \/ e.out \/ e.rdhup \/ e.hup}

ReadyEvents ==
    {FdEvent(fd) : fd \in ReadyFds}
    \cup {[src |-> s] : s \in {x \in SpecialSources :
                \/ x = "listen" /\ edge /\ backlog # <<>>
                \/ x = "timer" /\ tick
                \/ x = "eventfd" /\ event}}

\* The orders in which a set may be reported: the ready list is in the order of
\* the wakeups.
Orders(S) == {f \in [1..Cardinality(S) -> S] : \A i, j \in DOMAIN f : f[i] = f[j] => i = j}

\* EPOLLONESHOT: a reported descriptor stays silent until it is rearmed.
Disarm == reg' = [fd \in Fds |-> IF fd \in ReadyFds THEN "off" ELSE reg[fd]]

\* epoll_wait reports everything that is ready. The drain loop's call returns
\* after 10 ms with nothing.
EpollWait ==
    /\ io = "wait"
    /\ draining \/ ReadyEvents # {}
    /\ \E b \in Orders(ReadyEvents) : AfterEvent(b)
    /\ Disarm
    /\ edge' = FALSE
    /\ UNCHANGED <<peer, answers, backlog, sock, clockVars, connVars, draining, found, respq,
                   event, taskVars, mainVars, ghostVars>>

Ev == Head(batch)
Handling(src) == io = "event" /\ ~draining /\ Ev.src = src

\* History: the event was reported for a former connection of its descriptor.
NoteInherited(fd) ==
    inherited' = IF sock[fd] # Ev.of THEN inherited \cup {sock[fd]} ELSE inherited
-----------------------------------------------------------------------------
(* on_connect *)

OnConnect ==
    /\ Handling("listen")
    /\ io' = "accept"
    /\ UNCHANGED <<draining, batch, found, othersThanLoop>>

FreeFds == {fd \in Fds : sock[fd] = NoClient}

\* One turn of the accept loop that accepts a client. If epoll_ctl(ADD) fails,
\* the socket is closed and the connection erased, but not its list node.
Accept ==
    /\ io = "accept" /\ backlog # <<>>
    /\ \E fd \in FreeFds :
         LET c == Head(backlog)
         IN  /\ timeouts' = Append(timeouts, [fd |-> fd, id |-> nextId + 1])
             /\ \/ /\ conns' = [conns EXCEPT ![fd] = Fresh(nextId + 1)]
                   /\ reg' = [reg EXCEPT ![fd] = "in"]
                   /\ sock' = [sock EXCEPT ![fd] = c]
                   /\ peer' = [peer EXCEPT ![c].st = "open"]
                   /\ gauge' = gauge + 1
                \/ /\ AddMayFail
                   /\ peer' = [peer EXCEPT ![c].st = "closed"]
                   /\ UNCHANGED <<conns, reg, sock, gauge>>
    /\ backlog' = Tail(backlog)
    /\ nextId' = nextId + 1
    /\ UNCHANGED <<answers, edge, clockVars, loopVars, respq, event, taskVars, mainVars, ghostVars>>

\* Bug: one client is accepted for each event.
AcceptEndsEarly ==
    /\ io = "accept"
    /\ halted' = FALSE
    /\ AfterEvent(Tail(batch))
    /\ UNCHANGED <<draining, found, netVars, clockVars, connVars, respq, event, taskVars,
                   mainVars, inherited, failed>>

\* accept4 fails with EAGAIN, or with EMFILE although clients are waiting.
AcceptEnds ==
    /\ io = "accept" /\ (backlog = <<>> \/ FreeFds = {})
    /\ halted' = (backlog # <<>>)
    /\ AfterEvent(Tail(batch))
    /\ UNCHANGED <<draining, found, netVars, clockVars, connVars, respq, event, taskVars,
                   mainVars, inherited, failed>>
-----------------------------------------------------------------------------
(* on_timer_tick and check_timeouts *)

GaugeAfterTimeouts(closed) == gauge - Cardinality(closed)

\* The list is walked from the front up to the first connection that is neither
\* processing a request nor idle for too long.
InTime(e) == Open(e.fd) /\ ~conns[e.fd].proc /\ now - conns[e.fd].last <= ReadTimeout
Walked == {i \in 1..Len(timeouts) : \A j \in 1..i : ~InTime(timeouts[j])}
Expired == {fd \in Fds : Open(fd) /\ ~conns[fd].proc /\ \E i \in Walked : timeouts[i].fd = fd}

\* The entries of the list that the walk leaves in it, in their order.
Left == {i \in 1..Len(timeouts) :
            i \in Walked => Open(timeouts[i].fd) /\ timeouts[i].fd \notin Expired}
LeaveOnly(kept) ==
    LET n == Cardinality(kept)
    IN  \E f \in [1..n -> kept] :
            /\ \A i, j \in 1..n : i < j => f[i] < f[j]
            /\ timeouts' = [i \in 1..n |-> timeouts[f[i]]]

OnTimerTick ==
    /\ Handling("timer")
    /\ tick' = FALSE
    /\ LeaveOnly(Left)
    /\ conns' = [fd \in Fds |-> IF fd \in Expired THEN NoConn ELSE conns[fd]]
    /\ reg' = [fd \in Fds |-> IF fd \in Expired THEN "none" ELSE reg[fd]]
    /\ sock' = [fd \in Fds |-> IF fd \in Expired THEN NoClient ELSE sock[fd]]
    /\ peer' = [c \in Clients |-> IF \E fd \in Expired : sock[fd] = c
                                  THEN [peer[c] EXCEPT !.st = "closed"] ELSE peer[c]]
    /\ gauge' = GaugeAfterTimeouts(Expired)
    /\ AfterEvent(Tail(batch))
    /\ UNCHANGED <<answers, backlog, edge, now, nextId, draining, found, respq, event, taskVars,
                   mainVars, ghostVars>>
-----------------------------------------------------------------------------
(* Events of a client socket *)

\* An event for a descriptor that has no connection any more.
UnknownFd ==
    /\ io = "event" /\ Ev.src \in Fds /\ ~Open(Ev.src)
    /\ AfterEvent(Tail(batch))
    /\ UNCHANGED <<draining, found, othersThanLoop>>

\* on_read finds the parser moved into a request: get_buffer dereferences a null
\* pointer and the process dies.
ReadMovedParser ==
    /\ io = "event" /\ ~draining /\ Ev.src \in Fds /\ Open(Ev.src)
    /\ Ev.in /\ conns[Ev.src].moved
    /\ io' = "crashed"
    /\ UNCHANGED <<draining, batch, found, othersThanLoop>>

\* on_read and what follows, when no request is complete.
OnRead ==
    /\ io = "event" /\ ~draining /\ Ev.src \in Fds /\ Open(Ev.src)
    /\ Ev.in /\ ~conns[Ev.src].moved
    /\ LET l == SocketRead(Here(Ev.src), peer[sock[Ev.src]])
           r == IF l.conn = NoConn THEN l ELSE Rearm(l, "in")
       IN  /\ ~Complete(l)
           /\ Commit(Ev.src, Hangup(r, Ev))
    /\ NoteInherited(Ev.src)
    /\ AfterEvent(Tail(batch))
    /\ UNCHANGED <<clockVars, draining, found, respq, event, taskVars, mainVars, halted, failed>>

\* The buffer of the parser cannot hold what the client has sent: update_pos
\* throws, and the connection is closed.
ReadTooLarge ==
    /\ io = "event" /\ ~draining /\ Ev.src \in Fds /\ Open(Ev.src)
    /\ Ev.in /\ ~conns[Ev.src].moved
    /\ peer[sock[Ev.src]].unread > 0
    /\ Commit(Ev.src, Closed(Touch(Here(Ev.src))))
    /\ NoteInherited(Ev.src)
    /\ AfterEvent(Tail(batch))
    /\ UNCHANGED <<clockVars, draining, found, respq, event, taskVars, mainVars, halted, failed>>

\* Bug: the connection of a dispatched request is not marked as processing.
MarkNothing(l) == [l EXCEPT !.conn.moved = TRUE]

\* Bug: the connection is rearmed while its request is in flight.
MarkAndRearm(l) == [l EXCEPT !.conn.moved = TRUE, !.conn.proc = TRUE, !.reg = "in"]

MarkProcessing(l) == [l EXCEPT !.conn.moved = TRUE, !.conn.proc = TRUE]

\* process_request and route_parsed_request, for a connection whose request r is
\* complete. The response goes to the queue, and the eventfd is written, unless
\* the request goes to the pool.
Respond(fd, r) ==
    /\ respq' = Append(respq, [fd |-> fd, id |-> conns[fd].id, req |-> r])
    /\ event' = TRUE

OnRequest ==
    /\ io = "event" /\ ~draining /\ Ev.src \in Fds /\ Open(Ev.src)
    /\ Ev.in /\ ~conns[Ev.src].moved
    /\ LET fd == Ev.src
           c == sock[fd]
           r == <<c, peer[c].sent \div Frags>>
           l == SocketRead(Here(fd), peer[c])
       IN  /\ Complete(l)
           \* finalize fails: 400. The parser stays, and stays complete.
           /\ \/ /\ Commit(fd, Hangup([l EXCEPT !.conn.caw = TRUE], Ev))
                 /\ Respond(fd, r)
                 /\ UNCHANGED taskVars
              \* CORS refusal, OPTIONS, internal API, 404: answered here.
              \/ /\ conns[fd].got < Frags
                 /\ Commit(fd, Hangup([l EXCEPT !.conn.moved = TRUE], Ev))
                 /\ Respond(fd, r)
                 /\ UNCHANGED taskVars
              \* dispatch_to_worker, the queue is full: 503.
              \/ /\ conns[fd].got < Frags
                 /\ Commit(fd, Hangup(MarkProcessing(l), Ev))
                 /\ Pool!Refuse(r)
                 /\ Respond(fd, r)
                 /\ UNCHANGED <<origin, unsignalled>>
              \* dispatch_to_worker: the task captures fd and connection id.
              \/ /\ conns[fd].got < Frags
                 /\ Commit(fd, Hangup(MarkProcessing(l), Ev))
                 /\ Pool!Accept(r)
                 /\ origin' = [origin EXCEPT ![r] = Node(fd)]
                 /\ UNCHANGED <<respq, event, unsignalled>>
    /\ NoteInherited(Ev.src)
    /\ AfterEvent(Tail(batch))
    /\ UNCHANGED <<clockVars, draining, found, mainVars, halted, failed>>

\* on_write, or an event that reports a hangup alone.
OnWrite ==
    /\ io = "event" /\ ~draining /\ Ev.src \in Fds /\ Open(Ev.src)
    /\ ~Ev.in
    /\ LET fd == Ev.src
           l == IF Ev.out THEN DoWrite(Here(fd), peer[sock[fd]]) ELSE Here(fd)
       IN  Commit(fd, Hangup(l, Ev))
    /\ NoteInherited(Ev.src)
    /\ AfterEvent(Tail(batch))
    /\ UNCHANGED <<clockVars, draining, found, respq, event, taskVars, mainVars, halted, failed>>
-----------------------------------------------------------------------------
(* on_response_ready and process_response_queue *)

ReadEventFd ==
    /\ Handling("eventfd")
    /\ io' = "collect"
    /\ event' = FALSE
    /\ UNCHANGED <<draining, batch, found, netVars, clockVars, connVars, respq, taskVars,
                   mainVars, ghostVars>>

\* drain_to
Collect ==
    /\ io = "collect"
    /\ io' = "answer"
    /\ found' = respq /\ respq' = <<>>
    /\ UNCHANGED <<draining, batch, netVars, clockVars, connVars, event, taskVars, mainVars,
                   ghostVars>>

\* Bug: a response is matched with its connection by descriptor alone.
BelongsToFd(item) == Open(item.fd)

Belongs(item) == Open(item.fd) /\ conns[item.fd].id = item.id

\* Bug: the connection stays marked as processing.
AnswerKeepsMark ==
    /\ io = "answer" /\ found # <<>>
    /\ LET item == Head(found)
           l == [Here(item.fd) EXCEPT !.conn.resp = item.req, !.conn.pos = 0]
       IN  IF Belongs(item)
             THEN Commit(item.fd, DoWrite(l, peer[sock[item.fd]]))
             ELSE UNCHANGED <<netVars, connVars>>
    /\ found' = Tail(found)
    /\ UNCHANGED <<io, draining, batch, clockVars, respq, event, taskVars, mainVars, ghostVars>>

Answer ==
    /\ io = "answer" /\ found # <<>>
    /\ LET item == Head(found)
           l == [Here(item.fd) EXCEPT !.conn.proc = FALSE, !.conn.resp = item.req, !.conn.pos = 0]
       IN  IF Belongs(item)
             THEN Commit(item.fd, DoWrite(l, peer[sock[item.fd]]))
             ELSE UNCHANGED <<netVars, connVars>>
    /\ found' = Tail(found)
    /\ UNCHANGED <<io, draining, batch, clockVars, respq, event, taskVars, mainVars, ghostVars>>

\* Bug: the eventfd is read after the queue has been drained.
AnsweredThenRead ==
    /\ io = "answer" /\ found = <<>>
    /\ event' = FALSE
    /\ IF draining THEN io' = "wait" /\ UNCHANGED batch ELSE AfterEvent(Tail(batch))
    /\ UNCHANGED <<draining, found, netVars, clockVars, connVars, respq, taskVars, mainVars, ghostVars>>

\* Back to the caller: handle_epoll_event, or the drain loop.
Answered ==
    /\ io = "answer" /\ found = <<>>
    /\ IF draining THEN io' = "wait" /\ UNCHANGED batch ELSE AfterEvent(Tail(batch))
    /\ UNCHANGED <<draining, found, othersThanLoop>>
-----------------------------------------------------------------------------
(* drain_pending_responses *)

\* Bug: the loop goes on while there is any connection.
DrainUntilNoConnection ==
    /\ io = "tasks"
    /\ io' = IF Pool!UnfinishedTasks # {} \/ (\E fd \in Fds : Open(fd)) THEN "collect" ELSE "queue"
    /\ UNCHANGED <<draining, batch, found, othersThanLoop>>

\* Bug: the loop looks at the length of the task queue only.
DrainCountsQueued ==
    /\ io = "tasks"
    /\ io' = IF order # <<>> THEN "collect" ELSE "queue"
    /\ UNCHANGED <<draining, batch, found, othersThanLoop>>

\* The loop's condition: first the tasks ...
DrainTasks ==
    /\ io = "tasks"
    /\ io' = IF Pool!UnfinishedTasks # {} THEN "collect" ELSE "queue"
    /\ UNCHANGED <<draining, batch, found, othersThanLoop>>

\* ... then the responses.
DrainQueue ==
    /\ io = "queue"
    /\ io' = IF respq # <<>> THEN "collect" ELSE "done"
    /\ UNCHANGED <<draining, batch, found, othersThanLoop>>

\* The loop serves no special descriptor and no new request.
DrainSpecial ==
    /\ io = "event" /\ draining /\ Ev.src \notin Fds
    /\ AfterEvent(Tail(batch))
    /\ UNCHANGED <<draining, found, othersThanLoop>>

DrainEvent ==
    /\ io = "event" /\ draining /\ Ev.src \in Fds /\ Open(Ev.src)
    /\ LET fd == Ev.src
           l == IF Ev.out THEN DoWrite(Here(fd), peer[sock[fd]]) ELSE Here(fd)
       IN  Commit(fd, Hangup(l, [Ev EXCEPT !.hup = @ \/ Ev.in]))
    /\ NoteInherited(Ev.src)
    /\ AfterEvent(Tail(batch))
    /\ UNCHANGED <<clockVars, draining, found, respq, event, taskVars, mainVars, halted, failed>>
-----------------------------------------------------------------------------
(* The workers: the task dispatch_to_worker pushed *)

othersThanTasks == <<netVars, clockVars, connVars, loopVars, mainVars, ghostVars>>

WorkerStart ==
    /\ Pool!Start
    /\ UNCHANGED <<respq, event, origin, unsignalled, othersThanTasks>>

\* execute_handler has set the response, whatever the handler threw.
WorkerPush(r) ==
    /\ status[r] = "running" /\ r \notin unsignalled
    /\ respq' = Append(respq, [fd |-> origin[r].fd, id |-> origin[r].id, req |-> r])
    /\ unsignalled' = unsignalled \cup {r}
    /\ UNCHANGED <<event, poolVars, origin, othersThanTasks>>

WorkerSignal(r) ==
    /\ r \in unsignalled
    /\ event' = TRUE
    /\ unsignalled' = unsignalled \ {r}
    /\ Pool!Finish(r)
    /\ UNCHANGED <<respq, origin, othersThanTasks>>

\* The task throws: building the response, or in a catch block of
\* execute_handler. worker_loop catches it; nothing is pushed.
WorkerThrows(r) ==
    /\ TasksMayFail
    /\ status[r] = "running" /\ r \notin unsignalled
    /\ failed' = failed \cup {r}
    /\ Pool!Finish(r)
    /\ UNCHANGED <<respq, event, origin, unsignalled, netVars, clockVars, connVars, loopVars,
                   mainVars, inherited, halted>>

WorkerSettle(r) ==
    /\ Pool!Settle(r)
    /\ UNCHANGED <<respq, event, origin, unsignalled, othersThanTasks>>
-----------------------------------------------------------------------------
(* The main thread: server::start after the signal, then the destructors *)

othersThanMain == <<netVars, clockVars, connVars, loopVars, respq, origin, unsignalled, ghostVars>>

StopRunning ==
    /\ main = "serving"
    /\ running' = FALSE /\ main' = "flagged"
    /\ UNCHANGED <<event, poolVars, othersThanMain>>

StopResponseQueue ==
    /\ main = "flagged"
    /\ event' = TRUE /\ main' = "joining"
    /\ UNCHANGED <<running, poolVars, othersThanMain>>

\* The I/O thread is joined; ~io_worker closes the eventfd and stops the pool.
CloseDescriptors ==
    /\ main = "joining" /\ io = "done"
    /\ main' = "closing"
    /\ Pool!Close
    /\ UNCHANGED <<event, running, othersThanMain>>

StopPool ==
    /\ main = "closing"
    /\ Pool!GoDown
    /\ main' = "destroyed"
    /\ UNCHANGED <<event, running, othersThanMain>>

\* All threads have ended, or the process has died.
Terminated ==
    /\ main = "destroyed" \/ io = "crashed"
    /\ UNCHANGED vars
-----------------------------------------------------------------------------
Alive == io # "crashed"

ClientStep(c) ==
    /\ Alive
    /\ Connect(c) \/ Send(c) \/ HangUp(c) \/ Congest(c) \/ Relieve(c)

IoStep ==
    \/ TestRunning \/ EpollWait
    \/ OnConnect \/ Accept \/ AcceptEnds \/ OnTimerTick
    \/ UnknownFd \/ ReadMovedParser \/ OnRead \/ ReadTooLarge \/ OnRequest \/ OnWrite
    \/ ReadEventFd \/ Collect \/ Answer \/ Answered
    \/ DrainTasks \/ DrainQueue \/ DrainSpecial \/ DrainEvent

WorkerStep(r) == Alive /\ (WorkerPush(r) \/ WorkerSignal(r) \/ WorkerThrows(r) \/ WorkerSettle(r))

MainStep == Alive /\ (StopResponseQueue \/ CloseDescriptors \/ StopPool)

Next ==
    \/ \E c \in Clients : ClientStep(c)
    \/ Alive /\ Tick
    \/ IoStep
    \/ Alive /\ WorkerStart
    \/ \E r \in Requests : WorkerStep(r)
    \/ Alive /\ StopRunning
    \/ MainStep
    \/ Terminated

Safety == Init /\ [][Next]_vars

\* The threads of the server run whenever they can, the handlers return, and a
\* client whose window is full reads in the end. Clients and the operator who
\* sends the signal owe nothing.
Fairness ==
    /\ WF_vars(IoStep) /\ WF_vars(Alive /\ WorkerStart) /\ WF_vars(MainStep)
    /\ \A r \in Requests : WF_vars(WorkerStep(r))
    /\ \A c \in Clients : WF_vars(Alive /\ Relieve(c))

Spec == Safety /\ Fairness
-----------------------------------------------------------------------------
(* What must hold *)

IoPlaces == {"test", "wait", "event", "accept", "collect", "answer", "tasks", "queue", "done",
             "crashed"}

Items == [fd : Fds, id : Nat, req : Requests]

\* Every variable has its type; the connection counter m_next_connection_id
\* counts accepts, and the metric of active connections never leaves the range
\* the table of connections allows.
TypeOK ==
    /\ DOMAIN peer = Clients /\ DOMAIN answers = Clients
    /\ \A c \in Clients : peer[c].st \in {"new", "backlog", "open", "closed"}
                          /\ peer[c].room \in 0..Pieces
                          /\ answers[c] \in Seq(Requests \X (1..Pieces))
    /\ backlog \in Seq(Clients) /\ sock \in [Fds -> Clients \cup {NoClient}]
    /\ reg \in [Fds -> {"none", "off", "in", "out"}]
    /\ now \in 0..MaxClock /\ {tick, edge, draining, event, running, halted} \subseteq BOOLEAN
    /\ conns \in [Fds -> ConnType \cup {NoConn}]
    /\ timeouts \in Seq([fd : Fds, id : Nat])
    /\ nextId \in 0..Cardinality(Clients) /\ gauge \in 0..Cardinality(Fds)
    /\ io \in IoPlaces
    /\ respq \in Seq(Items) /\ found \in Seq(Items)
    /\ unsignalled \cup failed \subseteq Requests /\ inherited \subseteq Clients
    /\ main \in {"serving", "flagged", "joining", "closing", "destroyed"}

\* The connection table agrees with the kernel and with the metric: a descriptor
\* has a connection exactly while it is a socket registered with epoll, no two
\* connections have the same id, and the gauge of active connections counts the
\* table, whichever of the closing paths a connection took.
ConnectionTable ==
    /\ \A fd \in Fds : /\ Open(fd) <=> sock[fd] # NoClient
                       /\ Open(fd) <=> reg[fd] # "none"
                       /\ Open(fd) => conns[fd].id <= nextId /\ peer[sock[fd]].st = "open"
    /\ \A f, g \in Fds : Open(f) /\ Open(g) /\ conns[f].id = conns[g].id => f = g
    /\ gauge = Cardinality({fd \in Fds : Open(fd)})

\* What a client receives is the response to what it asked first, then the
\* response to what it asked next, each once and from its first piece on without
\* a gap: never bytes of a response made for a connection that had the descriptor
\* before (the id check of process_response_queue), and never one response in the
\* middle of another, in however many writes it goes out. One case escapes: a slow
\* client whose connection was handed an event of its descriptor's former owner
\* can be refused twice, and the second 400 starts where the first was cut off.
AnswersInOrder ==
    \A c \in Clients \ (inherited \cap SlowClients) :
        /\ Frags * Len(answers[c]) <= Pieces * peer[c].sent
        /\ \A i \in 1..Len(answers[c]) :
               answers[c][i] = << <<c, ((i - 1) \div Pieces) + 1>>, ((i - 1) % Pieces) + 1 >>

\* The tasks still to push a response to the connection of fd.
TasksFor(fd) == {r \in Requests :
    status[r] \in {"pending", "late", "running"} /\ r \notin unsignalled /\ origin[r] = Node(fd)}

\* The responses for it that are in the queue, as their places in it.
QueuedFor(fd) == {i \in 1..Len(found \o respq) :
    LET item == (found \o respq)[i] IN item.fd = fd /\ item.id = conns[fd].id}

\* EPOLLONESHOT is what keeps a connection to one request at a time: while its
\* parser has been moved into a request the socket is not armed for reading, and
\* at most one response is being made, queued or written for it. Only a
\* connection that was handed an event of its descriptor's former owner can
\* escape this, and end in a read into the moved parser.
OneShotShield ==
    /\ \A fd \in Fds : Open(fd) /\ sock[fd] \notin inherited =>
           /\ conns[fd].moved => reg[fd] # "in"
           /\ Cardinality(TasksFor(fd)) + Cardinality(QueuedFor(fd))
                  + (IF conns[fd].resp = NoReq THEN 0 ELSE 1) <= 1
    /\ io = "crashed" => sock[Ev.src] \in inherited

\* The connections whose task threw.
FailedNodes == {origin[r] : r \in failed}

\* Whatever disarms a socket, something is left that will arm it again or close
\* it: an event still to be handled or a response on its way. Two cases escape.
\* The client shuts down its sending side while a response waits for room to be
\* written: the RDHUP event uses up the one shot and nothing writes the rest. Or
\* the task threw: nobody answers, closes or listens to the connection any more.
NeverDeaf ==
    \A fd \in Fds :
        Open(fd) /\ reg[fd] = "off" /\ sock[fd] \notin inherited =>
            \/ Node(fd) \in FailedNodes
            \/ \E i \in 1..Len(batch) : batch[i].src = fd
            \/ TasksFor(fd) # {} \/ QueuedFor(fd) # {}
            \/ conns[fd].resp # NoReq /\ peer[sock[fd]].fin

\* The exemption from the read timeout lasts as long as the work it is for: a
\* connection marked as processing has a task that will push its response, or a
\* response on its way, in both of which the mark is taken back. A task that
\* threw leaves it for ever: check_timeouts will never close that connection.
ExemptionEnds ==
    \A fd \in Fds :
        Open(fd) /\ conns[fd].proc =>
            TasksFor(fd) # {} \/ QueuedFor(fd) # {} \/ Node(fd) \in FailedNodes

\* A response in the queue is never overlooked: the eventfd is readable, or the
\* worker has still to write it, or the I/O thread is about to drain the queue.
\* It depends on on_response_ready reading the eventfd before it drains.
NoUnseenResponse ==
    respq # <<>> => event \/ unsignalled # {} \/ draining \/ io = "collect"

\* The edge-triggered listener is never left with clients nobody will accept,
\* unless accept4 stopped at the descriptor limit or the server is stopping.
NoForgottenBacklog ==
    io \in {"test", "wait"} /\ ~draining /\ backlog # <<>> => edge \/ halted

\* When the drain loop ends there is nothing left that it should have waited
\* for: no accepted task is unfinished, no response is queued, and no worker is
\* about to write the eventfd that the destructor closes next.
DrainComplete ==
    io = "done" =>
        /\ Pool!UnfinishedTasks = {} /\ unsignalled = {}
        /\ respq = <<>> /\ found = <<>>

\* What the drain delivers: when its loop ends, nothing it should have waited for
\* is left, and each request the pool accepted has been answered whole, unless its
\* connection was closed or its task threw. Only a client that does not take its
\* response at once may be left with a part of it: no loop waits for the sockets.
DrainDelivers ==
    io = "done" =>
        /\ DrainComplete
        /\ \A r \in Requests : status[r] \notin {"new", "refused"} /\ r \notin failed =>
               \/ r[2] <= Received(r[1])
               \/ peer[r[1]].st = "closed"
               \/ r[1] \in SlowClients /\ \E fd \in Fds : sock[fd] = r[1] /\ conns[fd].resp = r

\* A process that has been asked to stop does stop, whatever its clients do.
ShutdownEnds == main = "flagged" ~> main = "destroyed"

\* A whole request of a connected client is answered, unless the client hangs up,
\* the connection is closed, the server is told to stop first or the task throws.
RequestAnswered ==
    \A c \in Clients :
        peer[c].st = "open" /\ peer[c].sent = Frags * (Received(c) + 1)
            ~> \/ peer[c].sent < Frags * (Received(c) + 1)
               \/ <<c, Received(c) + 1>> \in failed
               \/ peer[c].fin \/ peer[c].st = "closed" \/ ~running

\* Entry i of m_timeout_list is the node of an open connection. A registration
\* that failed leaves an entry which is not.
Current(i) == Open(timeouts[i].fd) /\ timeouts[i] = Node(timeouts[i].fd)

\* m_timeout_list holds each connection once, least recently active first: what
\* check_timeouts assumes when it stops at the first connection that is in time.
\* It holds nothing else, unless a registration with epoll has failed.
TimeoutListExact ==
    /\ \A fd \in Fds : Open(fd) => \E i \in 1..Len(timeouts) : timeouts[i] = Node(fd)
    /\ \A i \in 1..Len(timeouts) : AddMayFail \/ Current(i)
    /\ \A i, j \in 1..Len(timeouts) : i < j /\ Current(i) /\ Current(j) =>
           timeouts[i] # timeouts[j] /\ conns[timeouts[i].fd].last <= conns[timeouts[j].fd].last

\* A tick of the timer closes every connection that has been idle for longer
\* than READ_TIMEOUT and is not processing a request, wherever it is in the list.
\* The entry a failed registration leaves can make the walk end too early: it
\* passes for the connection that has the descriptor now.
IdleReaped ==
    [][OnTimerTick /\ (\A i \in 1..Len(timeouts) : Current(i)) =>
          \A fd \in Fds : conns'[fd] # NoConn =>
              conns'[fd].proc \/ now - conns'[fd].last <= ReadTimeout]_vars

\* A tick never closes a connection whose handler is executing or waiting for a
\* worker, however long that takes ("Exemption" in check_timeouts).
ExecutingKept ==
    [][OnTimerTick =>
          \A fd \in Fds : Open(fd) /\ TasksFor(fd) # {} => conns'[fd] = conns[fd]]_vars

\* What "Memory safety" (readme.md) promises here: the I/O thread never reads
\* from a socket into a parser that has been moved away.
NoMovedParserRead == io # "crashed"
-----------------------------------------------------------------------------
(* The refinement: what clients see of an I/O worker *)

\* What clients can tell of where the I/O thread is.
ServicePhase ==
    CASE io = "crashed" -> "dead"
      [] io = "done" -> "stopped"
      [] io \notin {"crashed", "done"} -> IF draining THEN "draining" ELSE "serving"

\* Of a slow client that was handed another's event no answers are shown.
Service == INSTANCE HttpService WITH
    Places <- Cardinality(Fds), Slow <- SlowClients,
    link <- [c \in Clients |-> peer[c].st], line <- backlog,
    sent <- [c \in Clients |-> peer[c].sent],
    reset <- {c \in Clients : peer[c].rst},
    answers <- [c \in Clients |-> IF c \in inherited \cap SlowClients THEN <<>> ELSE answers[c]],
    accepted <- {r \in Requests : status[r] \notin {"new", "refused"}},
    thrown <- failed, disturbed <- inherited, phase <- ServicePhase

\* The I/O worker keeps the promises of HttpService: it admits its clients in
\* order and within its descriptors; each receives the responses to its requests,
\* whole, in order and nothing else, and never anything once it is closed; none
\* is left with an accepted request unanswered that has not reset the connection;
\* and when the worker stops, every accepted request has been answered. Slow and
\* disturbed clients, and tasks that throw, are what HttpService excepts.
ImplementsHttpService == Service!ServiceSafety
=============================================================================
