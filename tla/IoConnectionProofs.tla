--------------------------- MODULE IoConnectionProofs ---------------------------
(***************************************************************************)
(* Proofs about the life of one connection in IoWorker: that its request   *)
(* is in one place at a time, that EPOLLONESHOT keeps a second one out,    *)
(* that something will arm or close it again, that the timeout list orders *)
(* connections as check_timeouts assumes, and that its client receives its *)
(* responses in order and, before the server stops, all of them. Last, and *)
(* from all of this, that the I/O worker implements HttpService.           *)
(***************************************************************************)
EXTENDS IoWorkerProofs

\* A response in the queue was made for a connection that has been accepted; a
\* task that threw has ended; a reset is also an end of file.
PastInv ==
    /\ \A i \in 1..Len(found \o respq) : (found \o respq)[i].id <= nextId
    /\ \A r \in failed : status[r] \in {"ran", "done"}
    /\ \A c \in Clients : peer[c].rst => peer[c].fin

InFlight(fd) == TasksFor(fd) # {} \/ QueuedFor(fd) # {} \/ conns[fd].resp # NoReq

\* A task, a queued response or a response being written, but one of the three.
AtMostOne(fd) ==
    /\ \A r, s \in TasksFor(fd) : r = s
    /\ \A i, j \in QueuedFor(fd) : i = j
    /\ TasksFor(fd) # {} => QueuedFor(fd) = {} /\ conns[fd].resp = NoReq
    /\ QueuedFor(fd) # {} => conns[fd].resp = NoReq

\* What is in flight belongs to a request that has been read whole. Only requests
\* that finalize refused leave the parser in place, and they close the connection.
BusyInv ==
    \A fd \in Fds : Open(fd) =>
        /\ InFlight(fd) => conns[fd].got = Frags /\ (conns[fd].moved \/ conns[fd].caw)
        /\ conns[fd].moved => AtMostOne(fd)
        /\ TasksFor(fd) # {} => conns[fd].moved /\ conns[fd].proc

\* Ready for the next request, or for the rest of it.
Idle(fd) == conns[fd].got < Frags /\ ~conns[fd].moved

\* The events in hand: one for each source, for clients that have been accepted.
BatchInv ==
    /\ \A i, j \in 1..Len(batch) : batch[i].src = batch[j].src => i = j
    /\ \A i \in 1..Len(batch) : batch[i].src \in Fds =>
           /\ batch[i].of \in Accepted
           /\ batch[i].in \/ batch[i].out \/ batch[i].rdhup \/ batch[i].hup
           /\ batch[i].rdhup \/ batch[i].hup => peer[batch[i].of].fin
    /\ batch # <<>> /\ io \notin {"event", "crashed"} => Ev.src \notin Fds

\* An event of fd's own connection found it silent, and idle or writing. One of
\* its descriptor's former owner finds it as it was accepted.
EventFits(fd, e) ==
    IF e.of = sock[fd]
      THEN /\ reg[fd] = "off"
           /\ e.in => Idle(fd)
           /\ ~e.in => conns[fd].resp # NoReq
      ELSE reg[fd] = "in"

\* The one-shot discipline, for connections that were handed their own events only.
ShieldInv ==
    \A fd \in Fds : Open(fd) /\ sock[fd] \notin inherited =>
        /\ AtMostOne(fd)
        /\ reg[fd] = "in" => Idle(fd)
        /\ reg[fd] = "out" => conns[fd].resp # NoReq
        /\ \A i \in 1..Len(batch) : batch[i].src = fd => EventFits(fd, batch[i])

\* The timeout list holds no node twice, ids that have been given out, and the
\* nodes of open connections in the order of their last activity.
ListInv ==
    /\ \A i \in 1..Len(timeouts) : timeouts[i].id <= nextId /\ (AddMayFail \/ Current(i))
    /\ \A i, j \in 1..Len(timeouts) : i < j =>
           /\ timeouts[i] # timeouts[j]
           /\ Current(i) /\ Current(j) => conns[timeouts[i].fd].last <= conns[timeouts[j].fd].last
-----------------------------------------------------------------------------
(* What a step does to the connection of one descriptor *)

Kept(fd) == Open(fd) /\ conns'[fd] = conns[fd] /\ sock'[fd] = sock[fd] /\ reg'[fd] = reg[fd]
Silenced(fd) ==
    /\ EpollWait /\ fd \in ReadyFds /\ Open(fd)
    /\ conns'[fd] = conns[fd] /\ sock'[fd] = sock[fd] /\ reg'[fd] = "off"
NewConn(fd) ==
    /\ Accept /\ backlog # <<>> /\ ~Open(fd) /\ nextId' = nextId + 1
    /\ conns'[fd] = Fresh(nextId + 1) /\ sock'[fd] = Head(backlog) /\ reg'[fd] = "in"
HandledBy(fd, l) ==
    /\ Handler /\ HandlerFor(fd, l) /\ Handled(fd, l) /\ Commit(fd, l) /\ l.conn # NoConn
    /\ conns'[fd] = l.conn /\ sock'[fd] = sock[fd] /\ reg'[fd] = l.reg

\* A step but for those of the handlers, on a connection that stays open.
LEMMA OtherCases ==
    ASSUME CoreInv, [Next]_vars, ~Handler, NEW fd \in Fds, Open(fd)'
    PROVE  Kept(fd) \/ Silenced(fd) \/ NewConn(fd)
<1> USE DEF CoreInv
<1>1. ASSUME UNCHANGED <<conns, sock, reg>> PROVE Kept(fd)
  BY <1>1 DEF Kept, Open
<1>2. CASE \E c \in Clients : ClientStep(c)
  BY <1>1, <1>2 DEF ClientStep, Connect, Send, HangUp, Congest, Relieve, othersThanPeer, connVars
<1>3. CASE Tick
  BY <1>1, <1>3 DEF Tick, netVars, connVars
<1>4. CASE EpollWait
  BY <1>4 DEF EpollWait, Disarm, connVars, Kept, Silenced, Open, NetTypes
<1>5. CASE Accept
  <2> DEFINE c == Head(backlog)
             id == nextId + 1
  <2>1. PICK g \in FreeFds :
          \/ /\ conns' = [conns EXCEPT ![g] = Fresh(id)]
             /\ reg' = [reg EXCEPT ![g] = "in"]
             /\ sock' = [sock EXCEPT ![g] = c]
          \/ UNCHANGED <<conns, reg, sock>>
    BY <1>5 DEF Accept
  <2>2. backlog # <<>> /\ nextId' = id
    BY <1>5 DEF Accept
  <2>3. g \in Fds /\ ~Open(g)
    BY <2>1 DEF FreeFds, TableInv
  <2> HIDE DEF c, id
  <2>4. CASE UNCHANGED <<conns, reg, sock>>
    BY <1>1, <2>4
  <2>5. CASE /\ conns' = [conns EXCEPT ![g] = Fresh(id)]
             /\ reg' = [reg EXCEPT ![g] = "in"]
             /\ sock' = [sock EXCEPT ![g] = c]
    <3>1. CASE g = fd
      BY <1>5, <2>2, <2>3, <2>5, <3>1 DEF NewConn, NetTypes, ConnTypes, c, id
    <3>2. CASE g # fd
      BY <2>3, <2>5, <3>2 DEF Kept, NetTypes, ConnTypes, Open
    <3> QED BY <3>1, <3>2
  <2> QED BY <2>1, <2>4, <2>5
<1>6. CASE OnTimerTick
  <2>1. /\ conns' = [g \in Fds |-> IF g \in Expired THEN NoConn ELSE conns[g]]
        /\ reg' = [g \in Fds |-> IF g \in Expired THEN "none" ELSE reg[g]]
        /\ sock' = [g \in Fds |-> IF g \in Expired THEN NoClient ELSE sock[g]]
    BY <1>6 DEF OnTimerTick
  <2> QED BY <2>1 DEF Kept, Open
<1>7. CASE Quiet
  <2>1. UNCHANGED tableVars
    BY <1>7, QuietTable
  <2> QED BY <1>1, <2>1 DEF tableVars, netVars, connVars
<1> QED BY <1>2, <1>3, <1>4, <1>5, <1>6, <1>7, NextCases

\* The handler was called for another connection, or for one that is gone.
Bystander(fd) ==
    /\ Kept(fd)
    /\ IF Answer THEN ~(Belongs(Head(found)) /\ Head(found).fd = fd) ELSE Handler /\ Ev.src # fd

LEMMA AnswerAlone == Answer => ~(OnRead \/ ReadTooLarge \/ OnRequest \/ OnWrite \/ DrainEvent)
  BY DEF Answer, OnRead, ReadTooLarge, OnRequest, OnWrite, DrainEvent

LEMMA HandlerCases ==
    ASSUME CoreInv, Handler, NEW fd \in Fds, Open(fd)'
    PROVE  Bystander(fd) \/ \E l : HandledBy(fd, l)
<1>1. CASE Answer /\ ~Belongs(Head(found)) /\ UNCHANGED tableVars
  BY <1>1 DEF tableVars, netVars, connVars, Bystander, Kept, Open
<1>2. ASSUME NEW g \in Fds, NEW l, HandlerFor(g, l), Handled(g, l), Commit(g, l)
      PROVE  Bystander(fd) \/ HandledBy(fd, l)
  <2>1. /\ conns' = [conns EXCEPT ![g] = l.conn] /\ reg' = [reg EXCEPT ![g] = l.reg]
        /\ sock' = IF l.conn = NoConn THEN [sock EXCEPT ![g] = NoClient] ELSE sock
    BY <1>2 DEF Commit
  <2>2. CASE g = fd
    <3>1. conns'[fd] = l.conn /\ reg'[fd] = l.reg /\ l.conn # NoConn
      BY <2>1, <2>2 DEF CoreInv, NetTypes, ConnTypes, Open
    <3> QED BY <1>2, <2>1, <2>2, <3>1 DEF HandledBy
  <2>3. CASE g # fd
    <3>1. Kept(fd)
      BY <2>1, <2>3 DEF Kept, CoreInv, NetTypes, ConnTypes, Open
    <3>2. CASE AnswerFor(g, l)
      <4>1. Answer /\ Head(found).fd = g
        BY <3>2 DEF AnswerFor
      <4> QED BY <2>3, <3>1, <4>1 DEF Bystander
    <3>3. CASE ~AnswerFor(g, l)
      <4>1. /\ g = Ev.src
            /\ OnRead \/ ReadTooLarge \/ OnRequest \/ OnWrite \/ DrainEvent
        BY <1>2, <3>3 DEF HandlerFor, OnReadFor, ReadTooLargeFor, OnRequestFor, OnWriteFor, DrainEventFor
      <4> QED BY <2>3, <3>1, <4>1, AnswerAlone DEF Bystander
    <3> QED BY <3>2, <3>3
  <2> QED BY <2>2, <2>3
<1> QED BY <1>1, <1>2, HandlerStep

-----------------------------------------------------------------------------
(* The five things that can happen to a connection and leave it open *)

\* on_read has read a part of a request.
ReadMore(fd) ==
    LET c == conns[fd]  d == conns'[fd]
    IN  /\ OnRead /\ fd = Ev.src /\ Ev.in /\ ~c.moved /\ reg'[fd] = "in"
        /\ c.got <= d.got /\ d.got < Frags /\ d.last = now /\ d.id = c.id
        /\ d.moved = c.moved /\ d.proc = c.proc /\ d.resp = c.resp /\ (c.caw => d.caw)

\* on_read has read the rest of a request: finalize refuses it, it is answered
\* without the pool, or the pool has it.
Asked(fd) ==
    LET c == conns[fd]  d == conns'[fd]  r == RequestOf(fd)
    IN  /\ OnRequest /\ fd = Ev.src /\ Ev.in /\ ~c.moved /\ reg'[fd] = reg[fd]
        /\ d.got = Frags /\ d.last = now /\ d.id = c.id /\ d.resp = c.resp /\ (c.caw => d.caw)
        /\ \/ /\ Respond(fd, r) /\ UNCHANGED taskVars
              /\ d.caw /\ ~d.moved /\ d.proc = c.proc
           \/ /\ Respond(fd, r)
              /\ (UNCHANGED taskVars \/ (Pool!Refuse(r) /\ UNCHANGED <<origin, unsignalled>>))
              /\ c.got < Frags /\ d.moved
           \/ /\ Pool!Accept(r) /\ origin' = [origin EXCEPT ![r] = Node(fd)]
              /\ UNCHANGED <<found, respq, unsignalled>>
              /\ c.got < Frags /\ d.moved /\ d.proc

\* A part of the response in d has been written.
Pausing(fd, c) ==
    LET d == conns'[fd]
    IN  /\ reg'[fd] = "out" /\ d.last = now /\ d.id = c.id
        /\ d.got = c.got /\ d.moved = c.moved /\ d.proc = c.proc /\ d.resp = c.resp
        /\ (c.caw => d.caw)

\* All of it has been written, and the connection is as good as new.
Renewed(fd, c) ==
    LET d == conns'[fd]
    IN  /\ reg'[fd] = "in" /\ ~c.caw /\ d.last = now /\ d.id = c.id
        /\ d.got = 0 /\ ~d.moved /\ ~d.proc /\ d.resp = NoReq

\* An event of fd that is not for reading: the response goes on, or nothing does.
Resumed(fd) ==
    /\ OnWrite \/ DrainEvent
    /\ fd = Ev.src /\ ~Ev.in /\ Ev.out /\ conns[fd].resp # NoReq
    /\ Pausing(fd, conns[fd]) \/ Renewed(fd, conns[fd])
Ignored(fd) ==
    LET c == conns[fd]  d == conns'[fd]
    IN  /\ OnWrite \/ DrainEvent
        /\ fd = Ev.src /\ ~Ev.in /\ ~Ev.hup /\ reg'[fd] = reg[fd] /\ (~Ev.out \/ c.resp = NoReq)
        /\ d = [c EXCEPT !.caw = @ \/ Ev.rdhup]

\* The response at the head of the queue is fd's.
Answered1(fd) ==
    LET l == Answering(fd, Head(found).req)
    IN  /\ Answer /\ Belongs(Head(found)) /\ Head(found).fd = fd /\ Head(found) \in Items
        /\ Pausing(fd, l.conn) \/ Renewed(fd, l.conn)

LEMMA WriteCases ==
    ASSUME CoreInv, NEW fd \in Fds, NEW l, Local(l), l.conn # NoConn, NEW t, NEW h,
           WroteNothing(l, t, peer[sock[fd]]) \/ WrotePart(l, t, peer[sock[fd]])
               \/ WroteRest(l, t, peer[sock[fd]]),
           t.conn # NoConn, h.conn \in ConnType, NEW b \in BOOLEAN,
           h.conn = [t.conn EXCEPT !.caw = @ \/ b], h.reg = t.reg,
           conns'[fd] = h.conn, reg'[fd] = h.reg
    PROVE  Pausing(fd, l.conn) \/ Renewed(fd, l.conn)
<1> DEFINE p == peer[sock[fd]]
<1> HIDE DEF p
<1>1. l.conn \in ConnType /\ NetTypes
  BY LocalConn DEF Local, CoreInv
<1>2. CASE WrotePart(l, t, p)
  <2>1. t.conn = [l.conn EXCEPT !.last = now, !.pos = l.conn.pos + p.room] /\ t.reg = "out"
    BY <1>2 DEF WrotePart
  <2> HIDE DEF p
  <2> QED BY <1>1, <2>1 DEF Pausing, ConnType
<1>3. CASE WroteRest(l, t, p)
  <2>1. ~l.conn.caw /\ t.conn = Fresh(l.conn.id) /\ t.reg = "in" /\ l.conn.id \in Nat
    BY <1>1, <1>3 DEF WroteRest, ConnType
  <2>2. /\ Fresh(l.conn.id) \in ConnType /\ Fresh(l.conn.id).id = l.conn.id /\ Fresh(l.conn.id).got = 0
        /\ Fresh(l.conn.id).moved = FALSE /\ Fresh(l.conn.id).resp = NoReq
        /\ Fresh(l.conn.id).proc = FALSE /\ Fresh(l.conn.id).last = now
    BY <1>1, <2>1, FreshFacts
  <2> QED BY <2>1, <2>2 DEF Renewed, ConnType
<1>4. CASE WroteNothing(l, t, p)
  BY <1>4 DEF WroteNothing
<1> QED BY <1>2, <1>3, <1>4 DEF p

\* Every handler that leaves the connection open is one of them.
LEMMA OutcomeCases ==
    ASSUME CoreInv, NEW fd \in Fds, NEW l, HandledBy(fd, l)
    PROVE  ReadMore(fd) \/ Asked(fd) \/ Resumed(fd) \/ Ignored(fd) \/ Answered1(fd)
<1> DEFINE c == conns[fd]
           p == peer[sock[fd]]
           d == conns'[fd]
<1>0. TablePart
  BY DEF CoreInv, TablePart
<1>1. /\ Open(fd) /\ l.conn # NoConn /\ d = l.conn /\ reg'[fd] = l.reg /\ HandlerFor(fd, l)
      /\ Commit(fd, l) /\ Handled(fd, l)
  BY DEF HandledBy, Handled
<1>2. c \in ConnType /\ p \in PeerType
  BY <1>0, <1>1, HereFacts DEF TablePart
<1> HIDE DEF c, p
<1>3. CASE OnReadFor(fd, l)
  <2>1. /\ OnRead /\ fd = Ev.src /\ Ev \in FdEvents /\ Ev.in /\ ~c.moved /\ l = ReadNoRequest(fd, Ev)
        /\ ~Complete(SocketRead(Here(fd), p))
    BY <1>3 DEF OnReadFor, c, p
  <2>2. /\ l.reg = "in"
        /\ l.conn = [c EXCEPT !.got = GotAfter(c, p), !.last = now, !.caw = @ \/ Ev.rdhup]
        /\ l.conn.got < Frags
    <3> DEFINE h == ReadNoRequest(fd, Ev)
    <3>1. h.conn # NoConn => /\ h.reg = "in" /\ h.conn.got < Frags
                             /\ h.conn = [c EXCEPT !.got = GotAfter(c, p), !.last = now, !.caw = @ \/ Ev.rdhup]
      BY <1>0, <1>1, <2>1, ReadOutcome DEF c, p
    <3> HIDE DEF h
    <3> QED BY <1>1, <2>1, <3>1 DEF h
  <2>3. c.got <= GotAfter(c, p)
    BY <1>2, IoAssumption DEF GotAfter, ConnType, PeerType
  <2> HIDE DEF d
  <2>4. /\ d.got = GotAfter(c, p) /\ d.last = now /\ d.id = c.id /\ d.moved = c.moved /\ d.proc = c.proc
        /\ d.resp = c.resp /\ (c.caw => d.caw)
    BY <1>1, <1>2, <2>2 DEF ConnType
  <2>5. reg'[fd] = "in" /\ d.got < Frags /\ c.got <= d.got
    BY <1>1, <2>2, <2>3, <2>4
  <2>6. ReadMore(fd)
    BY <2>1, <2>4, <2>5 DEF ReadMore, c, d
  <2> QED BY <2>6
<1>4. CASE ReadTooLargeFor(fd, l)
  BY <1>0, <1>1, <1>4, ClosedOutcome DEF ReadTooLargeFor
<1>5. CASE OnWriteFor(fd, l) \/ DrainEventFor(fd, l)
  <2>1. PICK ev \in FdEvents : l = WriteOrHangup(fd, Ev.out, ev) /\ ev.rdhup = Ev.rdhup
                               /\ (~ev.hup => ~Ev.hup /\ ~Ev.in)
    <3>1. CASE OnWriteFor(fd, l)
      BY <3>1 DEF OnWriteFor
    <3>2. CASE DrainEventFor(fd, l)
      <4>1. Ev \in FdEvents /\ l = WriteOrHangup(fd, Ev.out, [Ev EXCEPT !.hup = Ev.hup \/ Ev.in])
        BY <3>2 DEF DrainEventFor
      <4>2. [Ev EXCEPT !.hup = Ev.hup \/ Ev.in] \in FdEvents
            /\ [Ev EXCEPT !.hup = Ev.hup \/ Ev.in].rdhup = Ev.rdhup
            /\ [Ev EXCEPT !.hup = Ev.hup \/ Ev.in].hup = (Ev.hup \/ Ev.in)
        BY <4>1 DEF FdEvents
      <4> QED BY <4>1, <4>2
    <3> QED BY <1>5, <3>1, <3>2
  <2>2. (OnWrite \/ DrainEvent) /\ fd = Ev.src /\ Ev \in FdEvents
    BY <1>5 DEF OnWriteFor, DrainEventFor
  <2>3. Ev.out \in BOOLEAN /\ Ev.rdhup \in BOOLEAN
    BY <2>2 DEF FdEvents
  <2> DEFINE e == Here(fd)
             t == DoWrite(e, p)
             h == WriteOrHangup(fd, Ev.out, ev)
  <2>4. /\ h.conn # NoConn => ~ev.hup /\ h.conn \in ConnType
        /\ Ev.out /\ c.resp # NoReq =>
             /\ WroteNothing(e, t, p) \/ WrotePart(e, t, p) \/ WroteRest(e, t, p)
             /\ h.conn # NoConn => t.conn # NoConn /\ h.reg = t.reg
                                   /\ h.conn = [t.conn EXCEPT !.caw = @ \/ ev.rdhup]
        /\ ~Ev.out \/ c.resp = NoReq =>
             /\ h.conn # NoConn => h.reg = reg[fd] /\ h.conn = [c EXCEPT !.caw = @ \/ ev.rdhup]
    BY <1>0, <1>1, <2>3, WriteOutcome DEF c, p
  <2>5. Local(e) /\ e.conn = c /\ c # NoConn
    BY <1>0, <1>1, HereFacts DEF TablePart, c, Open
  <2>6. h = l
    BY <2>1
  <2> HIDE DEF e, t, h
  <2>7. ~Ev.in /\ ~Ev.hup /\ h.conn \in ConnType
    BY <1>1, <2>1, <2>4, <2>6
  <2>8. CASE Ev.out /\ c.resp # NoReq
    <3>1. /\ WroteNothing(e, t, p) \/ WrotePart(e, t, p) \/ WroteRest(e, t, p)
          /\ t.conn # NoConn /\ h.reg = t.reg /\ h.conn = [t.conn EXCEPT !.caw = @ \/ Ev.rdhup]
      BY <1>1, <2>1, <2>4, <2>6, <2>8
    <3>2. Pausing(fd, e.conn) \/ Renewed(fd, e.conn)
      BY <1>1, <2>3, <2>5, <2>6, <2>7, <3>1, WriteCases DEF p
    <3>3. Resumed(fd)
      BY <2>2, <2>5, <2>7, <2>8, <3>2 DEF Resumed, c
    <3> QED BY <3>3
  <2>9. CASE ~Ev.out \/ c.resp = NoReq
    <3>1. h.reg = reg[fd] /\ h.conn = [c EXCEPT !.caw = @ \/ Ev.rdhup]
      BY <1>1, <2>1, <2>4, <2>6, <2>9
    <3>2. Ignored(fd)
      BY <1>1, <2>2, <2>6, <2>7, <2>9, <3>1 DEF Ignored, c
    <3> QED BY <3>2
  <2> QED BY <2>8, <2>9
<1>6. CASE AnswerFor(fd, l)
  <2> DEFINE r == Head(found).req
             a == Answering(fd, r)
  <2>1. /\ Answer /\ Head(found) \in Items /\ Belongs(Head(found)) /\ fd = Head(found).fd
        /\ l = DoWrite(a, p)
    BY <1>6 DEF AnswerFor, p
  <2>2. r \in Requests
    BY <2>1 DEF Items
  <2>3. /\ Local(a) /\ a.wrote = <<>> /\ ~a.read /\ a.conn # NoConn /\ a.conn.resp # NoReq
        /\ a.conn.id = conns[fd].id /\ a.conn.got = conns[fd].got
    BY <1>0, <1>1, <2>2, AnsweringFacts
  <2> HIDE DEF a
  <2>4. WroteNothing(a, l, p) \/ WrotePart(a, l, p) \/ WroteRest(a, l, p)
    BY <1>0, <1>1, <2>1, <2>3, WriteHandled DEF p
  <2>5. l.conn \in ConnType
    BY <1>1, LocalConn DEF Handled, Local
  <2>6. l.conn = [l.conn EXCEPT !.caw = @ \/ FALSE]
    BY <2>5 DEF ConnType
  <2>7. Pausing(fd, a.conn) \/ Renewed(fd, a.conn)
    BY <1>1, <2>3, <2>4, <2>5, <2>6, WriteCases DEF p
  <2>8. Answered1(fd)
    BY <2>1, <2>7 DEF Answered1, a
  <2> QED BY <2>8
<1>7. CASE OnRequestFor(fd, l)
  <2> DEFINE s == SocketRead(Here(fd), p)
             r == RequestOf(fd)
  <2>1. OnRequest /\ fd = Ev.src /\ Ev \in FdEvents /\ Ev.in /\ ~c.moved /\ Complete(s)
    BY <1>7 DEF OnRequestFor, c, p
  <2>2. PICK k \in RequestKept(s) :
          /\ Commit(fd, Hangup(k, Ev))
          /\ \/ /\ k = [s EXCEPT !.conn.caw = TRUE]
                /\ Respond(fd, r) /\ UNCHANGED taskVars
             \/ /\ c.got < Frags /\ k \in {[s EXCEPT !.conn.moved = TRUE], MarkProcessing(s)}
                /\ Respond(fd, r)
                /\ (UNCHANGED taskVars \/ (Pool!Refuse(r) /\ UNCHANGED <<origin, unsignalled>>))
             \/ /\ c.got < Frags /\ k = MarkProcessing(s)
                /\ Pool!Accept(r) /\ origin' = [origin EXCEPT ![r] = Node(fd)]
                /\ UNCHANGED <<found, respq, unsignalled>>
    <3> DEFINE k1 == [s EXCEPT !.conn.caw = TRUE]
               k2 == [s EXCEPT !.conn.moved = TRUE]
               k3 == MarkProcessing(s)
    <3>1. \/ Commit(fd, Hangup(k1, Ev)) /\ Respond(fd, r) /\ UNCHANGED taskVars
          \/ c.got < Frags /\ Commit(fd, Hangup(k2, Ev)) /\ Respond(fd, r) /\ UNCHANGED taskVars
          \/ /\ c.got < Frags /\ Commit(fd, Hangup(k3, Ev)) /\ Respond(fd, r)
             /\ Pool!Refuse(r) /\ UNCHANGED <<origin, unsignalled>>
          \/ /\ c.got < Frags /\ Commit(fd, Hangup(k3, Ev))
             /\ Pool!Accept(r) /\ origin' = [origin EXCEPT ![r] = Node(fd)]
             /\ UNCHANGED <<found, respq, unsignalled>>
      BY <2>1 DEF OnRequest, RequestOf, c, p
    <3>2. k1 \in RequestKept(s) /\ k2 \in RequestKept(s) /\ k3 \in RequestKept(s)
      BY DEF RequestKept
    <3> HIDE DEF s, r
    <3> QED BY <3>1, <3>2
  <2> DEFINE h == Hangup(k, Ev)
  <2>3. /\ h.conn # NoConn =>
             /\ h.reg = reg[fd] /\ h.conn.id = c.id /\ h.conn.got = Frags
             /\ h.conn.last = now /\ h.conn.resp = c.resp
             /\ c.caw => h.conn.caw
             /\ k = [s EXCEPT !.conn.caw = TRUE] =>
                    h.conn.caw /\ h.conn.moved = c.moved /\ h.conn.proc = c.proc
             /\ k = [s EXCEPT !.conn.moved = TRUE] => h.conn.moved /\ h.conn.proc = c.proc
             /\ k = MarkProcessing(s) => h.conn.moved /\ h.conn.proc
    BY <1>0, <1>1, <2>1, RequestOutcome DEF c, p
  <2> HIDE DEF h, s
  <2>4. d = h.conn /\ reg'[fd] = h.reg
    BY <2>2 DEF Commit, CoreInv, ConnTypes, NetTypes, h
  <2>5. h.conn # NoConn
    BY <1>1, <2>4
  <2> HIDE DEF d, r
  <2>6. /\ reg'[fd] = reg[fd] /\ d.id = c.id /\ d.got = Frags /\ d.last = now /\ d.resp = c.resp
        /\ (c.caw => d.caw)
    BY <2>3, <2>4, <2>5
  <2>7. \/ /\ Respond(fd, r) /\ UNCHANGED taskVars
           /\ d.caw /\ ~d.moved /\ d.proc = c.proc
        \/ /\ Respond(fd, r)
           /\ (UNCHANGED taskVars \/ (Pool!Refuse(r) /\ UNCHANGED <<origin, unsignalled>>))
           /\ c.got < Frags /\ d.moved
        \/ /\ Pool!Accept(r) /\ origin' = [origin EXCEPT ![r] = Node(fd)]
           /\ UNCHANGED <<found, respq, unsignalled>>
           /\ c.got < Frags /\ d.moved /\ d.proc
    <3>1. CASE /\ k = [s EXCEPT !.conn.caw = TRUE]
               /\ Respond(fd, r) /\ UNCHANGED taskVars
      BY <2>1, <2>3, <2>4, <2>5, <3>1
    <3>2. CASE /\ c.got < Frags /\ k \in {[s EXCEPT !.conn.moved = TRUE], MarkProcessing(s)}
               /\ Respond(fd, r)
               /\ (UNCHANGED taskVars \/ (Pool!Refuse(r) /\ UNCHANGED <<origin, unsignalled>>))
      <4>1. d.moved
        BY <2>3, <2>4, <2>5, <3>2
      <4> QED BY <3>2, <4>1
    <3>3. CASE /\ c.got < Frags /\ k = MarkProcessing(s)
               /\ Pool!Accept(r) /\ origin' = [origin EXCEPT ![r] = Node(fd)]
               /\ UNCHANGED <<found, respq, unsignalled>>
      <4>1. d.moved /\ d.proc
        BY <2>3, <2>4, <2>5, <3>3
      <4> QED BY <3>3, <4>1
    <3> QED BY <2>2, <3>1, <3>2, <3>3 DEF r
  <2>8. Asked(fd)
    BY <2>1, <2>6, <2>7 DEF Asked, c, d, r
  <2> QED BY <2>8
<1> QED BY <1>1, <1>3, <1>4, <1>5, <1>6, <1>7 DEF HandlerFor
-----------------------------------------------------------------------------
(* What a step does to the tasks and the responses of a connection *)

Due(r) == status[r] \in {"pending", "late", "running"} /\ r \notin unsignalled
TasksOf(n) == {r \in Requests : Due(r) /\ origin[r] = n}

Waiting == found \o respq
Grew(x) ==
    /\ Len(Waiting') = Len(Waiting) + 1 /\ Waiting'[Len(Waiting) + 1] = x
    /\ \A i \in 1..Len(Waiting) : Waiting'[i] = Waiting[i]
Shrank ==
    /\ Len(Waiting') = Len(Waiting) - 1
    /\ \A i \in 1..Len(Waiting') : Waiting'[i] = Waiting[i + 1]

ItemOf(r) == [fd |-> origin[r].fd, id |-> origin[r].id, req |-> r]
ItemFor(fd, r) == [fd |-> fd, id |-> conns[fd].id, req |-> r]

LEMMA WaitingFacts ==
    ASSUME CoreInv
    PROVE  /\ Waiting \in Seq(Items) /\ Len(Waiting) = Len(found) + Len(respq) /\ Len(Waiting) \in Nat
           /\ Len(found) \in Nat /\ Len(respq) \in Nat
           /\ \A i \in 1..Len(found) : Waiting[i] = found[i]
           /\ \A i \in 1..Len(respq) : Waiting[Len(found) + i] = respq[i]
<1>1. found \in Seq(Items) /\ respq \in Seq(Items)
  BY DEF CoreInv, LoopTypes
<1>2. /\ Waiting \in Seq(Items) /\ Len(Waiting) = Len(found) + Len(respq)
      /\ \A i \in 1..Len(found) : Waiting[i] = found[i]
  BY <1>1, ConcatProperties DEF Waiting
<1>3. \A i \in 1..Len(respq) : Waiting[Len(found) + i] = respq[i]
  BY <1>1 DEF Waiting
<1> QED BY <1>1, <1>2, <1>3

LEMMA WaitingGrows ==
    ASSUME CoreInv, NEW x \in Items, respq' = Append(respq, x), UNCHANGED found
    PROVE  Grew(x)
<1>1. found \in Seq(Items) /\ respq \in Seq(Items) /\ Len(found) \in Nat /\ Len(respq) \in Nat
  BY DEF CoreInv, LoopTypes
<1>2. respq' \in Seq(Items) /\ Len(respq') = Len(respq) + 1 /\ respq'[Len(respq) + 1] = x
      /\ \A i \in 1..Len(respq) : respq'[i] = respq[i]
  BY <1>1, AppendProperties
<1>3. Waiting' = found \o respq' /\ Len(Waiting') = Len(found) + Len(respq')
  BY <1>1, <1>2 DEF Waiting
<1>4. \A i \in 1..Len(Waiting') : Waiting'[i] = IF i <= Len(found) THEN found[i] ELSE respq'[i - Len(found)]
  BY <1>1, <1>2, <1>3
<1>5. \A i \in 1..Len(Waiting) : Waiting[i] = IF i <= Len(found) THEN found[i] ELSE respq[i - Len(found)]
  BY <1>1 DEF Waiting
<1>6. Len(Waiting) = Len(found) + Len(respq)
  BY WaitingFacts
<1> HIDE DEF Waiting
<1>7. ASSUME NEW i \in 1..Len(Waiting) PROVE Waiting'[i] = Waiting[i]
  <2>1. i \in 1..Len(Waiting')
    BY <1>1, <1>2, <1>3, <1>6
  <2>2. CASE i <= Len(found)
    BY <1>4, <1>5, <2>1, <2>2
  <2>3. CASE ~(i <= Len(found))
    <3>1. i - Len(found) \in 1..Len(respq)
      BY <1>1, <1>6, <2>3
    <3> QED BY <1>2, <1>4, <1>5, <2>1, <2>3, <3>1
  <2> QED BY <2>2, <2>3
<1>8. Waiting'[Len(Waiting) + 1] = x
  BY <1>1, <1>2, <1>3, <1>4, <1>6
<1> QED BY <1>1, <1>2, <1>3, <1>6, <1>7, <1>8 DEF Grew

LEMMA WaitingShrinks ==
    ASSUME CoreInv, found # <<>>, found' = Tail(found), UNCHANGED respq
    PROVE  Shrank /\ Waiting[1] = Head(found) /\ Len(Waiting) >= 1
<1>1. found \in Seq(Items) /\ respq \in Seq(Items) /\ Len(found) \in Nat /\ Len(respq) \in Nat
      /\ Len(found) >= 1
  BY DEF CoreInv, LoopTypes
<1>2. found' \in Seq(Items) /\ Len(found') = Len(found) - 1 /\ Head(found) = found[1]
      /\ \A i \in 1..Len(found') : found'[i] = found[i + 1]
  BY <1>1, HeadTailProperties
<1>3. Len(Waiting') = Len(found') + Len(respq)
  BY <1>1, <1>2 DEF Waiting
<1>4. \A i \in 1..Len(Waiting') : Waiting'[i] = IF i <= Len(found') THEN found'[i] ELSE respq[i - Len(found')]
  BY <1>1, <1>2 DEF Waiting
<1>5. \A i \in 1..Len(Waiting) : Waiting[i] = IF i <= Len(found) THEN found[i] ELSE respq[i - Len(found)]
  BY <1>1 DEF Waiting
<1>6. Len(Waiting) = Len(found) + Len(respq) /\ Waiting[1] = found[1]
  BY <1>1, WaitingFacts
<1> HIDE DEF Waiting
<1>7. ASSUME NEW i \in 1..Len(Waiting') PROVE Waiting'[i] = Waiting[i + 1]
  <2>1. i \in 1..Len(Waiting') /\ i + 1 \in 1..Len(Waiting)
    BY <1>1, <1>2, <1>3, <1>6
  <2>2. CASE i <= Len(found')
    BY <1>1, <1>2, <1>4, <1>5, <2>1, <2>2
  <2>3. CASE ~(i <= Len(found'))
    <3>1. i - Len(found') = (i + 1) - Len(found) /\ ~(i + 1 <= Len(found))
      BY <1>1, <1>2, <2>3
    <3> QED BY <1>4, <1>5, <2>1, <2>3, <3>1
  <2> QED BY <2>2, <2>3
<1> QED BY <1>1, <1>2, <1>3, <1>6, <1>7 DEF Shrank

\* The steps that neither ask nor answer, on the tasks of the node n.
Pushed(n, r) == WorkerPush(r) /\ Due(r) /\ TasksOf(n)' = TasksOf(n) \ {r} /\ Grew(ItemOf(r))
Threw(n, r) ==
    /\ WorkerThrows(r) /\ Due(r) /\ TasksOf(n)' = TasksOf(n) \ {r} /\ Waiting' = Waiting
    /\ (origin[r] = n => n \in FailedNodes')

LEMMA WorkerFlight ==
    ASSUME CoreInv, NEW n, NEW r \in Requests, WorkerStep(r)
    PROVE  Pushed(n, r) \/ Threw(n, r) \/ (TasksOf(n)' = TasksOf(n) /\ Waiting' = Waiting)
<1> USE DEF CoreInv
<1>1. CASE WorkerPush(r)
  <2>1. /\ Due(r) /\ ~Due(r)' /\ UNCHANGED <<origin, found>> /\ respq' = Append(respq, ItemOf(r))
        /\ \A q \in Requests : q # r => Due(q)' = Due(q)
    BY <1>1 DEF WorkerPush, Due, poolVars, ItemOf, othersThanTasks, loopVars
  <2>2. TasksOf(n)' = TasksOf(n) \ {r}
    BY <2>1 DEF TasksOf
  <2>3. ItemOf(r) \in Items
    BY <1>1 DEF WorkerPush, TaskInv, Nodes, Items, ItemOf
  <2> QED BY <1>1, <2>1, <2>2, <2>3, WaitingGrows DEF Pushed
<1>2. CASE WorkerThrows(r)
  <2>1. /\ Due(r) /\ ~Due(r)' /\ UNCHANGED <<origin, found, respq>> /\ failed' = failed \cup {r}
        /\ \A q \in Requests : q # r => Due(q)' = Due(q)
    BY <1>2 DEF WorkerThrows, Due, Pool!Finish, TaskTypes, loopVars
  <2>2. TasksOf(n)' = TasksOf(n) \ {r}
    BY <2>1 DEF TasksOf
  <2> QED BY <1>2, <2>1, <2>2 DEF Threw, Waiting, FailedNodes
<1>3. CASE WorkerSignal(r) \/ WorkerSettle(r)
  <2>1. ~Due(r) /\ ~Due(r)' /\ UNCHANGED <<origin, found, respq>>
        /\ \A q \in Requests : q # r => Due(q)' = Due(q)
    <3>1. CASE WorkerSignal(r)
      BY <3>1 DEF WorkerSignal, Due, Pool!Finish, TaskTypes, othersThanTasks, loopVars
    <3>2. CASE WorkerSettle(r)
      BY <3>2 DEF WorkerSettle, Due, Pool!Settle, TaskTypes, othersThanTasks, loopVars
    <3> QED BY <1>3, <3>1, <3>2
  <2>2. TasksOf(n)' = TasksOf(n)
    BY <2>1 DEF TasksOf
  <2> QED BY <2>1, <2>2 DEF Waiting
<1> QED BY <1>1, <1>2, <1>3 DEF WorkerStep

LEMMA StartFlight ==
    ASSUME CoreInv, NEW n, WorkerStart
    PROVE  TasksOf(n)' = TasksOf(n) /\ Waiting' = Waiting
<1> USE DEF CoreInv
<1> DEFINE r == Head(order)
<1>1. status' = [status EXCEPT ![r] = "running"] /\ UNCHANGED <<origin, unsignalled, found, respq>>
      /\ order # <<>>
  BY DEF WorkerStart, Pool!Start, othersThanTasks, loopVars
<1>2. r \in Requests /\ r = order[1] /\ 1 \in 1..Len(order)
  BY <1>1, HeadTailProperties DEF TaskTypes
<1>3. status[r] \in {"pending", "late"} /\ r \notin unsignalled
  BY <1>2 DEF TaskInv
<1> HIDE DEF r
<1>4. \A q \in Requests : Due(q)' = Due(q)
  BY <1>1, <1>2, <1>3 DEF Due, TaskTypes
<1> QED BY <1>1, <1>4 DEF TasksOf, Waiting

\* The other steps leave both alone.
LEMMA StillFlight ==
    ASSUME CoreInv, InHandInv, [Next]_vars, ~OnRequest, ~Answer, ~WorkerStart,
           \A r \in Requests : ~WorkerStep(r), NEW n
    PROVE  TasksOf(n)' = TasksOf(n) /\ Waiting' = Waiting
<1>1. UNCHANGED <<status, origin, unsignalled>>
  BY TaskCases DEF TaskStep, CloseDescriptors, StopPool, Pool!Close, Pool!GoDown, othersThanMain,
     taskVars, poolVars
<1>2. TasksOf(n)' = TasksOf(n)
  BY <1>1 DEF TasksOf, Due
<1>3. UNCHANGED <<found, respq>> \/ Collect
  <2>1. CASE \E c \in Clients : ClientStep(c)
    BY <2>1 DEF ClientStep, Connect, Send, HangUp, Congest, Relieve, othersThanPeer, loopVars
  <2>2. CASE Tick \/ EpollWait \/ Accept \/ OnTimerTick
    BY <2>2 DEF Tick, EpollWait, Accept, OnTimerTick, loopVars
  <2>3. CASE Handler
    BY <2>3 DEF Handler, OnRead, ReadTooLarge, OnWrite, DrainEvent
  <2>4. CASE Quiet
    <3>1. CASE TestRunning \/ OnConnect \/ AcceptEnds \/ UnknownFd \/ ReadMovedParser \/ ReadEventFd
      BY <3>1 DEF TestRunning, OnConnect, AcceptEnds, UnknownFd, ReadMovedParser, ReadEventFd,
         othersThanLoop
    <3>2. CASE Answered \/ DrainTasks \/ DrainQueue \/ DrainSpecial
      BY <3>2 DEF Answered, DrainTasks, DrainQueue, DrainSpecial, othersThanLoop
    <3>3. CASE StopRunning \/ MainStep
      BY <3>3 DEF StopRunning, MainStep, StopResponseQueue, CloseDescriptors, StopPool,
         othersThanMain, loopVars
    <3>4. CASE UNCHANGED vars
      BY <3>4 DEF vars, loopVars
    <3> QED BY <2>4, <3>1, <3>2, <3>3, <3>4 DEF Quiet
  <2> QED BY <2>1, <2>2, <2>3, <2>4, NextCases
<1>4. CASE Collect
  <2>1. found = <<>> /\ found' = respq /\ respq' = <<>> /\ respq \in Seq(Items)
    BY <1>4 DEF Collect, InHandInv, CoreInv, LoopTypes
  <2>2. <<>> \o respq = respq /\ respq \o <<>> = respq
    BY <2>1, ConcatEmptySeq
  <2> QED BY <1>2, <2>1, <2>2 DEF Waiting
<1> QED BY <1>2, <1>3, <1>4 DEF Waiting

LEMMA AnswerFlight ==
    ASSUME CoreInv, Answer, NEW n
    PROVE  TasksOf(n)' = TasksOf(n) /\ Shrank /\ Waiting[1] = Head(found) /\ Len(Waiting) >= 1
<1>1. found # <<>> /\ found' = Tail(found) /\ UNCHANGED <<respq, taskVars>>
  BY DEF Answer
<1> QED BY <1>1, WaitingShrinks DEF taskVars, poolVars, TasksOf, Due

LEMMA OnRequestFlight ==
    ASSUME CoreInv, OnRequest, NEW n
    PROVE  LET fd == Ev.src
               r == RequestOf(fd)
           IN  /\ fd \in Fds /\ Open(fd) /\ r \in Requests
               /\ \/ /\ Respond(fd, r) /\ Grew(ItemFor(fd, r)) /\ TasksOf(n)' = TasksOf(n)
                  \/ /\ Pool!Accept(r) /\ Waiting' = Waiting
                     /\ TasksOf(n)' = IF Node(fd) = n THEN TasksOf(n) \cup {r} ELSE TasksOf(n)
<1>1. PICK fd \in Fds, r \in Requests : fd = Ev.src /\ r = RequestOf(fd)
  BY OnRequestCases DEF TablePart, CoreInv
<1>2. /\ Open(fd)
      /\ \/ Respond(fd, r) /\ UNCHANGED taskVars
         \/ Respond(fd, r) /\ Pool!Refuse(r) /\ UNCHANGED <<origin, unsignalled>>
         \/ /\ Pool!Accept(r) /\ origin' = [origin EXCEPT ![r] = Node(fd)]
            /\ UNCHANGED <<respq, event, unsignalled>>
  BY <1>1, OnRequestCases DEF TablePart, CoreInv
<1>3. UNCHANGED found
  BY DEF OnRequest
<1>4. Respond(fd, r) => Grew(ItemFor(fd, r))
  <2>1. ItemFor(fd, r) \in Items
    BY <1>2, HereFacts DEF ItemFor, Items, ConnType, CoreInv
  <2> QED BY <1>3, <2>1, WaitingGrows DEF Respond, ItemFor
<1>5. UNCHANGED taskVars => TasksOf(n)' = TasksOf(n)
  BY DEF taskVars, poolVars, TasksOf, Due
<1>6. Pool!Refuse(r) /\ UNCHANGED <<origin, unsignalled>> => TasksOf(n)' = TasksOf(n)
  <2> SUFFICES ASSUME Pool!Refuse(r), UNCHANGED <<origin, unsignalled>>
               PROVE  TasksOf(n)' = TasksOf(n)
    OBVIOUS
  <2>1. \A q \in Requests : Due(q)' = Due(q)
    BY DEF Pool!Refuse, Due, TaskTypes, CoreInv
  <2> QED BY <2>1 DEF TasksOf
<1>7. ASSUME Pool!Accept(r), origin' = [origin EXCEPT ![r] = Node(fd)], UNCHANGED <<respq, event, unsignalled>>
      PROVE  Waiting' = Waiting /\ TasksOf(n)' = IF Node(fd) = n THEN TasksOf(n) \cup {r} ELSE TasksOf(n)
  <2>1. ~Due(r) /\ r \notin unsignalled
    BY <1>7 DEF Pool!Accept, Due, TaskInv, CoreInv
  <2>2. Due(r)' /\ \A q \in Requests : q # r => Due(q)' = Due(q)
    <3>1. status'[r] \in {"pending", "late"} /\ \A q \in Requests : q # r => status'[q] = status[q]
      BY <1>7 DEF Pool!Accept, TaskTypes, CoreInv
    <3> QED BY <1>7, <2>1, <3>1 DEF Due
  <2>3. origin'[r] = Node(fd) /\ \A q \in Requests : q # r => origin'[q] = origin[q]
    BY <1>7 DEF TaskTypes, CoreInv
  <2>4. ASSUME Node(fd) = n PROVE TasksOf(n)' = TasksOf(n) \cup {r}
    BY <2>2, <2>3, <2>4 DEF TasksOf
  <2>5. ASSUME Node(fd) # n PROVE TasksOf(n)' = TasksOf(n)
    BY <2>1, <2>2, <2>3, <2>5 DEF TasksOf
  <2> QED BY <1>3, <1>7, <2>4, <2>5 DEF Waiting
<1> QED BY <1>1, <1>2, <1>4, <1>5, <1>6, <1>7
-----------------------------------------------------------------------------
(* The life of a connection: a step's effect on it, on its tasks and on its *)
(* responses.                                                               *)

QueuedOf(n) == {i \in 1..Len(Waiting) : Waiting[i].fd = n.fd /\ Waiting[i].id = n.id}

LEMMA FlightOf ==
    ASSUME NEW fd, NEW n
    PROVE  /\ Node(fd) = n => TasksFor(fd) = TasksOf(n) /\ QueuedFor(fd) = QueuedOf(n)
           /\ Node(fd)' = n => TasksFor(fd)' = TasksOf(n)' /\ QueuedFor(fd)' = QueuedOf(n)'
<1>1. ASSUME Node(fd) = n PROVE TasksFor(fd) = TasksOf(n) /\ QueuedFor(fd) = QueuedOf(n)
  <2>1. n.fd = fd /\ n.id = conns[fd].id
    BY <1>1 DEF Node
  <2> QED BY <1>1, <2>1 DEF TasksFor, TasksOf, QueuedFor, QueuedOf, Due, Waiting
<1>2. ASSUME Node(fd)' = n PROVE TasksFor(fd)' = TasksOf(n)' /\ QueuedFor(fd)' = QueuedOf(n)'
  <2>1. n.fd = fd /\ n.id = conns'[fd].id
    BY <1>2 DEF Node
  <2> QED BY <1>2, <2>1 DEF TasksFor, TasksOf, QueuedFor, QueuedOf, Due, Waiting
<1> QED BY <1>1, <1>2

LEMMA QueueMoves ==
    ASSUME CoreInv, NEW n
    PROVE  /\ Waiting' = Waiting => QueuedOf(n)' = QueuedOf(n)
           /\ \A x : Grew(x) => QueuedOf(n)' = IF x.fd = n.fd /\ x.id = n.id
                                                 THEN QueuedOf(n) \cup {Len(Waiting) + 1} ELSE QueuedOf(n)
           /\ Shrank /\ Len(Waiting) >= 1 =>
                  \A i \in Nat : i \in QueuedOf(n)' <=> i >= 1 /\ i + 1 \in QueuedOf(n)
<1>1. Len(Waiting) \in Nat
  BY WaitingFacts
<1> DEFINE w == Waiting
<1>2. ASSUME NEW x, Grew(x), x.fd = n.fd, x.id = n.id
      PROVE  QueuedOf(n)' = QueuedOf(n) \cup {Len(w) + 1}
  <2>1. Len(Waiting') = Len(w) + 1 /\ Waiting'[Len(w) + 1] = x /\ \A i \in 1..Len(w) : Waiting'[i] = w[i]
    BY <1>2 DEF Grew
  <2>2. 1..(Len(w) + 1) = 1..Len(w) \cup {Len(w) + 1}
    BY <1>1
  <2> HIDE DEF w
  <2> QED BY <1>2, <2>1, <2>2 DEF QueuedOf, w
<1>3. ASSUME NEW x, Grew(x), ~(x.fd = n.fd /\ x.id = n.id)
      PROVE  QueuedOf(n)' = QueuedOf(n)
  <2>1. Len(Waiting') = Len(w) + 1 /\ Waiting'[Len(w) + 1] = x /\ \A i \in 1..Len(w) : Waiting'[i] = w[i]
    BY <1>3 DEF Grew
  <2>2. 1..(Len(w) + 1) = 1..Len(w) \cup {Len(w) + 1}
    BY <1>1
  <2> HIDE DEF w
  <2> QED BY <1>3, <2>1, <2>2 DEF QueuedOf, w
<1>4. ASSUME Shrank, Len(w) >= 1, NEW i \in Nat
      PROVE  i \in QueuedOf(n)' <=> i >= 1 /\ i + 1 \in QueuedOf(n)
  <2>1. Len(Waiting') = Len(w) - 1 /\ \A k \in 1..Len(Waiting') : Waiting'[k] = w[k + 1]
    BY <1>4 DEF Shrank
  <2>2. i \in 1..Len(Waiting') <=> i >= 1 /\ i + 1 \in 1..Len(w)
    BY <1>1, <1>4, <2>1
  <2>3. i \in QueuedOf(n)' <=> i \in 1..Len(Waiting') /\ Waiting'[i].fd = n.fd /\ Waiting'[i].id = n.id
    BY DEF QueuedOf
  <2>4. i + 1 \in QueuedOf(n) <=> i + 1 \in 1..Len(w) /\ w[i + 1].fd = n.fd /\ w[i + 1].id = n.id
    BY DEF QueuedOf
  <2> HIDE DEF w
  <2> QED BY <2>1, <2>2, <2>3, <2>4
<1> QED BY <1>2, <1>3, <1>4 DEF QueuedOf

Still(fd) == TasksFor(fd)' = TasksFor(fd) /\ QueuedFor(fd)' = QueuedFor(fd)
Queues(fd) == TasksFor(fd)' = TasksFor(fd) /\ QueuedFor(fd)' = QueuedFor(fd) \cup {Len(Waiting) + 1}
Takes(fd) == QueuedFor(fd)' = QueuedFor(fd) /\ \E r : TasksFor(fd)' = TasksFor(fd) \cup {r}
Hands(fd) ==
    \E r \in TasksFor(fd) :
        TasksFor(fd)' = TasksFor(fd) \ {r} /\ QueuedFor(fd)' = QueuedFor(fd) \cup {Len(Waiting) + 1}
Loses(fd) ==
    /\ \E r \in TasksFor(fd) : TasksFor(fd)' = TasksFor(fd) \ {r}
    /\ QueuedFor(fd)' = QueuedFor(fd) /\ Node(fd) \in FailedNodes'
Moves(fd) ==
    /\ TasksFor(fd)' = TasksFor(fd)
    /\ \A i \in Nat : i \in QueuedFor(fd)' <=> i >= 1 /\ i + 1 \in QueuedFor(fd)

Born(fd) == NewConn(fd) /\ TasksFor(fd)' = {} /\ QueuedFor(fd)' = {}
Apart(fd) == Handler /\ ~Answer => Ev.src # fd
Rests(fd) == (Kept(fd) \/ Silenced(fd)) /\ Apart(fd) /\ Still(fd)
Worked(fd) == Kept(fd) /\ Apart(fd) /\ (Hands(fd) \/ Loses(fd))
Passed(fd) == Kept(fd) /\ Apart(fd) /\ Moves(fd) /\ 1 \notin QueuedFor(fd)
Served(fd) == (ReadMore(fd) \/ Resumed(fd) \/ Ignored(fd)) /\ Still(fd)
Queried(fd) == Asked(fd) /\ (Queues(fd) \/ (Takes(fd) /\ conns'[fd].moved /\ conns'[fd].proc))
Replied(fd) == Answered1(fd) /\ Moves(fd) /\ 1 \in QueuedFor(fd)

LEMMA BornCase ==
    ASSUME CoreInv, PastInv, NEW fd \in Fds, NewConn(fd)
    PROVE  Born(fd)
<1>1. PICK n : n = [fd |-> fd, id |-> nextId + 1]
  OBVIOUS
<1>2. n.fd = fd /\ n.id = nextId + 1 /\ nextId \in Nat /\ nextId + 1 \in Nat /\ now \in Nat
  BY <1>1, IoAssumption DEF CoreInv, ConnTypes, NetTypes
<1>3. Node(fd)' = n
  <2>1. Fresh(nextId + 1).id = nextId + 1
    BY DEF Fresh
  <2> QED BY <1>1, <2>1 DEF NewConn, Node
<1>4. UNCHANGED <<found, respq, status, origin, unsignalled>>
  BY DEF NewConn, Accept, loopVars, taskVars, poolVars
<1>5. TasksOf(n)' = TasksOf(n) /\ QueuedOf(n)' = QueuedOf(n)
  BY <1>4 DEF TasksOf, Due, QueuedOf, Waiting
<1>6. TasksOf(n) = {}
  <2> SUFFICES ASSUME NEW r \in TasksOf(n) PROVE FALSE
    OBVIOUS
  <2>1. r \in Requests /\ origin[r] = n /\ status[r] \notin {"new", "refused"}
    BY DEF TasksOf, Due
  <2>2. origin[r].id <= nextId
    BY <2>1 DEF CoreInv, TaskInv
  <2> QED BY <1>2, <2>1, <2>2
<1>7. QueuedOf(n) = {}
  <2> SUFFICES ASSUME NEW i \in QueuedOf(n) PROVE FALSE
    OBVIOUS
  <2>1. i \in 1..Len(Waiting) /\ Waiting[i].id = nextId + 1
    BY <1>2 DEF QueuedOf
  <2>2. Waiting[i].id <= nextId
    BY <2>1 DEF PastInv, Waiting
  <2> QED BY <1>2, <2>1, <2>2
<1> QED BY <1>3, <1>5, <1>6, <1>7, FlightOf DEF Born

LEMMA HandlerStill ==
    ASSUME Handler, ~OnRequest, ~Answer
    PROVE  UNCHANGED <<found, respq, status, origin, unsignalled>>
  BY DEF Handler, OnRead, ReadTooLarge, OnWrite, DrainEvent, taskVars, poolVars

\* A connection that was there has the same node as before.
LEMMA SameNode ==
    ASSUME CoreInv, NEW fd \in Fds,
           \/ Kept(fd) \/ Silenced(fd) \/ ReadMore(fd) \/ Asked(fd) \/ Resumed(fd) \/ Ignored(fd)
           \/ Answered1(fd)
    PROVE  Open(fd) => Node(fd)' = Node(fd)
<1> SUFFICES ASSUME Open(fd) PROVE conns'[fd].id = conns[fd].id
  BY DEF Node
<1>1. conns[fd] \in ConnType
  BY DEF Open, CoreInv, ConnTypes
<1>2. CASE Answered1(fd)
  <2>1. Head(found).req \in Requests /\ TablePart
    BY <1>2 DEF Answered1, Items, CoreInv, TablePart
  <2>2. Answering(fd, Head(found).req).conn.id = conns[fd].id
    BY <2>1, AnsweringFacts
  <2> QED BY <1>2, <2>2 DEF Answered1, Pausing, Renewed
<1>3. CASE Ignored(fd)
  <2>1. conns'[fd] = [conns[fd] EXCEPT !.caw = @ \/ Ev.rdhup]
    BY <1>3 DEF Ignored
  <2> QED BY <1>1, <2>1 DEF ConnType
<1> QED BY <1>2, <1>3 DEF Kept, Silenced, ReadMore, Asked, Resumed, Pausing, Renewed

LEMMA OtherLife ==
    ASSUME CoreInv, PastInv, InHandInv, [Next]_vars, ~Handler, NEW fd \in Fds, Open(fd)'
    PROVE  Born(fd) \/ Rests(fd) \/ Worked(fd)
<1>1. Kept(fd) \/ Silenced(fd) \/ NewConn(fd)
  BY OtherCases
<1>2. CASE NewConn(fd)
  BY <1>2, BornCase
<1>3. CASE Kept(fd) \/ Silenced(fd)
  <2>1. PICK n : n = Node(fd)
    OBVIOUS
  <2>2. Open(fd) /\ Node(fd)' = n
    BY <1>3, <2>1, SameNode DEF Kept, Silenced
  <2>3. /\ TasksFor(fd) = TasksOf(n) /\ QueuedFor(fd) = QueuedOf(n)
        /\ TasksFor(fd)' = TasksOf(n)' /\ QueuedFor(fd)' = QueuedOf(n)'
    BY <2>1, <2>2, FlightOf
  <2>4. ASSUME TasksOf(n)' = TasksOf(n), Waiting' = Waiting PROVE Rests(fd)
    BY <1>3, <2>3, <2>4, QueueMoves DEF Rests, Still, Apart
  <2>5. ASSUME NEW r \in Requests, WorkerStep(r) PROVE Rests(fd) \/ Worked(fd)
    <3>0. Kept(fd)
      <4>1. UNCHANGED <<conns, reg, sock>>
        BY <2>5 DEF WorkerStep, WorkerPush, WorkerSignal, WorkerThrows, WorkerSettle, othersThanTasks,
           netVars, connVars
      <4> QED BY <2>2, <4>1 DEF Kept
    <3>1. CASE Pushed(n, r)
      <4>1. origin[r] \in Nodes /\ Due(r) /\ TasksOf(n)' = TasksOf(n) \ {r} /\ Grew(ItemOf(r))
        <5>1. status[r] \notin {"new", "refused"}
          BY <3>1 DEF Pushed, Due
        <5> QED BY <3>1, <5>1 DEF Pushed, CoreInv, TaskInv
      <4>2. ItemOf(r).fd = origin[r].fd /\ ItemOf(r).id = origin[r].id
        BY DEF ItemOf
      <4>3. n \in Nodes /\ n.fd = fd /\ n.id = conns[fd].id
        <5>1. conns[fd].id \in Nat
          BY <2>2 DEF CoreInv, ConnTypes, ConnType, Open
        <5> QED BY <2>1, <5>1 DEF Node, Nodes
      <4>4. origin[r] = n <=> origin[r].fd = n.fd /\ origin[r].id = n.id
        BY <4>1, <4>3 DEF Nodes
      <4>5. CASE origin[r] = n
        <5>1. r \in TasksFor(fd)
          BY <2>3, <4>1, <4>5 DEF TasksOf
        <5>2. QueuedOf(n)' = QueuedOf(n) \cup {Len(Waiting) + 1}
          BY <4>1, <4>2, <4>4, <4>5, QueueMoves
        <5> QED BY <2>3, <3>0, <4>1, <5>1, <5>2 DEF Worked, Hands, Apart
      <4>6. CASE origin[r] # n
        <5>1. TasksOf(n)' = TasksOf(n)
          BY <4>1, <4>6 DEF TasksOf
        <5>2. QueuedOf(n)' = QueuedOf(n)
          BY <4>1, <4>2, <4>4, <4>6, QueueMoves
        <5> QED BY <2>3, <3>0, <5>1, <5>2 DEF Rests, Still, Apart
      <4> QED BY <4>5, <4>6
    <3>2. CASE Threw(n, r)
      <4>1. Due(r) /\ TasksOf(n)' = TasksOf(n) \ {r} /\ (origin[r] = n => n \in FailedNodes')
            /\ QueuedOf(n)' = QueuedOf(n)
        BY <3>2, QueueMoves DEF Threw
      <4>2. CASE origin[r] = n
        <5>1. r \in TasksFor(fd)
          BY <2>3, <4>1, <4>2 DEF TasksOf
        <5> QED BY <2>1, <2>3, <3>0, <4>1, <4>2, <5>1 DEF Worked, Loses, Apart
      <4>3. CASE origin[r] # n
        <5>1. TasksOf(n)' = TasksOf(n)
          BY <4>1, <4>3 DEF TasksOf
        <5> QED BY <2>3, <3>0, <4>1, <5>1 DEF Rests, Still, Apart
      <4> QED BY <4>2, <4>3
    <3>3. CASE TasksOf(n)' = TasksOf(n) /\ Waiting' = Waiting
      BY <2>4, <3>3
    <3> QED BY <2>5, <3>1, <3>2, <3>3, WorkerFlight
  <2>6. CASE WorkerStart
    BY <2>4, <2>6, StartFlight
  <2>7. CASE ~WorkerStart /\ \A r \in Requests : ~WorkerStep(r)
    BY <2>4, <2>7, StillFlight DEF Handler
  <2> QED BY <2>5, <2>6, <2>7
<1> QED BY <1>1, <1>2, <1>3

LEMMA HandlerLife ==
    ASSUME CoreInv, Handler, NEW fd \in Fds, Open(fd)'
    PROVE  Rests(fd) \/ Passed(fd) \/ Served(fd) \/ Queried(fd) \/ Replied(fd)
<1>1. Bystander(fd) \/ ReadMore(fd) \/ Asked(fd) \/ Resumed(fd) \/ Ignored(fd) \/ Answered1(fd)
  BY HandlerCases, OutcomeCases
<1>2. Open(fd)
  <2>1. CASE Bystander(fd)
    BY <2>1 DEF Bystander, Kept
  <2>2. CASE Answered1(fd)
    BY <2>2 DEF Answered1, Belongs
  <2>3. CASE ReadMore(fd) \/ Asked(fd) \/ Resumed(fd) \/ Ignored(fd)
    BY <2>3 DEF ReadMore, Asked, Resumed, Ignored, OnRead, OnRequest, OnWrite, DrainEvent
  <2> QED BY <1>1, <2>1, <2>2, <2>3
<1>3. PICK n : n = Node(fd)
  OBVIOUS
<1>4. Node(fd)' = n
  BY <1>1, <1>2, <1>3, SameNode DEF Bystander
<1>5. /\ TasksFor(fd) = TasksOf(n) /\ QueuedFor(fd) = QueuedOf(n)
      /\ TasksFor(fd)' = TasksOf(n)' /\ QueuedFor(fd)' = QueuedOf(n)'
  BY <1>3, <1>4, FlightOf
<1>6. n.fd = fd /\ n.id = conns[fd].id
  BY <1>3 DEF Node
<1>7. CASE ~OnRequest /\ ~Answer
  <2>1. Still(fd)
    <3>1. UNCHANGED <<found, respq, status, origin, unsignalled>>
      BY <1>7, HandlerStill
    <3> QED BY <1>5, <3>1 DEF TasksOf, Due, QueuedOf, Waiting, Still
  <2>2. ~Asked(fd) /\ ~Answered1(fd)
    BY <1>7 DEF Asked, Answered1
  <2> QED BY <1>1, <2>1, <2>2 DEF Bystander, Rests, Served, Apart
<1>8. CASE Answer
  <2>1. TasksOf(n)' = TasksOf(n) /\ Shrank /\ Waiting[1] = Head(found) /\ Len(Waiting) >= 1
        /\ Len(Waiting) \in Nat
    BY <1>8, AnswerFlight, WaitingFacts
  <2>2. Moves(fd)
    BY <1>5, <2>1, QueueMoves DEF Moves
  <2>3. 1 \in QueuedFor(fd) <=> Head(found).fd = fd /\ Head(found).id = conns[fd].id
    <3>1. 1 \in 1..Len(Waiting)
      BY <2>1
    <3> QED BY <1>5, <1>6, <2>1, <3>1 DEF QueuedOf
  <2>4. 1 \in QueuedFor(fd) <=> Belongs(Head(found)) /\ Head(found).fd = fd
    BY <1>2, <2>3 DEF Belongs
  <2>5. Bystander(fd) \/ Answered1(fd)
    BY <1>1, <1>8, AnswerAlone DEF ReadMore, Asked, Resumed, Ignored
  <2> QED BY <1>8, <2>2, <2>4, <2>5 DEF Bystander, Passed, Replied, Answered1, Apart
<1>9. CASE OnRequest /\ ~Answer
  <2>1. PICK g \in Fds, r \in Requests : g = Ev.src /\ r = RequestOf(g)
    BY <1>9, OnRequestCases DEF TablePart, CoreInv
  <2>2. /\ Open(g)
        /\ \/ /\ Respond(g, r) /\ Grew(ItemFor(g, r)) /\ TasksOf(n)' = TasksOf(n)
           \/ /\ Pool!Accept(r) /\ Waiting' = Waiting
              /\ TasksOf(n)' = IF Node(g) = n THEN TasksOf(n) \cup {r} ELSE TasksOf(n)
    BY <1>9, <2>1, OnRequestFlight
  <2>3. /\ ItemFor(g, r).fd = n.fd /\ ItemFor(g, r).id = n.id <=> g = fd
        /\ Node(g) = n <=> g = fd
    BY <1>3, <1>6 DEF ItemFor, Node
  <2>4. CASE g = fd
    <3>1. Asked(fd) \/ ReadMore(fd) \/ Resumed(fd) \/ Ignored(fd)
      BY <1>1, <1>9, <2>1, <2>4 DEF Bystander, Answered1
    <3>2. Asked(fd)
      <4>1. ~OnRead
        <5>1. ASSUME OnRead, OnRequest PROVE FALSE
          BY <5>1 DEF OnRead, OnRequest
        <5> QED BY <1>9, <5>1
      <4>2. ~OnWrite /\ ~DrainEvent
        BY <1>9 DEF OnRequest, OnWrite, DrainEvent
      <4> QED BY <3>1, <4>1, <4>2 DEF ReadMore, Resumed, Ignored
    <3>3. CASE Grew(ItemFor(g, r)) /\ TasksOf(n)' = TasksOf(n)
      BY <1>5, <2>3, <2>4, <3>2, <3>3, QueueMoves DEF Queried, Queues
    <3>4. CASE /\ Pool!Accept(r) /\ Waiting' = Waiting
               /\ TasksOf(n)' = TasksOf(n) \cup {r}
      <4>1. Takes(fd)
        BY <1>5, <3>4, QueueMoves DEF Takes
      <4>2. conns'[fd].moved /\ conns'[fd].proc
        <5>1. status'[r] # status[r] /\ status'[r] # "refused" /\ status[r] = "new"
          BY <3>4 DEF Pool!Accept, CoreInv, TaskTypes
        <5>2. ~UNCHANGED taskVars /\ ~Pool!Refuse(r)
          <6>1. UNCHANGED taskVars => status' = status
            BY DEF taskVars, poolVars
          <6>2. Pool!Refuse(r) => status'[r] = "refused"
            BY DEF Pool!Refuse, CoreInv, TaskTypes
          <6> QED BY <5>1, <6>1, <6>2
        <5> QED BY <2>1, <2>4, <3>2, <5>2 DEF Asked
      <4> QED BY <3>2, <4>1, <4>2 DEF Queried
    <3> QED BY <2>2, <2>3, <2>4, <3>3, <3>4
  <2>5. CASE g # fd
    <3>1. Bystander(fd)
      BY <1>1, <1>9, <2>1, <2>5 DEF ReadMore, Asked, Resumed, Ignored, Answered1
    <3>2. TasksOf(n)' = TasksOf(n) /\ QueuedOf(n)' = QueuedOf(n)
      BY <2>2, <2>3, <2>5, QueueMoves
    <3> QED BY <1>5, <3>1, <3>2 DEF Bystander, Rests, Still, Apart
  <2> QED BY <2>4, <2>5
<1> QED BY <1>7, <1>8, <1>9

LEMMA LifeCases ==
    ASSUME CoreInv, PastInv, InHandInv, [Next]_vars, NEW fd \in Fds, Open(fd)'
    PROVE  \/ Born(fd) \/ Rests(fd) \/ Worked(fd)
           \/ Passed(fd) \/ Served(fd) \/ Queried(fd) \/ Replied(fd)
  BY OtherLife, HandlerLife

LEMMA MovesFacts ==
    ASSUME CoreInv, NEW fd \in Fds, Moves(fd)
    PROVE  /\ (\A i, j \in QueuedFor(fd) : i = j) => \A i, j \in QueuedFor(fd)' : i = j
           /\ QueuedFor(fd) = {} => QueuedFor(fd)' = {}
           /\ 1 \notin QueuedFor(fd) /\ QueuedFor(fd) # {} => QueuedFor(fd)' # {}
           /\ 1 \in QueuedFor(fd) /\ (\A i, j \in QueuedFor(fd) : i = j) => QueuedFor(fd)' = {}
<1>1. /\ \A i \in QueuedFor(fd) : i \in Nat /\ i >= 1
      /\ \A i \in QueuedFor(fd)' : i \in Nat /\ i >= 1
  BY DEF QueuedFor
<1>2. \A i \in Nat : i \in QueuedFor(fd)' <=> i >= 1 /\ i + 1 \in QueuedFor(fd)
  BY DEF Moves
<1>3. ASSUME \A i, j \in QueuedFor(fd) : i = j, NEW i \in QueuedFor(fd)', NEW j \in QueuedFor(fd)'
      PROVE  i = j
  <2>1. i \in Nat /\ j \in Nat /\ i + 1 \in QueuedFor(fd) /\ j + 1 \in QueuedFor(fd)
    BY <1>1, <1>2
  <2>2. i + 1 = j + 1
    BY <1>3, <2>1
  <2> QED BY <2>1, <2>2
<1>4. ASSUME 1 \notin QueuedFor(fd), NEW i \in QueuedFor(fd)
      PROVE  QueuedFor(fd)' # {}
  <2>1. i \in Nat /\ i >= 1 /\ i # 1
    BY <1>1, <1>4
  <2>2. i - 1 \in Nat /\ i - 1 >= 1 /\ (i - 1) + 1 = i
    BY <2>1
  <2> QED BY <1>2, <2>2
<1>5. ASSUME 1 \in QueuedFor(fd), \A i, j \in QueuedFor(fd) : i = j, NEW i \in QueuedFor(fd)'
      PROVE  FALSE
  <2>1. i \in Nat /\ i >= 1 /\ i + 1 \in QueuedFor(fd)
    BY <1>1, <1>2
  <2>2. i + 1 = 1
    BY <1>5, <2>1
  <2> QED BY <2>1, <2>2
<1>6. QueuedFor(fd) = {} => QueuedFor(fd)' = {}
  BY <1>1, <1>2
<1> QED BY <1>3, <1>4, <1>5, <1>6

\* What the answer leaves of a connection it does not close.
LEMMA RepliedFacts ==
    ASSUME CoreInv, NEW fd \in Fds, Answered1(fd)
    PROVE  LET c == conns[fd]  d == conns'[fd]
           IN  /\ d.id = c.id /\ ~d.proc /\ d.last = now
               /\ \/ /\ reg'[fd] = "out" /\ d.got = c.got /\ d.moved = c.moved /\ d.resp # NoReq
                     /\ (c.caw => d.caw)
                  \/ /\ reg'[fd] = "in" /\ ~c.caw /\ d.got = 0 /\ ~d.moved /\ d.resp = NoReq
<1> DEFINE a == Answering(fd, Head(found).req).conn
           c == conns[fd]
           d == conns'[fd]
<1>1. Head(found).req \in Requests /\ TablePart /\ Open(fd)
  BY DEF Answered1, Items, CoreInv, TablePart, Belongs
<1>2. /\ a = [c EXCEPT !.proc = FALSE, !.resp = Head(found).req, !.pos = 0]
      /\ a.id = c.id /\ a.got = c.got /\ a.proc = FALSE /\ a.resp # NoReq /\ c \in ConnType
  BY <1>1, AnsweringFacts DEF TablePart, ConnTypes, Open
<1> HIDE DEF a, c
<1>3. a.moved = c.moved /\ a.caw = c.caw
  BY <1>2 DEF ConnType
<1>4. Pausing(fd, a) \/ Renewed(fd, a)
  BY DEF Answered1, a
<1>5. CASE Pausing(fd, a)
  BY <1>2, <1>3, <1>5 DEF Pausing, c
<1>6. CASE Renewed(fd, a)
  <2>1. /\ reg'[fd] = "in" /\ ~a.caw /\ d.last = now /\ d.id = a.id
        /\ d.got = 0 /\ ~d.moved /\ ~d.proc /\ d.resp = NoReq
    BY <1>6 DEF Renewed
  <2> QED BY <1>2, <1>3, <2>1 DEF c
<1> QED BY <1>4, <1>5, <1>6

-----------------------------------------------------------------------------
(* The invariants are inductive *)

LEMMA PeerPast ==
    ASSUME CoreInv, [Next]_vars, NEW c \in Clients
    PROVE  /\ peer[c].fin => peer'[c].fin
           /\ (peer[c].rst => peer[c].fin) => (peer'[c].rst => peer'[c].fin)
<1>0. peer \in [Clients -> PeerType]
  BY DEF CoreInv, NetTypes
<1>1. ASSUME UNCHANGED peer
      PROVE  peer'[c].fin = peer[c].fin /\ peer'[c].rst = peer[c].rst
  BY <1>1
<1>2. ASSUME NEW x \in Clients, ClientStep(x)
      PROVE  (peer[c].fin => peer'[c].fin) /\ (peer'[c].rst => peer[c].rst \/ peer'[c].fin)
  <2>1. \/ \E st \in {"backlog"} : peer' = [peer EXCEPT ![x].st = st]
        \/ peer' = [peer EXCEPT ![x].sent = @ + 1, ![x].unread = @ + 1]
        \/ peer' = [peer EXCEPT ![x].fin = TRUE]
        \/ peer' = [peer EXCEPT ![x].fin = TRUE, ![x].rst = TRUE]
        \/ \E n \in 0..Pieces : peer' = [peer EXCEPT ![x].room = n]
    BY <1>2, IoAssumption DEF ClientStep, Connect, Send, HangUp, Congest, Relieve
  <2> QED BY <1>0, <2>1 DEF PeerType
<1>3. CASE Tick \/ EpollWait
  BY <1>1, <1>3 DEF Tick, EpollWait, netVars
<1>4. CASE Accept
  <2>1. peer' = [peer EXCEPT ![Head(backlog)].st = "open"]
        \/ peer' = [peer EXCEPT ![Head(backlog)].st = "closed"]
    BY <1>4 DEF Accept
  <2> QED BY <1>0, <2>1 DEF PeerType
<1>5. CASE OnTimerTick
  <2>1. peer'[c] = [peer[c] EXCEPT !.st = "closed"] \/ peer'[c] = peer[c]
    BY <1>5 DEF OnTimerTick
  <2> QED BY <1>0, <2>1 DEF PeerType
<1>6. CASE Handler
  <2>1. CASE \E fd \in Fds : \E l : HandlerFor(fd, l) /\ Handled(fd, l) /\ Commit(fd, l)
    <3>1. PICK fd \in Fds : \E l : Commit(fd, l)
      BY <2>1
    <3> PICK l : Commit(fd, l)
      BY <3>1
    <3>2. \E u, s, r : peer' = [peer EXCEPT ![sock[fd]].unread = u, ![sock[fd]].st = s, ![sock[fd]].room = r]
      BY Zenon DEF Commit
    <3> QED BY <1>0, <3>2 DEF PeerType
  <2>2. CASE UNCHANGED tableVars
    BY <1>1, <2>2 DEF tableVars, netVars
  <2> QED BY <1>6, <2>1, <2>2, HandlerStep
<1>7. CASE Quiet
  BY <1>1, <1>7, QuietTable DEF tableVars, netVars
<1> QED BY <1>1, <1>2, <1>3, <1>4, <1>5, <1>6, <1>7, NextCases

\* The tasks that threw stay where they were, and so do the nodes they captured.
LEMMA FailedKept ==
    ASSUME CoreInv, PastInv, [Next]_vars
    PROVE  /\ \A r \in failed' : status'[r] \in {"ran", "done"}
           /\ FailedNodes \subseteq FailedNodes'
<1> USE DEF CoreInv
<1>1. ASSUME failed' = failed,
             \A r \in failed : status'[r] \in {"ran", "done"} /\ origin'[r] = origin[r]
      PROVE  (\A r \in failed' : status'[r] \in {"ran", "done"}) /\ FailedNodes \subseteq FailedNodes'
  BY <1>1 DEF FailedNodes
<1>2. failed \subseteq Requests /\ \A r \in failed : status[r] \in {"ran", "done"}
  BY DEF PastInv, LoopTypes
<1>3. ASSUME UNCHANGED <<failed, status, origin>>
      PROVE  (\A r \in failed' : status'[r] \in {"ran", "done"}) /\ FailedNodes \subseteq FailedNodes'
  BY <1>2, <1>3 DEF FailedNodes
<1>4. CASE OnRequest
  <2>1. failed' = failed
    BY <1>4 DEF OnRequest
  <2>2. PICK g \in Fds, q \in Requests : g = Ev.src /\ q = RequestOf(g)
    BY <1>4, OnRequestCases DEF TablePart
  <2>3. \/ UNCHANGED <<status, origin>>
        \/ Pool!Refuse(q) /\ UNCHANGED origin
        \/ Pool!Accept(q) /\ origin' = [origin EXCEPT ![q] = Node(g)]
    BY <1>4, <2>2, OnRequestCases DEF TablePart, taskVars, poolVars
  <2>4. CASE UNCHANGED <<status, origin>>
    BY <1>3, <2>1, <2>4
  <2>5. CASE Pool!Refuse(q) /\ UNCHANGED origin
    BY <1>1, <1>2, <2>1, <2>5 DEF Pool!Refuse, TaskTypes
  <2>6. CASE Pool!Accept(q) /\ origin' = [origin EXCEPT ![q] = Node(g)]
    <3>1. status[q] = "new"
      BY <2>6 DEF Pool!Accept
    <3>2. \A r \in failed : r # q
      BY <1>2, <3>1
    <3>3. \A r \in Requests : r # q => status'[r] = status[r] /\ origin'[r] = origin[r]
      BY <2>6 DEF Pool!Accept, TaskTypes
    <3> QED BY <1>1, <1>2, <2>1, <3>2, <3>3
  <2> QED BY <2>3, <2>4, <2>5, <2>6
<1>5. CASE WorkerStart
  <2>1. status' = [status EXCEPT ![Head(order)] = "running"] /\ UNCHANGED <<failed, origin>> /\ order # <<>>
    BY <1>5 DEF WorkerStart, Pool!Start, othersThanTasks, ghostVars
  <2>2. Head(order) \in Requests /\ Head(order) = order[1] /\ 1 \in 1..Len(order)
    BY <2>1, HeadTailProperties DEF TaskTypes
  <2>3. status[Head(order)] \in {"pending", "late"}
    BY <2>2 DEF TaskInv
  <2> QED BY <1>1, <1>2, <2>1, <2>2, <2>3 DEF TaskTypes
<1>6. ASSUME NEW q \in Requests, WorkerStep(q)
      PROVE  (\A r \in failed' : status'[r] \in {"ran", "done"}) /\ FailedNodes \subseteq FailedNodes'
  <2>1. CASE WorkerPush(q)
    BY <1>3, <2>1 DEF WorkerPush, othersThanTasks, ghostVars, poolVars
  <2>2. CASE WorkerSignal(q)
    <3>1. status' = [status EXCEPT ![q] = "ran"] /\ UNCHANGED <<failed, origin>>
      BY <2>2 DEF WorkerSignal, Pool!Finish, othersThanTasks, ghostVars
    <3> QED BY <1>1, <1>2, <3>1 DEF TaskTypes
  <2>3. CASE WorkerThrows(q)
    <3>1. /\ status' = [status EXCEPT ![q] = "ran"] /\ UNCHANGED origin
          /\ failed' = failed \cup {q}
      BY <2>3 DEF WorkerThrows, Pool!Finish
    <3> QED BY <1>2, <3>1 DEF TaskTypes, FailedNodes
  <2>4. CASE WorkerSettle(q)
    <3>1. status' = [status EXCEPT ![q] = "done"] /\ UNCHANGED <<failed, origin>>
      BY <2>4 DEF WorkerSettle, Pool!Settle, othersThanTasks, ghostVars
    <3> QED BY <1>1, <1>2, <3>1 DEF TaskTypes
  <2> QED BY <1>6, <2>1, <2>2, <2>3, <2>4 DEF WorkerStep
<1>7. CASE CloseDescriptors \/ StopPool
  BY <1>3, <1>7 DEF CloseDescriptors, StopPool, Pool!Close, Pool!GoDown, othersThanMain, ghostVars
<1>8. CASE ~TaskStep
  <2>1. UNCHANGED <<status, origin>>
    BY <1>8, TaskCases DEF taskVars, poolVars
  <2>2. UNCHANGED failed
    <3>1. CASE \E c \in Clients : ClientStep(c)
      BY <3>1 DEF ClientStep, Connect, Send, HangUp, Congest, Relieve, othersThanPeer, ghostVars
    <3>2. CASE Tick \/ EpollWait \/ Accept \/ OnTimerTick
      BY <3>2 DEF Tick, EpollWait, Accept, OnTimerTick, ghostVars
    <3>3. CASE Handler
      BY <3>3 DEF Handler, OnRead, ReadTooLarge, OnRequest, OnWrite, Answer, DrainEvent, ghostVars
    <3>4. CASE Quiet
      <4>1. CASE TestRunning \/ OnConnect \/ AcceptEnds \/ UnknownFd \/ ReadMovedParser \/ ReadEventFd
        BY <4>1 DEF TestRunning, OnConnect, AcceptEnds, UnknownFd, ReadMovedParser, ReadEventFd,
           othersThanLoop, ghostVars
      <4>2. CASE Collect \/ Answered \/ DrainTasks \/ DrainQueue \/ DrainSpecial
        BY <4>2 DEF Collect, Answered, DrainTasks, DrainQueue, DrainSpecial, othersThanLoop, ghostVars
      <4>3. CASE StopRunning \/ MainStep
        BY <1>8, <4>3 DEF StopRunning, MainStep, StopResponseQueue, othersThanMain, ghostVars, TaskStep
      <4>4. CASE UNCHANGED vars
        BY <4>4 DEF vars, ghostVars
      <4> QED BY <1>8, <3>4, <4>1, <4>2, <4>3, <4>4 DEF Quiet, TaskStep
    <3> QED BY <3>1, <3>2, <3>3, <3>4, NextCases
  <2> QED BY <1>3, <2>1, <2>2
<1> QED BY <1>4, <1>5, <1>6, <1>7, <1>8 DEF TaskStep

\* The queue of responses changes by one at a time.
LEMMA WaitingMoves ==
    ASSUME CoreInv, InHandInv, [Next]_vars
    PROVE  \/ Waiting' = Waiting \/ (Shrank /\ Len(Waiting) >= 1)
           \/ \E x : Grew(x) /\ x.id \in Nat /\ x.id <= nextId
<1>1. PICK n : n = NoReq
  OBVIOUS
<1>2. CASE OnRequest
  <2>1. PICK g \in Fds, r \in Requests : g = Ev.src /\ r = RequestOf(g)
    BY <1>2, OnRequestCases DEF TablePart, CoreInv
  <2>2. Open(g) /\ (Grew(ItemFor(g, r)) \/ Waiting' = Waiting)
    BY <1>2, <2>1, OnRequestFlight
  <2>3. ItemFor(g, r).id \in Nat /\ ItemFor(g, r).id <= nextId
    BY <2>2 DEF ItemFor, CoreInv, TableInv, ConnTypes, ConnType, Open
  <2> QED BY <2>2, <2>3
<1>3. CASE Answer
  BY <1>3, AnswerFlight
<1>4. CASE WorkerStart
  BY <1>4, StartFlight
<1>5. ASSUME NEW r \in Requests, WorkerStep(r)
      PROVE  Waiting' = Waiting \/ \E x : Grew(x) /\ x.id \in Nat /\ x.id <= nextId
  <2>1. CASE Pushed(n, r)
    <3>1. Grew(ItemOf(r)) /\ status[r] \notin {"new", "refused"}
      BY <2>1 DEF Pushed, Due
    <3>2. ItemOf(r).id \in Nat /\ ItemOf(r).id <= nextId
      BY <3>1 DEF ItemOf, CoreInv, TaskInv, Nodes
    <3> QED BY <3>1, <3>2
  <2> QED BY <1>5, <2>1, WorkerFlight DEF Threw
<1> QED BY <1>2, <1>3, <1>4, <1>5, StillFlight

LEMMA PastStep ==
    ASSUME CoreInv, PastInv, InHandInv, [Next]_vars
    PROVE  PastInv'
<1>1. \A i \in 1..Len(Waiting') : Waiting'[i].id <= nextId'
  <2>1. nextId \in Nat /\ nextId' \in Nat /\ nextId <= nextId' /\ Len(Waiting) \in Nat
    BY NextIdGrows, WaitingFacts DEF CoreInv, ConnTypes
  <2>2. \A i \in 1..Len(Waiting) : Waiting[i].id <= nextId /\ Waiting[i].id \in Nat
    <3>1. \A i \in 1..Len(Waiting) : Waiting[i] \in Items
      BY WaitingFacts
    <3> QED BY <3>1 DEF PastInv, Waiting, Items
  <2> DEFINE w == Waiting
  <2>3. CASE Waiting' = w
    BY <2>1, <2>2, <2>3
  <2>4. CASE Shrank
    <3>1. Len(Waiting') = Len(w) - 1 /\ \A i \in 1..Len(Waiting') : Waiting'[i] = w[i + 1]
      BY <2>4 DEF Shrank
    <3> HIDE DEF w
    <3>2. \A i \in 1..Len(Waiting') : i + 1 \in 1..Len(w)
      BY <2>1, <3>1 DEF w
    <3>3. ASSUME NEW i \in 1..Len(Waiting') PROVE Waiting'[i].id <= nextId'
      <4>1. Waiting'[i] = w[i + 1]
        BY <3>1
      <4>2. w[i + 1].id <= nextId /\ w[i + 1].id \in Nat
        BY <2>2, <3>2 DEF w
      <4> QED BY <2>1, <4>1, <4>2
    <3> QED BY <3>3
  <2>5. CASE \E x : Grew(x) /\ x.id \in Nat /\ x.id <= nextId
    <3>1. PICK x : Grew(x) /\ x.id \in Nat /\ x.id <= nextId
      BY <2>5
    <3>2. Len(Waiting') = Len(w) + 1 /\ Waiting'[Len(w) + 1] = x /\ \A i \in 1..Len(w) : Waiting'[i] = w[i]
      BY <3>1 DEF Grew
    <3>3. 1..(Len(w) + 1) = 1..Len(w) \cup {Len(w) + 1}
      BY <2>1
    <3> HIDE DEF w
    <3> QED BY <2>1, <2>2, <3>1, <3>2, <3>3 DEF w
  <2> QED BY <2>3, <2>4, <2>5, WaitingMoves
<1>2. \A c \in Clients : peer'[c].rst => peer'[c].fin
  BY PeerPast DEF PastInv
<1>3. \A r \in failed' : status'[r] \in {"ran", "done"}
  BY FailedKept
<1> QED BY <1>1, <1>2, <1>3 DEF PastInv, Waiting

\* What a connection has in flight belongs to one request, read whole.
LEMMA BusyStep ==
    ASSUME CoreInv, PastInv, InHandInv, BusyInv, [Next]_vars
    PROVE  BusyInv'
<1> SUFFICES ASSUME NEW fd \in Fds, Open(fd)'
             PROVE  /\ InFlight(fd)' => conns'[fd].got = Frags /\ (conns'[fd].moved \/ conns'[fd].caw)
                    /\ conns'[fd].moved => AtMostOne(fd)'
                    /\ TasksFor(fd)' # {} => conns'[fd].moved /\ conns'[fd].proc
  BY DEF BusyInv
<1> DEFINE c == conns[fd]
           d == conns'[fd]
<1>1. Open(fd) => /\ InFlight(fd) => c.got = Frags /\ (c.moved \/ c.caw)
                  /\ c.moved => AtMostOne(fd)
                  /\ TasksFor(fd) # {} => c.moved /\ c.proc
                  /\ c \in ConnType
  BY DEF BusyInv, CoreInv, ConnTypes, Open
<1>2. Frags \in Nat \ {0} /\ Len(Waiting) \in Nat /\ Len(Waiting) + 1 \notin QueuedFor(fd)
  BY IoAssumption, WaitingFacts DEF QueuedFor, Waiting
<1>3. \/ Born(fd) \/ Rests(fd) \/ Worked(fd)
      \/ Passed(fd) \/ Served(fd) \/ Queried(fd) \/ Replied(fd)
  BY LifeCases
<1>4. CASE Born(fd)
  <2>1. TasksFor(fd)' = {} /\ QueuedFor(fd)' = {} /\ d.resp = NoReq /\ ~d.moved
    BY <1>4 DEF Born, NewConn, Fresh
  <2> QED BY <2>1 DEF InFlight
<1>5. CASE Rests(fd)
  BY <1>1, <1>5 DEF Rests, Kept, Silenced, Still, InFlight, AtMostOne
<1>6. CASE Worked(fd)
  <2>1. Open(fd) /\ d = c /\ TasksFor(fd) # {}
    BY <1>6 DEF Worked, Kept, Hands, Loses
  <2>2. c.moved /\ c.proc /\ AtMostOne(fd) /\ c.got = Frags
    BY <1>1, <2>1 DEF InFlight
  <2>3. TasksFor(fd)' = {} /\ QueuedFor(fd) = {} /\ c.resp = NoReq
        /\ (QueuedFor(fd)' = QueuedFor(fd) \/ QueuedFor(fd)' = QueuedFor(fd) \cup {Len(Waiting) + 1})
    BY <1>6, <2>1, <2>2 DEF Worked, Hands, Loses, AtMostOne
  <2> QED BY <2>1, <2>2, <2>3 DEF InFlight, AtMostOne
<1>7. CASE Passed(fd)
  <2>1. Open(fd) /\ d = c /\ TasksFor(fd)' = TasksFor(fd) /\ Moves(fd)
    BY <1>7 DEF Passed, Kept, Moves
  <2>2. /\ QueuedFor(fd) = {} => QueuedFor(fd)' = {}
        /\ (\A i, j \in QueuedFor(fd) : i = j) => \A i, j \in QueuedFor(fd)' : i = j
    BY <2>1, MovesFacts
  <2> QED BY <1>1, <2>1, <2>2 DEF InFlight, AtMostOne
<1>8. CASE Served(fd)
  <2>0. TasksFor(fd)' = TasksFor(fd) /\ QueuedFor(fd)' = QueuedFor(fd)
    BY <1>8 DEF Served, Still
  <2>1. CASE ReadMore(fd)
    <3>1. Open(fd) /\ ~d.moved /\ c.got <= d.got /\ d.got < Frags /\ d.resp = c.resp /\ ~c.moved
      BY <2>1 DEF ReadMore, OnRead
    <3>2. c.got \in Nat /\ d.got \in Nat
      <4>1. d \in ConnType
        BY CoreStep DEF CoreInv, ConnTypes, Open
      <4> QED BY <1>1, <3>1, <4>1, IoAssumption DEF ConnType
    <3>3. ~InFlight(fd)
      BY <1>1, <1>2, <3>1, <3>2
    <3> QED BY <2>0, <3>1, <3>3 DEF InFlight
  <2>2. CASE Resumed(fd)
    <3>1. Open(fd) /\ c.resp # NoReq /\ (Pausing(fd, c) \/ Renewed(fd, c))
      BY <2>2 DEF Resumed, OnWrite, DrainEvent
    <3>2. CASE Pausing(fd, c)
      BY <1>1, <2>0, <3>1, <3>2 DEF Pausing, InFlight, AtMostOne
    <3>3. CASE Renewed(fd, c)
      <4>1. c.moved /\ AtMostOne(fd)
        BY <1>1, <3>1, <3>3 DEF Renewed, InFlight
      <4>2. TasksFor(fd) = {} /\ QueuedFor(fd) = {}
        BY <3>1, <4>1 DEF AtMostOne
      <4> QED BY <2>0, <3>3, <4>2 DEF Renewed, InFlight
    <3> QED BY <3>1, <3>2, <3>3
  <2>3. CASE Ignored(fd)
    <3>1. Open(fd) /\ d = [c EXCEPT !.caw = c.caw \/ Ev.rdhup]
      BY <2>3 DEF Ignored, OnWrite, DrainEvent
    <3>2. d.got = c.got /\ d.moved = c.moved /\ d.proc = c.proc /\ d.resp = c.resp /\ (c.caw => d.caw)
      BY <1>1, <3>1 DEF ConnType
    <3> QED BY <1>1, <2>0, <3>1, <3>2 DEF InFlight, AtMostOne
  <2> QED BY <1>8, <2>1, <2>2, <2>3 DEF Served
<1>9. CASE Queried(fd)
  <2>1. Open(fd) /\ ~c.moved /\ d.got = Frags /\ d.resp = c.resp /\ TasksFor(fd) = {}
    BY <1>1, <1>9 DEF Queried, Asked, OnRequest
  <2>2. \/ d.caw /\ ~d.moved
        \/ c.got < Frags /\ d.moved
    BY <1>9 DEF Queried, Asked
  <2>3. c.got < Frags => QueuedFor(fd) = {} /\ c.resp = NoReq
    BY <1>1, <1>2, <2>1 DEF InFlight
  <2>4. CASE Queues(fd)
    <3>1. TasksFor(fd)' = {} /\ QueuedFor(fd)' = QueuedFor(fd) \cup {Len(Waiting) + 1}
      BY <2>1, <2>4 DEF Queues
    <3> QED BY <2>1, <2>2, <2>3, <3>1 DEF InFlight, AtMostOne
  <2>5. CASE Takes(fd) /\ d.moved /\ d.proc
    <3>1. QueuedFor(fd)' = QueuedFor(fd) /\ \E r : TasksFor(fd)' = {r}
      BY <2>1, <2>5 DEF Takes
    <3> QED BY <2>1, <2>2, <2>3, <2>5, <3>1 DEF InFlight, AtMostOne
  <2> QED BY <1>9, <2>4, <2>5 DEF Queried
<1>10. CASE Replied(fd)
  <2>1. Open(fd) /\ 1 \in QueuedFor(fd) /\ Moves(fd) /\ TasksFor(fd)' = TasksFor(fd)
    BY <1>10 DEF Replied, Answered1, Belongs, Moves
  <2>2. InFlight(fd) /\ c.got = Frags /\ (c.moved \/ c.caw)
    BY <1>1, <2>1 DEF InFlight
  <2>3. c.moved => TasksFor(fd) = {} /\ (\A i, j \in QueuedFor(fd) : i = j)
    BY <1>1, <2>1 DEF AtMostOne
  <2>4. TasksFor(fd) = {}
    BY <1>1, <2>1, <2>3
  <2>5. c.moved => QueuedFor(fd)' = {}
    BY <2>1, <2>3, MovesFacts
  <2>6. \/ d.got = c.got /\ d.moved = c.moved /\ (c.caw => d.caw)
        \/ ~c.caw /\ ~d.moved /\ d.resp = NoReq
    BY <1>10, RepliedFacts DEF Replied
  <2> QED BY <2>1, <2>2, <2>4, <2>5, <2>6 DEF InFlight, AtMostOne
<1> QED BY <1>3, <1>4, <1>5, <1>6, <1>7, <1>8, <1>9, <1>10

LEMMA AcceptedGrows ==
    ASSUME CoreInv, [Next]_vars, NEW c \in Clients, c \in Accepted
    PROVE  c \in Accepted'
<1>0. peer \in [Clients -> PeerType] /\ peer[c].st \in {"open", "closed"}
  BY DEF CoreInv, NetTypes, Accepted
<1> SUFFICES peer'[c].st \in {"open", "closed"}
  BY DEF Accepted
<1>1. ASSUME NEW x \in Clients, ClientStep(x) PROVE peer'[c].st \in {"open", "closed"}
  <2>1. \/ peer[x].st = "new" /\ peer' = [peer EXCEPT ![x].st = "backlog"]
        \/ peer' = [peer EXCEPT ![x].sent = @ + 1, ![x].unread = @ + 1]
        \/ peer' = [peer EXCEPT ![x].fin = TRUE]
        \/ peer' = [peer EXCEPT ![x].fin = TRUE, ![x].rst = TRUE]
        \/ \E n \in 0..Pieces : peer' = [peer EXCEPT ![x].room = n]
    BY <1>1, IoAssumption DEF ClientStep, Connect, Send, HangUp, Congest, Relieve
  <2> QED BY <1>0, <2>1 DEF PeerType
<1>2. CASE Tick \/ EpollWait
  BY <1>0, <1>2 DEF Tick, EpollWait, netVars
<1>3. CASE Accept
  <2>1. peer' = [peer EXCEPT ![Head(backlog)].st = "open"]
        \/ peer' = [peer EXCEPT ![Head(backlog)].st = "closed"]
    BY <1>3 DEF Accept
  <2> QED BY <1>0, <2>1 DEF PeerType
<1>4. CASE OnTimerTick
  <2>1. peer'[c] = [peer[c] EXCEPT !.st = "closed"] \/ peer'[c] = peer[c]
    BY <1>4 DEF OnTimerTick
  <2> QED BY <1>0, <2>1 DEF PeerType
<1>5. CASE Handler
  <2>1. CASE \E fd \in Fds : \E l : HandlerFor(fd, l) /\ Handled(fd, l) /\ Commit(fd, l)
    <3>1. PICK fd \in Fds : \E l : Commit(fd, l)
      BY <2>1
    <3> PICK l : Commit(fd, l)
      BY <3>1
    <3>2. \E u, r : peer' = [peer EXCEPT ![sock[fd]].unread = u,
                                ![sock[fd]].st = IF l.conn = NoConn THEN "closed" ELSE @, ![sock[fd]].room = r]
      BY Zenon DEF Commit
    <3> QED BY <1>0, <3>2 DEF PeerType
  <2>2. CASE UNCHANGED tableVars
    BY <1>0, <2>2 DEF tableVars, netVars
  <2> QED BY <1>5, <2>1, <2>2, HandlerStep
<1>6. CASE Quiet
  BY <1>0, <1>6, QuietTable DEF tableVars, netVars
<1> QED BY <1>1, <1>2, <1>3, <1>4, <1>5, <1>6, NextCases

\* Each source reports one event.
LEMMA ReadyOf ==
    ASSUME TablePart, NEW e \in ReadyEvents
    PROVE  IF e.src \in Fds THEN e.src \in ReadyFds /\ e = FdEvent(e.src) ELSE e = [src |-> e.src]
<1>1. CASE \E fd \in ReadyFds : e = FdEvent(fd)
  <2>1. PICK fd \in ReadyFds : e = FdEvent(fd)
    BY <1>1
  <2>2. e.src = fd /\ fd \in Fds
    BY <2>1 DEF FdEvent, ReadyFds
  <2> QED BY <2>1, <2>2
<1>2. CASE \E s \in SpecialSources : e = [src |-> s]
  BY <1>2, ModelValuesAssumption
<1> QED BY <1>1, <1>2 DEF ReadyEvents

\* An event in the batch is in hand no longer: it came from no client socket, its
\* connection is gone, or a handler was called for it.
Spent == batch # <<>> /\ batch' = Tail(batch) /\ (Ev.src \notin Fds \/ UnknownFd \/ (Handler /\ ~Answer))

LEMMA BatchCases ==
    ASSUME CoreInv, InHandInv, BatchInv, [Next]_vars
    PROVE  /\ EpollWait \/ batch' = batch \/ Spent
           /\ batch' # <<>> /\ io' \notin {"event", "crashed"} => (Head(batch')).src \notin Fds
<1> USE DEF CoreInv
<1> DEFINE Next1 == batch' # <<>> /\ io' \notin {"event", "crashed"} => (Head(batch')).src \notin Fds
<1>0. ASSUME UNCHANGED <<io, batch>> PROVE batch' = batch /\ Next1
  BY <1>0 DEF BatchInv, Ev
<1>1. ASSUME NEW rest, AfterEvent(rest) PROVE Next1
  BY <1>1 DEF AfterEvent
<1>2. CASE \E c \in Clients : ClientStep(c)
  BY <1>0, <1>2 DEF ClientStep, Connect, Send, HangUp, Congest, Relieve, othersThanPeer, loopVars
<1>3. CASE Tick \/ Accept
  BY <1>0, <1>3 DEF Tick, Accept, loopVars
<1>4. CASE EpollWait
  BY <1>1, <1>4 DEF EpollWait
<1>5. CASE OnTimerTick
  <2>1. AfterEvent(Tail(batch)) /\ Ev.src = "timer" /\ batch # <<>>
    BY <1>5 DEF OnTimerTick, Handling, Control
  <2> QED BY <1>1, <2>1, ModelValuesAssumption DEF AfterEvent, Spent, SpecialSources
<1>6. CASE Answer
  BY <1>0, <1>6 DEF Answer
<1>7. CASE Handler /\ ~Answer
  <2>1. AfterEvent(Tail(batch)) /\ batch # <<>>
    BY <1>7 DEF Handler, OnRead, ReadTooLarge, OnRequest, OnWrite, DrainEvent, Control
  <2> QED BY <1>1, <1>7, <2>1 DEF AfterEvent, Spent
<1>8. CASE Quiet
  <2>1. CASE TestRunning \/ DrainTasks \/ DrainQueue
    <3>1. batch = <<>> /\ batch' = batch
      BY <2>1 DEF TestRunning, DrainTasks, DrainQueue, InHandInv
    <3> QED BY <3>1
  <2>2. CASE OnConnect \/ ReadEventFd
    <3>1. Ev.src \notin Fds /\ batch' = batch
      BY <2>2, ModelValuesAssumption DEF OnConnect, ReadEventFd, Handling, SpecialSources
    <3> QED BY <3>1 DEF Ev
  <2>3. CASE AcceptEnds
    <3>1. io = "accept" /\ AfterEvent(Tail(batch)) /\ batch # <<>>
      BY <2>3 DEF AcceptEnds, Control
    <3>2. Ev.src \notin Fds
      BY <3>1 DEF BatchInv
    <3> QED BY <1>1, <3>1, <3>2 DEF AfterEvent, Spent
  <2>4. CASE UnknownFd \/ DrainSpecial
    <3>1. AfterEvent(Tail(batch)) /\ batch # <<>> /\ (UnknownFd \/ Ev.src \notin Fds)
      BY <2>4 DEF UnknownFd, DrainSpecial, Control
    <3> QED BY <1>1, <3>1 DEF AfterEvent, Spent
  <2>5. CASE ReadMovedParser
    <3>1. batch' = batch /\ io' = "crashed"
      BY <2>5 DEF ReadMovedParser
    <3> QED BY <3>1
  <2>6. CASE Collect
    <3>1. batch' = batch /\ io = "collect"
      BY <2>6 DEF Collect
    <3> QED BY <3>1 DEF BatchInv, Ev
  <2>7. CASE Answered
    <3>1. CASE draining
      <4>1. batch = <<>> /\ batch' = batch
        BY <2>7, <3>1 DEF Answered, InHandInv
      <4> QED BY <4>1
    <3>2. CASE ~draining
      <4>1. io = "answer" /\ AfterEvent(Tail(batch)) /\ batch # <<>>
        BY <2>7, <3>2 DEF Answered, Control
      <4>2. Ev.src \notin Fds
        BY <4>1 DEF BatchInv
      <4> QED BY <1>1, <4>1, <4>2 DEF AfterEvent, Spent
    <3> QED BY <3>1, <3>2
  <2>8. CASE WorkerStart \/ \E r \in Requests : WorkerStep(r)
    BY <1>0, <2>8 DEF WorkerStart, WorkerStep, WorkerPush, WorkerSignal, WorkerThrows, WorkerSettle,
       othersThanTasks, loopVars
  <2>9. CASE StopRunning \/ MainStep
    BY <1>0, <2>9 DEF StopRunning, MainStep, StopResponseQueue, CloseDescriptors, StopPool,
       othersThanMain, loopVars
  <2>10. CASE UNCHANGED vars
    BY <1>0, <2>10 DEF vars, loopVars
  <2> QED BY <1>8, <2>1, <2>2, <2>3, <2>4, <2>5, <2>6, <2>7, <2>8, <2>9, <2>10 DEF Quiet
<1> QED BY <1>2, <1>3, <1>4, <1>5, <1>6, <1>7, <1>8, NextCases

LEMMA BatchStep ==
    ASSUME CoreInv, PastInv, InHandInv, BatchInv, [Next]_vars
    PROVE  BatchInv'
<1>1. batch' # <<>> /\ io' \notin {"event", "crashed"} => Ev'.src \notin Fds
  BY BatchCases DEF Ev
<1> DEFINE Distinct(b) == \A i, j \in 1..Len(b) : b[i].src = b[j].src => i = j
           Fine(e) == e.src \in Fds =>
                        /\ e.of \in Accepted
                        /\ e.in \/ e.out \/ e.rdhup \/ e.hup
                        /\ e.rdhup \/ e.hup => peer[e.of].fin
           Fine2(e) == e.src \in Fds =>
                        /\ e.of \in Accepted'
                        /\ e.in \/ e.out \/ e.rdhup \/ e.hup
                        /\ e.rdhup \/ e.hup => peer'[e.of].fin
<1>2. \A e : Fine(e) => Fine2(e)
  <2> SUFFICES ASSUME NEW e, Fine(e), e.src \in Fds PROVE Fine2(e)
    OBVIOUS
  <2>1. e.of \in Clients /\ e.of \in Accepted
    BY DEF Accepted
  <2> QED BY <2>1, AcceptedGrows, PeerPast
<1>3. Distinct(batch) /\ \A i \in 1..Len(batch) : Fine(batch[i])
  BY DEF BatchInv
<1>4. batch \in Seq(Events) /\ Len(batch) \in Nat
  BY DEF CoreInv, LoopTypes
<1>5. Distinct(batch') /\ \A i \in 1..Len(batch') : Fine2(batch'[i])
  <2>1. CASE batch' = batch
    BY <1>2, <1>3, <2>1
  <2>2. CASE batch # <<>> /\ batch' = Tail(batch)
    <3>1. /\ Len(batch') = Len(batch) - 1
          /\ \A i \in 1..Len(batch') : i + 1 \in 1..Len(batch) /\ batch'[i] = batch[i + 1]
      BY <1>4, <2>2, HeadTailProperties
    <3>2. Distinct(batch')
      <4> SUFFICES ASSUME NEW i \in 1..Len(batch'), NEW j \in 1..Len(batch'), batch'[i].src = batch'[j].src
                   PROVE  i = j
        OBVIOUS
      <4>1. i + 1 = j + 1
        BY <1>3, <3>1
      <4> QED BY <1>4, <3>1, <4>1
    <3> HIDE DEF Fine, Fine2
    <3> QED BY <1>2, <1>3, <3>1, <3>2
  <2>3. CASE EpollWait
    <3>1. PICK b \in Orders(ReadyEvents) : AfterEvent(b)
      BY <2>3 DEF EpollWait
    <3>2. TablePart
      BY DEF TablePart, CoreInv
    <3>3. batch' = b /\ (\A i \in 1..Len(b) : b[i] \in ReadyEvents) /\ \A i, j \in 1..Len(b) : b[i] = b[j] => i = j
      BY <3>1, <3>2, OrdersFacts DEF AfterEvent
    <3>4. Distinct(b)
      <4> SUFFICES ASSUME NEW i \in 1..Len(b), NEW j \in 1..Len(b), b[i].src = b[j].src
                   PROVE  b[i] = b[j]
        BY <3>3
      <4>1. b[i] \in ReadyEvents /\ b[j] \in ReadyEvents
        BY <3>3
      <4> QED BY <3>2, <4>1, ReadyOf
    <3>5. ASSUME NEW e \in ReadyEvents PROVE Fine(e)
      <4> SUFFICES ASSUME e.src \in Fds PROVE Fine(e)
        OBVIOUS
      <4>1. PICK fd \in ReadyFds : fd = e.src /\ e = FdEvent(fd)
        BY <3>2, ReadyOf
      <4>2. fd \in Fds /\ Armed(fd) /\ (e.in \/ e.out \/ e.rdhup \/ e.hup)
        BY <4>1 DEF ReadyFds
      <4>3. Open(fd) /\ sock[fd] \in Clients
        BY <3>2, <4>2, FdEventFacts
      <4>4. sock[fd] \in Accepted
        BY <4>2, <4>3 DEF Accepted, CoreInv, TableInv
      <4>5. e.of = sock[fd] /\ e.rdhup = peer[sock[fd]].fin /\ e.hup = peer[sock[fd]].rst
        BY <4>1 DEF FdEvent
      <4> QED BY <4>2, <4>3, <4>4, <4>5 DEF PastInv
    <3> HIDE DEF Fine, Fine2, Distinct
    <3> QED BY <1>2, <3>3, <3>4, <3>5
  <2> QED BY <2>1, <2>2, <2>3, BatchCases DEF Spent
<1> QED BY <1>1, <1>5 DEF BatchInv

LEMMA SameSock ==
    ASSUME CoreInv, Handler, NEW fd \in Fds, Open(fd)'
    PROVE  sock'[fd] = sock[fd]
  BY HandlerCases DEF Bystander, Kept, HandledBy

LEMMA InheritedGrows == ASSUME [Next]_vars PROVE inherited \subseteq inherited'
<1>1. CASE \E c \in Clients : ClientStep(c)
  BY <1>1 DEF ClientStep, Connect, Send, HangUp, Congest, Relieve, othersThanPeer, ghostVars
<1>2. CASE Tick \/ EpollWait \/ Accept \/ OnTimerTick
  BY <1>2 DEF Tick, EpollWait, Accept, OnTimerTick, ghostVars
<1>3. CASE Handler
  BY <1>3 DEF Handler, OnRead, ReadTooLarge, OnRequest, OnWrite, DrainEvent, Answer, ghostVars, NoteInherited
<1>4. CASE Quiet
  <2>1. CASE TestRunning \/ OnConnect \/ AcceptEnds \/ UnknownFd \/ ReadMovedParser \/ ReadEventFd
    BY <2>1 DEF TestRunning, OnConnect, AcceptEnds, UnknownFd, ReadMovedParser, ReadEventFd,
       othersThanLoop, ghostVars
  <2>2. CASE Collect \/ Answered \/ DrainTasks \/ DrainQueue \/ DrainSpecial
    BY <2>2 DEF Collect, Answered, DrainTasks, DrainQueue, DrainSpecial, othersThanLoop, ghostVars
  <2>3. CASE WorkerStart \/ \E r \in Requests : WorkerStep(r)
    BY <2>3 DEF WorkerStart, WorkerStep, WorkerPush, WorkerSignal, WorkerThrows, WorkerSettle,
       othersThanTasks, ghostVars
  <2>4. CASE StopRunning \/ MainStep
    BY <2>4 DEF StopRunning, MainStep, StopResponseQueue, CloseDescriptors, StopPool, othersThanMain,
       ghostVars
  <2>5. CASE UNCHANGED vars
    BY <2>5 DEF vars, ghostVars
  <2> QED BY <1>4, <2>1, <2>2, <2>3, <2>4, <2>5 DEF Quiet
<1> QED BY <1>1, <1>2, <1>3, <1>4, NextCases

\* Where the events of fd in the batch come from, and where they go.
LEMMA EventsOf ==
    ASSUME CoreInv, InHandInv, BatchInv, [Next]_vars, ~EpollWait, NEW fd \in Fds
    PROVE  /\ \A i \in 1..Len(batch') : batch'[i].src = fd =>
                  \E j \in 1..Len(batch) : batch[j] = batch'[i] /\ ~(Spent /\ Ev.src = fd)
           /\ \A j \in 1..Len(batch) : batch[j].src = fd =>
                  (\E i \in 1..Len(batch') : batch'[i] = batch[j]) \/ (Spent /\ Ev.src = fd)
<1>1. batch \in Seq(Events) /\ Len(batch) \in Nat
  BY DEF CoreInv, LoopTypes
<1>2. CASE Spent
  <2>1. batch # <<>> /\ batch' = Tail(batch)
    BY <1>2 DEF Spent
  <2>2. /\ Len(batch') = Len(batch) - 1 /\ Ev = batch[1] /\ 1 \in 1..Len(batch)
        /\ \A i \in 1..Len(batch') : i + 1 \in 1..Len(batch) /\ batch'[i] = batch[i + 1]
    BY <1>1, <2>1, HeadTailProperties DEF Ev
  <2>3. ASSUME NEW i \in 1..Len(batch'), batch'[i].src = fd PROVE Ev.src # fd
    <3>1. i + 1 # 1
      BY <1>1, <2>2
    <3>2. batch[i + 1].src # batch[1].src
      BY <2>2, <3>1 DEF BatchInv
    <3> QED BY <2>2, <2>3, <3>2
  <2>4. ASSUME NEW j \in 1..Len(batch), batch[j].src = fd, Ev.src # fd
        PROVE  \E i \in 1..Len(batch') : batch'[i] = batch[j]
    <3>1. j # 1
      BY <2>2, <2>4
    <3>2. j - 1 \in 1..Len(batch') /\ (j - 1) + 1 = j
      BY <1>1, <2>2, <3>1
    <3> QED BY <2>2, <3>2
  <2> QED BY <1>2, <2>2, <2>3, <2>4
<1>3. CASE ~Spent
  <2>1. batch' = batch
    BY <1>3, BatchCases
  <2> QED BY <1>3, <2>1
<1> QED BY <1>2, <1>3

\* A connection at rest is not the one an event was handled for.
LEMMA ApartFacts ==
    ASSUME NEW fd, Kept(fd), Apart(fd)
    PROVE  ~(Spent /\ Ev.src = fd) \/ fd \notin Fds
  BY DEF Apart, Spent, Kept, UnknownFd, Open

\* A connection whose event has been handled, and which had no other's, was
\* silent: idle, if the event was for reading, or with a response to be written.
LEMMA ServedFacts ==
    ASSUME CoreInv, InHandInv, BatchInv, ShieldInv, [Next]_vars, NEW fd \in Fds, Open(fd)',
           Served(fd) \/ Queried(fd), sock'[fd] \notin inherited'
    PROVE  /\ Open(fd) /\ sock'[fd] = sock[fd] /\ sock[fd] \notin inherited
           /\ Handler /\ ~Answer /\ Spent /\ Ev.src = fd /\ ~EpollWait
           /\ Ev = batch[1] /\ 1 \in 1..Len(batch) /\ Ev.of = sock[fd]
           /\ reg[fd] = "off" /\ (Ev.in => Idle(fd)) /\ (~Ev.in => conns[fd].resp # NoReq)
<1>1. OnRead \/ OnRequest \/ OnWrite \/ DrainEvent
  BY DEF Served, Queried, ReadMore, Asked, Resumed, Ignored
<1>2. Ev.src = fd
  BY DEF Served, Queried, ReadMore, Asked, Resumed, Ignored
<1>3. Handler /\ ~Answer /\ Open(fd) /\ NoteInherited(fd) /\ batch # <<>> /\ batch' = Tail(batch) /\ io = "event"
  BY <1>1, <1>2, AnswerAlone DEF Handler, OnRead, OnRequest, OnWrite, DrainEvent, AfterEvent, CoreInv, Control
<1>4. sock'[fd] = sock[fd]
  BY <1>3, SameSock
<1>5. sock[fd] \notin inherited /\ Ev.of = sock[fd]
  BY <1>3, <1>4 DEF NoteInherited
<1>6. Ev = batch[1] /\ 1 \in 1..Len(batch)
  BY <1>3, HeadTailProperties DEF CoreInv, LoopTypes, Ev
<1>7. EventFits(fd, Ev)
  BY <1>2, <1>3, <1>5, <1>6 DEF ShieldInv
<1>8. ~EpollWait
  BY <1>3 DEF EpollWait
<1> QED BY <1>2, <1>3, <1>4, <1>5, <1>6, <1>7, <1>8 DEF Spent, EventFits

\* A connection that keeps away from other connections' events had nothing of
\* one when it was last there.
LEMMA ShieldBefore ==
    ASSUME ShieldInv, [Next]_vars, NEW fd \in Fds, Open(fd), sock'[fd] = sock[fd], sock'[fd] \notin inherited'
    PROVE  /\ sock[fd] \notin inherited /\ AtMostOne(fd)
           /\ reg[fd] = "in" => Idle(fd)
           /\ reg[fd] = "out" => conns[fd].resp # NoReq
           /\ \A i \in 1..Len(batch) : batch[i].src = fd => EventFits(fd, batch[i])
  BY InheritedGrows DEF ShieldInv

\* epoll_wait finds a connection as its registration says.
LEMMA ReportFits ==
    ASSUME CoreInv, PastInv, ShieldInv, EpollWait, NEW fd \in Fds, Open(fd)', sock[fd] \notin inherited,
           NEW i \in 1..Len(batch'), batch'[i].src = fd
    PROVE  EventFits(fd, batch[i])'
<1>1. TablePart
  BY DEF TablePart, CoreInv
<1>2. PICK b \in Orders(ReadyEvents) : AfterEvent(b)
  BY DEF EpollWait
<1>3. batch' = b /\ batch'[i] \in ReadyEvents
  BY <1>1, <1>2, OrdersFacts DEF AfterEvent
<1>4. PICK e : e = batch'[i]
  OBVIOUS
<1>5. fd \in ReadyFds /\ e = FdEvent(fd)
  BY <1>1, <1>3, <1>4, ReadyOf
<1>6. /\ e.of = sock[fd] /\ e.in = (reg[fd] = "in" /\ (peer[sock[fd]].unread > 0 \/ peer[sock[fd]].fin))
      /\ e.out = (reg[fd] = "out" /\ (peer[sock[fd]].room > 0 \/ peer[sock[fd]].rst))
      /\ e.rdhup = peer[sock[fd]].fin /\ e.hup = peer[sock[fd]].rst
  BY <1>5 DEF FdEvent
<1>7. Armed(fd) /\ (e.in \/ e.out \/ e.rdhup \/ e.hup)
  BY <1>5 DEF ReadyFds
<1>8. Open(fd) /\ sock[fd] \in Clients
  BY <1>1, <1>7, FdEventFacts
<1>9. UNCHANGED <<conns, sock>> /\ reg'[fd] = "off"
  BY <1>5 DEF EpollWait, Disarm, connVars
<1>10. e.in => Idle(fd)
  BY <1>6, <1>8 DEF ShieldInv
<1>11. ~e.in => conns[fd].resp # NoReq
  <2>1. ASSUME ~e.in PROVE reg[fd] = "out"
    BY <1>6, <1>7, <1>8, <2>1 DEF Armed, PastInv
  <2> QED BY <1>8, <2>1 DEF ShieldInv
<1>12. Idle(fd)' <=> Idle(fd)
  BY <1>9 DEF Idle
<1>13. EventFits(fd, e)'
  BY <1>6, <1>9, <1>10, <1>11, <1>12 DEF EventFits
<1> QED BY <1>4, <1>13

LEMMA ShieldStep ==
    ASSUME CoreInv, PastInv, InHandInv, BusyInv, BatchInv, ShieldInv, [Next]_vars
    PROVE  ShieldInv'
<1> SUFFICES ASSUME NEW fd \in Fds, Open(fd)', sock'[fd] \notin inherited'
             PROVE  /\ AtMostOne(fd)'
                    /\ reg'[fd] = "in" => Idle(fd)'
                    /\ reg'[fd] = "out" => conns'[fd].resp # NoReq
                    /\ \A i \in 1..Len(batch') : batch'[i].src = fd => EventFits(fd, batch[i])'
  BY DEF ShieldInv
<1> DEFINE c == conns[fd]
           d == conns'[fd]
<1>1. Frags \in Nat \ {0} /\ Len(Waiting) \in Nat /\ Len(Waiting) + 1 \notin QueuedFor(fd)
  BY IoAssumption, WaitingFacts DEF QueuedFor, Waiting
<1>2. \/ Born(fd) \/ Rests(fd) \/ Worked(fd)
      \/ Passed(fd) \/ Served(fd) \/ Queried(fd) \/ Replied(fd)
  BY LifeCases
<1>3. CASE Born(fd)
  <2>1. /\ TasksFor(fd)' = {} /\ QueuedFor(fd)' = {} /\ d = Fresh(nextId + 1) /\ reg'[fd] = "in"
        /\ backlog # <<>> /\ sock'[fd] = Head(backlog) /\ batch' = batch
    BY <1>3 DEF Born, NewConn, Accept, loopVars
  <2>2. d.resp = NoReq /\ ~d.moved /\ d.got = 0
    BY <2>1 DEF Fresh
  <2>3. AtMostOne(fd)'
    BY <2>1, <2>2 DEF AtMostOne
  <2>4. Idle(fd)'
    BY <1>1, <2>2 DEF Idle
  <2>5. sock'[fd] \notin Accepted
    <3>1. Head(backlog) = backlog[1] /\ 1 \in 1..Len(backlog)
      BY <2>1, HeadTailProperties DEF CoreInv, NetTypes
    <3> QED BY <2>1, <3>1 DEF CoreInv, BacklogInv, Accepted
  <2>6. \A i \in 1..Len(batch') : batch'[i].src = fd => EventFits(fd, batch[i])'
    BY <2>1, <2>5 DEF BatchInv, EventFits
  <2> QED BY <2>1, <2>3, <2>4, <2>6
<1>4. CASE Rests(fd) \/ Worked(fd) \/ Passed(fd)
  <2>1. /\ Open(fd) /\ sock'[fd] = sock[fd] /\ d = c
        /\ (Kept(fd) /\ Apart(fd) /\ reg'[fd] = reg[fd]) \/ (Silenced(fd) /\ EpollWait /\ reg'[fd] = "off" /\ Rests(fd))
    BY <1>4 DEF Rests, Worked, Passed, Kept, Silenced
  <2>2. /\ sock[fd] \notin inherited /\ AtMostOne(fd)
        /\ reg[fd] = "in" => Idle(fd)
        /\ reg[fd] = "out" => c.resp # NoReq
        /\ \A i \in 1..Len(batch) : batch[i].src = fd => EventFits(fd, batch[i])
    BY <2>1, ShieldBefore
  <2>3. Idle(fd)' <=> Idle(fd)
    BY <2>1 DEF Idle
  <2>4. AtMostOne(fd)'
    <3>1. CASE Rests(fd)
      BY <2>1, <2>2, <3>1 DEF Rests, Still, AtMostOne
    <3>2. CASE Worked(fd)
      <4>1. TasksFor(fd)' = {} /\ QueuedFor(fd) = {} /\ c.resp = NoReq
            /\ (QueuedFor(fd)' = QueuedFor(fd) \/ QueuedFor(fd)' = QueuedFor(fd) \cup {Len(Waiting) + 1})
        BY <2>2, <3>2 DEF Worked, Hands, Loses, AtMostOne
      <4> QED BY <2>1, <4>1 DEF AtMostOne
    <3>3. CASE Passed(fd)
      <4>1. /\ QueuedFor(fd) = {} => QueuedFor(fd)' = {}
            /\ (\A i, j \in QueuedFor(fd) : i = j) => \A i, j \in QueuedFor(fd)' : i = j
            /\ TasksFor(fd)' = TasksFor(fd)
        BY <3>3, MovesFacts DEF Passed, Moves
      <4> QED BY <2>1, <2>2, <4>1 DEF AtMostOne
    <3> QED BY <1>4, <3>1, <3>2, <3>3
  <2>5. \A i \in 1..Len(batch') : batch'[i].src = fd => EventFits(fd, batch[i])'
    <3>1. CASE EpollWait
      BY <2>2, <3>1, ReportFits
    <3>2. CASE ~EpollWait
      <4> SUFFICES ASSUME NEW i \in 1..Len(batch'), batch'[i].src = fd PROVE EventFits(fd, batch[i])'
        OBVIOUS
      <4>1. PICK j \in 1..Len(batch) : batch[j] = batch'[i]
        BY <3>2, EventsOf
      <4>2. EventFits(fd, batch[j])
        BY <2>2, <4>1
      <4>3. reg'[fd] = reg[fd]
        BY <2>1, <3>2
      <4> QED BY <2>1, <2>3, <4>1, <4>2, <4>3 DEF EventFits
    <3> QED BY <3>1, <3>2
  <2> QED BY <2>1, <2>2, <2>3, <2>4, <2>5
<1>5. CASE Served(fd) \/ Queried(fd)
  <2>1. /\ Open(fd) /\ sock'[fd] = sock[fd] /\ Spent /\ Ev.src = fd /\ ~EpollWait
        /\ reg[fd] = "off" /\ (Ev.in => Idle(fd)) /\ (~Ev.in => c.resp # NoReq)
    BY <1>5, ServedFacts
  <2>2. AtMostOne(fd) /\ c \in ConnType
    BY <2>1, ShieldBefore DEF CoreInv, ConnTypes, Open
  <2>3. \A i \in 1..Len(batch') : batch'[i].src # fd
    BY <2>1, EventsOf
  <2>4. ASSUME TasksFor(fd)' = TasksFor(fd), QueuedFor(fd)' = QueuedFor(fd), d.resp = c.resp
        PROVE  AtMostOne(fd)'
    BY <2>2, <2>4 DEF AtMostOne
  <2>5. CASE Served(fd)
    <3>0. TasksFor(fd)' = TasksFor(fd) /\ QueuedFor(fd)' = QueuedFor(fd)
      BY <2>5 DEF Served, Still
    <3>1. CASE ReadMore(fd)
      <4>1. d.resp = c.resp /\ reg'[fd] = "in" /\ d.got < Frags /\ ~d.moved
        BY <3>1 DEF ReadMore
      <4>2. Idle(fd)'
        BY <4>1 DEF Idle
      <4> QED BY <2>3, <2>4, <3>0, <4>1, <4>2
    <3>2. CASE Resumed(fd)
      <4>1. c.resp # NoReq /\ (Pausing(fd, c) \/ Renewed(fd, c))
        BY <3>2 DEF Resumed
      <4>2. CASE Pausing(fd, c)
        <5>1. d.resp = c.resp /\ reg'[fd] = "out"
          BY <4>2 DEF Pausing
        <5> QED BY <2>3, <2>4, <3>0, <4>1, <5>1
      <4>3. CASE Renewed(fd, c)
        <5>1. d.resp = NoReq /\ reg'[fd] = "in" /\ d.got = 0 /\ ~d.moved
          BY <4>3 DEF Renewed
        <5>2. Idle(fd)'
          BY <1>1, <5>1 DEF Idle
        <5>3. AtMostOne(fd)'
          BY <2>2, <3>0, <4>1, <5>1 DEF AtMostOne
        <5> QED BY <2>3, <5>1, <5>2, <5>3
      <4> QED BY <4>1, <4>2, <4>3
    <3>3. CASE Ignored(fd)
      <4>1. d = [c EXCEPT !.caw = c.caw \/ Ev.rdhup] /\ reg'[fd] = reg[fd]
        BY <3>3 DEF Ignored
      <4>2. d.resp = c.resp
        BY <2>2, <4>1 DEF ConnType
      <4> QED BY <2>1, <2>3, <2>4, <3>0, <4>1, <4>2
    <3> QED BY <2>5, <3>1, <3>2, <3>3 DEF Served
  <2>6. CASE Queried(fd)
    <3>1. Ev.in /\ reg'[fd] = reg[fd] /\ d.resp = c.resp
      BY <2>6 DEF Queried, Asked
    <3>2. c.got < Frags /\ c.got \in Nat
      BY <2>1, <2>2, <3>1, IoAssumption DEF Idle, ConnType
    <3>3. TasksFor(fd) = {} /\ QueuedFor(fd) = {} /\ c.resp = NoReq
      <4>1. ~InFlight(fd)
        BY <1>1, <2>1, <3>2 DEF BusyInv
      <4> QED BY <4>1 DEF InFlight
    <3>4. CASE Queues(fd)
      <4>1. TasksFor(fd)' = {} /\ QueuedFor(fd)' = {Len(Waiting) + 1}
        BY <3>3, <3>4 DEF Queues
      <4> QED BY <2>1, <2>3, <3>1, <3>3, <4>1 DEF AtMostOne
    <3>5. CASE Takes(fd)
      <4>1. QueuedFor(fd)' = {} /\ \E r : TasksFor(fd)' = {r}
        BY <3>3, <3>5 DEF Takes
      <4> QED BY <2>1, <2>3, <3>1, <3>3, <4>1 DEF AtMostOne
    <3> QED BY <2>6, <3>4, <3>5 DEF Queried
  <2> QED BY <1>5, <2>5, <2>6
<1>6. CASE Replied(fd)
  <2>1. /\ Answer /\ Open(fd) /\ 1 \in QueuedFor(fd) /\ Moves(fd) /\ TasksFor(fd)' = TasksFor(fd)
        /\ batch' = batch
    BY <1>6 DEF Replied, Answered1, Belongs, Moves, Answer
  <2>2. sock'[fd] = sock[fd]
    BY <2>1, SameSock DEF Handler
  <2>3. /\ AtMostOne(fd) /\ (reg[fd] = "in" => Idle(fd))
        /\ \A i \in 1..Len(batch) : batch[i].src = fd => EventFits(fd, batch[i])
    BY <2>1, <2>2, ShieldBefore
  <2>4. c.got = Frags /\ TasksFor(fd) = {} /\ c.resp = NoReq /\ \A i, j \in QueuedFor(fd) : i = j
    BY <2>1, <2>3 DEF BusyInv, InFlight, AtMostOne
  <2>5. QueuedFor(fd)' = {}
    BY <2>1, <2>4, MovesFacts
  <2>6. ~Idle(fd)
    BY <1>1, <2>4 DEF Idle
  <2>7. \A i \in 1..Len(batch') : batch'[i].src # fd
    BY <2>1, <2>3, <2>4, <2>6 DEF EventFits
  <2>8. \/ reg'[fd] = "out" /\ d.resp # NoReq
        \/ reg'[fd] = "in" /\ d.got = 0 /\ ~d.moved
    BY <1>6, RepliedFacts DEF Replied
  <2>9. AtMostOne(fd)'
    BY <2>1, <2>4, <2>5 DEF AtMostOne
  <2>10. d.got = 0 /\ ~d.moved => Idle(fd)'
    BY <1>1 DEF Idle
  <2> QED BY <2>7, <2>8, <2>9, <2>10
<1> QED BY <1>2, <1>3, <1>4, <1>5, <1>6

\* A read into a parser that has been moved away ends the process, and only a
\* connection that was handed another's event can come to that.
CrashInv == io = "crashed" => batch # <<>> /\ sock[Ev.src] \in inherited

LEMMA CrashStep ==
    ASSUME CoreInv, ShieldInv, CrashInv, [Next]_vars
    PROVE  CrashInv'
<1>1. CASE io = "crashed"
  <2>1. UNCHANGED vars
    BY <1>1 DEF Next, Alive, IoStep, ClientStep, WorkerStep, MainStep, Terminated, TestRunning, EpollWait,
       OnConnect, Accept, AcceptEnds, OnTimerTick, Handling, UnknownFd, ReadMovedParser, OnRead,
       ReadTooLarge, OnRequest, OnWrite, ReadEventFd, Collect, Answer, Answered, DrainTasks, DrainQueue,
       DrainSpecial, DrainEvent
  <2> QED BY <2>1 DEF CrashInv, vars, loopVars, netVars, ghostVars, Ev
<1>2. CASE io # "crashed" /\ ReadMovedParser
  <2>1. /\ io = "event" /\ Ev.src \in Fds /\ Open(Ev.src) /\ Ev.in /\ conns[Ev.src].moved
        /\ batch # <<>> /\ UNCHANGED <<batch, sock, inherited>>
    BY <1>2 DEF ReadMovedParser, othersThanLoop, netVars, ghostVars, CoreInv, Control
  <2>2. Ev = batch[1] /\ 1 \in 1..Len(batch)
    BY <2>1, HeadTailProperties DEF CoreInv, LoopTypes, Ev
  <2>3. sock[Ev.src] \in inherited
    <3> SUFFICES ASSUME sock[Ev.src] \notin inherited PROVE FALSE
      OBVIOUS
    <3>1. EventFits(Ev.src, Ev) /\ (reg[Ev.src] = "in" => Idle(Ev.src))
      BY <2>1, <2>2 DEF ShieldInv
    <3> QED BY <2>1, <3>1 DEF EventFits, Idle
  <2>4. Ev' = Ev
    BY <2>1 DEF Ev
  <2> QED BY <2>1, <2>3, <2>4 DEF CrashInv
<1>3. CASE io # "crashed" /\ ~ReadMovedParser
  <2>1. io' # "crashed"
    <3>1. CASE \E c \in Clients : ClientStep(c)
      BY <1>3, <3>1 DEF ClientStep, Connect, Send, HangUp, Congest, Relieve, othersThanPeer, loopVars
    <3>2. CASE Tick \/ EpollWait \/ Accept \/ OnTimerTick
      BY <1>3, <3>2 DEF Tick, EpollWait, Accept, OnTimerTick, AfterEvent, loopVars
    <3>3. CASE Handler
      BY <1>3, <3>3 DEF Handler, OnRead, ReadTooLarge, OnRequest, OnWrite, Answer, DrainEvent, AfterEvent
    <3>4. CASE Quiet
      <4>1. CASE TestRunning \/ OnConnect \/ AcceptEnds \/ UnknownFd \/ ReadEventFd
        BY <1>3, <4>1 DEF TestRunning, OnConnect, AcceptEnds, UnknownFd, ReadEventFd, AfterEvent
      <4>2. CASE Collect \/ Answered \/ DrainTasks \/ DrainQueue \/ DrainSpecial
        BY <1>3, <4>2 DEF Collect, Answered, DrainTasks, DrainQueue, DrainSpecial, AfterEvent
      <4>3. CASE WorkerStart \/ \E r \in Requests : WorkerStep(r)
        BY <1>3, <4>3 DEF WorkerStart, WorkerStep, WorkerPush, WorkerSignal, WorkerThrows, WorkerSettle,
           othersThanTasks, loopVars
      <4>4. CASE StopRunning \/ MainStep
        BY <1>3, <4>4 DEF StopRunning, MainStep, StopResponseQueue, CloseDescriptors, StopPool,
           othersThanMain, loopVars
      <4>5. CASE UNCHANGED vars
        BY <1>3, <4>5 DEF vars, loopVars
      <4> QED BY <1>3, <3>4, <4>1, <4>2, <4>3, <4>4, <4>5 DEF Quiet
    <3> QED BY <3>1, <3>2, <3>3, <3>4, NextCases
  <2> QED BY <2>1 DEF CrashInv
<1> QED BY <1>1, <1>2, <1>3

\* Whoever has a task, a response in the queue or a task that threw keeps one of
\* the three, until the response is handled.
LEMMA OwedKept ==
    ASSUME CoreInv, PastInv, InHandInv, [Next]_vars, NEW fd \in Fds, Open(fd), Node(fd)' = Node(fd),
           TasksFor(fd) # {} \/ QueuedFor(fd) # {} \/ Node(fd) \in FailedNodes,
           Rests(fd) \/ Worked(fd) \/ Passed(fd) \/ Served(fd)
    PROVE  TasksFor(fd)' # {} \/ QueuedFor(fd)' # {} \/ Node(fd)' \in FailedNodes'
<1>1. CASE Node(fd) \in FailedNodes
  BY <1>1, FailedKept
<1>2. CASE Rests(fd) \/ Served(fd)
  BY <1>1, <1>2 DEF Rests, Served, Still
<1>3. CASE Worked(fd)
  BY <1>3 DEF Worked, Hands, Loses
<1>4. CASE Passed(fd)
  BY <1>1, <1>4, MovesFacts DEF Passed, Moves
<1> QED BY <1>1, <1>2, <1>3, <1>4

LEMMA ExemptionStep ==
    ASSUME CoreInv, PastInv, InHandInv, ExemptionEnds, [Next]_vars
    PROVE  ExemptionEnds'
<1> SUFFICES ASSUME NEW fd \in Fds, Open(fd)', conns'[fd].proc
             PROVE  TasksFor(fd)' # {} \/ QueuedFor(fd)' # {} \/ Node(fd)' \in FailedNodes'
  BY DEF ExemptionEnds
<1> DEFINE c == conns[fd]
           d == conns'[fd]
<1>1. \/ Born(fd) \/ Rests(fd) \/ Worked(fd)
      \/ Passed(fd) \/ Served(fd) \/ Queried(fd) \/ Replied(fd)
  BY LifeCases
<1>2. Open(fd) /\ c.proc => TasksFor(fd) # {} \/ QueuedFor(fd) # {} \/ Node(fd) \in FailedNodes
  BY DEF ExemptionEnds
<1>3. CASE Born(fd)
  BY <1>3 DEF Born, NewConn, Fresh
<1>4. CASE Rests(fd) \/ Worked(fd) \/ Passed(fd)
  <2>1. Open(fd) /\ d = c
    BY <1>4 DEF Rests, Worked, Passed, Kept, Silenced
  <2>2. Node(fd)' = Node(fd)
    BY <1>4, <2>1, SameNode DEF Rests, Worked, Passed
  <2> QED BY <1>2, <1>4, <2>1, <2>2, OwedKept
<1>5. CASE Served(fd)
  <2>1. Open(fd) /\ c \in ConnType
    BY <1>5 DEF Served, ReadMore, Resumed, Ignored, OnRead, OnWrite, DrainEvent, CoreInv, ConnTypes, Open
  <2>2. Node(fd)' = Node(fd)
    BY <1>5, <2>1, SameNode DEF Served
  <2>3. c.proc
    <3>1. CASE Ignored(fd)
      <4>1. d = [c EXCEPT !.caw = c.caw \/ Ev.rdhup]
        BY <3>1 DEF Ignored
      <4> QED BY <2>1, <4>1 DEF ConnType
    <3> QED BY <1>5, <3>1 DEF Served, ReadMore, Resumed, Pausing, Renewed
  <2> QED BY <1>2, <1>5, <2>1, <2>2, <2>3, OwedKept
<1>6. CASE Queried(fd)
  BY <1>6 DEF Queried, Queues, Takes
<1>7. CASE Replied(fd)
  BY <1>7, RepliedFacts DEF Replied
<1> QED BY <1>1, <1>3, <1>4, <1>5, <1>6, <1>7

LEMMA DeafStep ==
    ASSUME CoreInv, PastInv, InHandInv, BatchInv, ShieldInv, NeverDeaf, [Next]_vars
    PROVE  NeverDeaf'
<1> SUFFICES ASSUME NEW fd \in Fds, Open(fd)', reg'[fd] = "off", sock'[fd] \notin inherited'
             PROVE  \/ Node(fd)' \in FailedNodes'
                    \/ \E i \in 1..Len(batch') : batch'[i].src = fd
                    \/ TasksFor(fd)' # {} \/ QueuedFor(fd)' # {}
                    \/ conns'[fd].resp # NoReq /\ peer'[sock'[fd]].fin
  BY DEF NeverDeaf
<1> DEFINE c == conns[fd]
           d == conns'[fd]
<1>1. \/ Born(fd) \/ Rests(fd) \/ Worked(fd)
      \/ Passed(fd) \/ Served(fd) \/ Queried(fd) \/ Replied(fd)
  BY LifeCases
<1>2. CASE Born(fd)
  BY <1>2 DEF Born, NewConn
<1>3. CASE Rests(fd) /\ Silenced(fd)
  <2>1. EpollWait /\ fd \in ReadyFds
    BY <1>3 DEF Silenced
  <2>2. PICK b \in Orders(ReadyEvents) : AfterEvent(b)
    BY <2>1 DEF EpollWait
  <2>3. FdEvent(fd) \in ReadyEvents /\ FdEvent(fd).src = fd
    BY <2>1 DEF ReadyEvents, FdEvent
  <2>4. batch' = b /\ \E i \in 1..Len(b) : b[i] = FdEvent(fd)
    BY <2>2, <2>3, OrdersFacts DEF AfterEvent, TablePart, CoreInv
  <2> QED BY <2>3, <2>4
<1>4. CASE (Rests(fd) /\ Kept(fd)) \/ Worked(fd) \/ Passed(fd)
  <2>1. Open(fd) /\ d = c /\ sock'[fd] = sock[fd] /\ reg'[fd] = reg[fd] /\ Kept(fd) /\ Apart(fd)
    BY <1>4 DEF Rests, Worked, Passed, Kept
  <2>2. Node(fd)' = Node(fd)
    BY <2>1, SameNode
  <2>3. sock[fd] \notin inherited /\ sock[fd] \in Clients
    BY <2>1, InheritedGrows DEF CoreInv, NetTypes, TableInv
  <2>4. \/ Node(fd) \in FailedNodes
        \/ \E i \in 1..Len(batch) : batch[i].src = fd
        \/ TasksFor(fd) # {} \/ QueuedFor(fd) # {}
        \/ c.resp # NoReq /\ peer[sock[fd]].fin
    BY <2>1, <2>3 DEF NeverDeaf
  <2>5. CASE TasksFor(fd) # {} \/ QueuedFor(fd) # {} \/ Node(fd) \in FailedNodes
    BY <1>4, <2>1, <2>2, <2>5, OwedKept
  <2>6. CASE c.resp # NoReq /\ peer[sock[fd]].fin
    BY <2>1, <2>3, <2>6, PeerPast
  <2>7. CASE \E i \in 1..Len(batch) : batch[i].src = fd
    <3>1. ~EpollWait
      <4>1. EpollWait => batch = <<>>
        BY DEF EpollWait, InHandInv
      <4> QED BY <2>7, <4>1
    <3>2. ~(Spent /\ Ev.src = fd)
      BY <2>1, ApartFacts
    <3> QED BY <2>7, <3>1, <3>2, EventsOf
  <2> QED BY <2>4, <2>5, <2>6, <2>7
<1>5. CASE Served(fd)
  <2>1. /\ Open(fd) /\ sock'[fd] = sock[fd] /\ Ev.src = fd /\ Ev = batch[1] /\ 1 \in 1..Len(batch)
        /\ Ev.of = sock[fd] /\ (~Ev.in => c.resp # NoReq) /\ c \in ConnType
    BY <1>5, ServedFacts DEF CoreInv, ConnTypes, Open
  <2>2. Ignored(fd)
    BY <1>5 DEF Served, ReadMore, Resumed, Pausing, Renewed
  <2>3. d = [c EXCEPT !.caw = c.caw \/ Ev.rdhup] /\ ~Ev.in /\ (~Ev.out \/ c.resp = NoReq)
    BY <2>2 DEF Ignored
  <2>4. d.resp # NoReq /\ ~Ev.out
    BY <2>1, <2>3 DEF ConnType
  <2>5. peer[sock[fd]].fin
    BY <2>1, <2>3, <2>4 DEF BatchInv
  <2>6. sock[fd] \in Clients
    BY <2>1 DEF CoreInv, NetTypes, TableInv
  <2> QED BY <2>1, <2>4, <2>5, <2>6, PeerPast
<1>6. CASE Queried(fd)
  BY <1>6 DEF Queried, Queues, Takes
<1>7. CASE Replied(fd)
  BY <1>7, RepliedFacts DEF Replied
<1> QED BY <1>1, <1>2, <1>3, <1>4, <1>5, <1>6, <1>7 DEF Rests

-----------------------------------------------------------------------------
(* The timeout list *)

\* The entry e is the node of an open connection.
Listed(e) == Open(e.fd) /\ e = Node(e.fd)

\* A step keeps entries of the list in their order, and may append one that was
\* active last.
LEMMA ListMap ==
    ASSUME ListInv, nextId \in Nat, nextId' \in Nat, nextId <= nextId',
           timeouts \in Seq(Nodes), timeouts' \in Seq(Nodes),
           NEW n \in Nat, NEW g \in [1..n -> 1..Len(timeouts)],
           Len(timeouts') = n \/ Len(timeouts') = n + 1,
           \A i, j \in 1..n : i < j => g[i] < g[j],
           \A i \in 1..n : timeouts'[i] = timeouts[g[i]],
           \A i \in 1..n : Current(i)' =>
               Current(g[i]) /\ conns'[timeouts'[i].fd].last = conns[timeouts'[i].fd].last,
           AddMayFail \/ \A i \in 1..Len(timeouts') : Current(i)',
           Len(timeouts') = n + 1 =>
               /\ timeouts'[n + 1].id <= nextId'
               /\ \A i \in 1..n :
                      /\ timeouts'[i] # timeouts'[n + 1]
                      /\ Current(i)' /\ Current(n + 1)' =>
                             conns'[timeouts'[i].fd].last <= conns'[timeouts'[n + 1].fd].last
    PROVE  ListInv'
<1>1. ASSUME NEW i \in 1..Len(timeouts') PROVE timeouts'[i].id <= nextId'
  <2>1. CASE i \in 1..n
    <3>1. g[i] \in 1..Len(timeouts) /\ timeouts'[i] = timeouts[g[i]]
      BY <2>1
    <3>2. timeouts[g[i]] \in Nodes
      BY <3>1, ElementOfSeq
    <3>3. timeouts[g[i]].id \in Nat /\ timeouts[g[i]].id <= nextId
      BY <3>1, <3>2 DEF ListInv, Nodes
    <3> QED BY <3>1, <3>3
  <2>2. CASE i \notin 1..n
    <3>1. i = n + 1 /\ Len(timeouts') = n + 1
      BY <2>2
    <3> QED BY <3>1
  <2> QED BY <2>1, <2>2
<1>2. ASSUME NEW i \in 1..Len(timeouts'), NEW j \in 1..Len(timeouts'), i < j
      PROVE  /\ timeouts'[i] # timeouts'[j]
             /\ Current(i)' /\ Current(j)' => conns'[timeouts'[i].fd].last <= conns'[timeouts'[j].fd].last
  <2>0. i \in 1..n
    BY <1>2
  <2>1. CASE j \in 1..n
    <3>1. /\ g[i] \in 1..Len(timeouts) /\ g[j] \in 1..Len(timeouts) /\ g[i] < g[j]
          /\ timeouts'[i] = timeouts[g[i]] /\ timeouts'[j] = timeouts[g[j]]
      BY <1>2, <2>0, <2>1
    <3>2. /\ timeouts[g[i]] # timeouts[g[j]]
          /\ Current(g[i]) /\ Current(g[j]) =>
                 conns[timeouts[g[i]].fd].last <= conns[timeouts[g[j]].fd].last
      BY <3>1 DEF ListInv
    <3>3. /\ Current(i)' => Current(g[i]) /\ conns'[timeouts'[i].fd].last = conns[timeouts'[i].fd].last
          /\ Current(j)' => Current(g[j]) /\ conns'[timeouts'[j].fd].last = conns[timeouts'[j].fd].last
      BY <2>0, <2>1
    <3> QED BY <3>1, <3>2, <3>3
  <2>2. CASE j \notin 1..n
    <3>1. j = n + 1 /\ Len(timeouts') = n + 1
      BY <2>2
    <3> QED BY <2>0, <3>1
  <2> QED BY <2>1, <2>2
<1> QED BY <1>1, <1>2 DEF ListInv

\* The list without the entry at place k, for the places before and after it.
Skip(k, i) == IF i < k THEN i ELSE i + 1

LEMMA HandledList ==
    ASSUME CoreInv, ListInv, NEW fd \in Fds, NEW l, Handled(fd, l), Commit(fd, l)
    PROVE  ListInv'
<1>0. TablePart
  BY DEF CoreInv, TablePart
<1>1. /\ conns' = [conns EXCEPT ![fd] = l.conn] /\ timeouts' = TimeoutsAfter(fd, l) /\ nextId' = nextId
      /\ Open(fd) /\ l \in Locals /\ conns[fd] \in ConnType
      /\ l.conn # NoConn => /\ l.conn.id = conns[fd].id
                            /\ l.conn.last = IF l.touched THEN now ELSE conns[fd].last
  BY DEF Commit, Handled, Local, CoreInv, ConnTypes, Open
<1>2. /\ timeouts \in Seq(Nodes) /\ Len(timeouts) \in Nat /\ nextId \in Nat /\ now \in Nat
      /\ timeouts' \in Seq(Nodes) /\ \E i \in 1..Len(timeouts) : timeouts[i] = Node(fd)
  BY <1>0, <1>1, TimeoutsAfterFacts, IoAssumption DEF TablePart, ConnTypes, NetTypes, ListedInv
<1> DEFINE m == Len(timeouts)
           o == Node(fd)
<1>3. \A f \in Fds : f # fd => conns'[f] = conns[f]
  BY <1>1 DEF CoreInv, ConnTypes
<1>4. conns'[fd] = l.conn
  BY <1>1 DEF CoreInv, ConnTypes
<1>5. \A i \in 1..m : timeouts[i] \in Nodes /\ timeouts[i].fd \in Fds
  <2>1. ASSUME NEW i \in 1..Len(timeouts) PROVE timeouts[i] \in Nodes
    BY <1>2, ElementOfSeq
  <2>2. ASSUME NEW x \in Nodes PROVE x.fd \in Fds
    BY DEF Nodes
  <2> QED BY <2>1, <2>2
<1>6. \A i \in 1..m : Listed(timeouts[i]) <=> Current(i)
  BY DEF Listed, Current
<1>7. \A i \in 1..Len(timeouts') : Listed(timeouts[i])' <=> Current(i)'
  BY DEF Listed, Current
<1>8. ASSUME NEW e, e.fd \in Fds, e.fd # fd
      PROVE  /\ Listed(e)' <=> Listed(e)
             /\ conns'[e.fd].last = conns[e.fd].last
  BY <1>3, <1>8 DEF Listed, Open, Node
<1>9. ASSUME NEW e, e.fd = fd, Listed(e)
      PROVE  e = o
  BY <1>9 DEF Listed
<1>10. CASE l.conn # NoConn /\ ~l.touched
  <2>1. timeouts' = timeouts
    BY <1>1, <1>10 DEF TimeoutsAfter
  <2>2. ASSUME NEW e, e.fd \in Fds
        PROVE  /\ Listed(e)' <=> Listed(e)
               /\ conns'[e.fd].last = conns[e.fd].last
    BY <1>1, <1>3, <1>4, <1>10, <2>2 DEF Listed, Open, Node
  <2>3. \A i \in 1..m : Current(i)' <=> Current(i)
    <3> SUFFICES ASSUME NEW i \in 1..m PROVE Current(i)' <=> Current(i)
      OBVIOUS
    <3>1. PICK e : e = timeouts[i]
      OBVIOUS
    <3>2. e.fd \in Fds /\ e = timeouts'[i]
      BY <1>5, <2>1, <3>1
    <3>3. (Current(i)' <=> Listed(e)') /\ (Current(i) <=> Listed(e))
      BY <3>1, <3>2 DEF Current, Listed
    <3> QED BY <2>2, <3>2, <3>3
  <2>4. \A i \in 1..m : conns'[timeouts[i].fd].last = conns[timeouts[i].fd].last
    BY <1>5, <2>2
  <2> QED BY <1>1, <2>1, <2>3, <2>4 DEF ListInv
<1>11. CASE l.conn = NoConn \/ l.touched
  <2> DEFINE s == Without(o)
  <2>1. s \in Seq(Nodes) /\ Len(s) = m - 1
    BY <1>2, WithoutFacts
  <2>2. PICK k \in 1..m : timeouts[k] = o /\ \A i \in 1..(m - 1) : s[i] = IF i < k THEN timeouts[i] ELSE timeouts[i + 1]
    BY <1>2, WithoutFacts
  <2>3. PICK n \in Nat : n = m - 1
    <3>1. Len(timeouts) \in Nat /\ k \in 1..Len(timeouts)
      BY <1>2, <2>2
    <3> QED BY <3>1
  <2> DEFINE g == [i \in 1..n |-> Skip(k, i)]
  <2>4. \A i \in 1..n : g[i] \in 1..m /\ g[i] # k /\ s[i] = timeouts[g[i]]
    BY <1>2, <2>2, <2>3 DEF Skip
  <2>5. \A i, j \in 1..n : i < j => g[i] < g[j]
    BY <1>2, <2>2, <2>3 DEF Skip
  <2>6. /\ \A i \in 1..n : timeouts'[i] = s[i]
        /\ IF l.conn = NoConn THEN Len(timeouts') = n ELSE Len(timeouts') = n + 1 /\ timeouts'[n + 1] = o
    <3>1. CASE l.conn = NoConn
      <4>1. timeouts' = s
        BY <1>1, <3>1 DEF TimeoutsAfter
      <4> QED BY <2>1, <2>3, <3>1, <4>1
    <3>2. CASE l.conn # NoConn
      <4>1. timeouts' = Append(s, o) /\ o \in Nodes
        BY <1>1, <1>2, <1>5, <1>11, <3>2 DEF TimeoutsAfter
      <4> HIDE DEF s, o
      <4> QED BY <2>1, <2>3, <3>2, <4>1, AppendProperties
    <3> QED BY <3>1, <3>2
  <2> HIDE DEF g, s
  <2>7. \A i \in 1..n : timeouts'[i] = timeouts[g[i]] /\ timeouts[g[i]] # o
    <3>1. \A i \in 1..n : timeouts[g[i]] # timeouts[k]
      <4> SUFFICES ASSUME NEW i \in 1..n PROVE timeouts[g[i]] # timeouts[k]
        OBVIOUS
      <4>1. g[i] < k \/ k < g[i]
        BY <1>2, <2>4
      <4> QED BY <2>4, <4>1 DEF ListInv
    <3> QED BY <2>2, <2>4, <2>6, <3>1
  <2>8. ASSUME NEW i \in 1..n
        PROVE  /\ Current(i)' => Current(g[i]) /\ conns'[timeouts'[i].fd].last = conns[timeouts'[i].fd].last
               /\ Current(g[i]) => Current(i)'
    <3>1. PICK e : e = timeouts[g[i]]
      OBVIOUS
    <3>2. e.fd \in Fds /\ e = timeouts'[i] /\ e # o
      BY <1>5, <2>4, <2>7, <3>1
    <3>3. (Current(i)' <=> Listed(e)') /\ (Current(g[i]) <=> Listed(e))
      BY <3>1, <3>2 DEF Current, Listed
    <3>4. Listed(e)' => Listed(e) \/ e = o
      <4>1. CASE e.fd # fd
        BY <1>8, <3>2, <4>1
      <4>2. CASE e.fd = fd
        <5>1. Listed(e)' => l.conn # NoConn /\ e.fd = fd /\ e = [fd |-> fd, id |-> l.conn.id]
          BY <1>4, <4>2 DEF Listed, Open, Node
        <5> QED BY <1>1, <5>1 DEF Node
      <4> QED BY <4>1, <4>2
    <3>5. Listed(e) => e.fd # fd
      BY <1>9, <3>2
    <3> QED BY <1>8, <3>2, <3>3, <3>4, <3>5
  <2>9. AddMayFail \/ \A i \in 1..Len(timeouts') : Current(i)'
    <3> SUFFICES ASSUME ~AddMayFail, NEW i \in 1..Len(timeouts') PROVE Current(i)'
      OBVIOUS
    <3>1. CASE i \in 1..n
      <4>1. Current(g[i])
        BY <2>4, <3>1 DEF ListInv
      <4> QED BY <2>8, <3>1, <4>1
    <3>2. CASE i \notin 1..n
      <4>1. i = n + 1 /\ l.conn # NoConn /\ timeouts'[i] = o
        BY <2>6, <3>2
      <4>2. o.fd = fd /\ o = [fd |-> fd, id |-> l.conn.id]
        BY <1>1, <4>1 DEF Node
      <4> QED BY <1>4, <4>1, <4>2 DEF Current, Open, Node
    <3> QED BY <3>1, <3>2
  <2>10. ASSUME Len(timeouts') = n + 1
         PROVE  /\ timeouts'[n + 1].id <= nextId'
                /\ \A i \in 1..n :
                      /\ timeouts'[i] # timeouts'[n + 1]
                      /\ Current(i)' /\ Current(n + 1)' =>
                             conns'[timeouts'[i].fd].last <= conns'[timeouts'[n + 1].fd].last
    <3>1. l.conn # NoConn /\ timeouts'[n + 1] = o
      BY <2>6, <2>10
    <3>2. conns'[o.fd].last = now /\ o.id <= nextId
      BY <1>0, <1>1, <1>4, <1>11, <3>1 DEF Node, TablePart, TableInv
    <3>3. ASSUME NEW i \in 1..n, Current(i)' PROVE conns'[timeouts'[i].fd].last <= now
      <4>1. Current(g[i]) /\ timeouts'[i] = timeouts[g[i]] /\ g[i] \in 1..m
            /\ conns'[timeouts'[i].fd].last = conns[timeouts'[i].fd].last
        BY <2>4, <2>7, <2>8, <3>3
      <4> QED BY <1>0, <1>5, <4>1 DEF Current, TablePart, ReadInv
    <3> QED BY <1>1, <2>7, <3>1, <3>2, <3>3
  <2>11. g \in [1..n -> 1..m]
    BY <2>4 DEF g
  <2>12. nextId' \in Nat /\ nextId <= nextId' /\ g \in [1..n -> 1..Len(timeouts)]
    BY <1>1, <1>2, <2>11
  <2>13. Len(timeouts') = n \/ Len(timeouts') = n + 1
    BY <2>6
  <2>14. /\ \A i \in 1..n : timeouts'[i] = timeouts[g[i]]
         /\ \A i \in 1..n : Current(i)' =>
                Current(g[i]) /\ conns'[timeouts'[i].fd].last = conns[timeouts'[i].fd].last
    BY <2>7, <2>8
  <2>15. Len(timeouts') = n + 1 =>
            /\ timeouts'[n + 1].id <= nextId'
            /\ \A i \in 1..n :
                   /\ timeouts'[i] # timeouts'[n + 1]
                   /\ Current(i)' /\ Current(n + 1)' =>
                          conns'[timeouts'[i].fd].last <= conns'[timeouts'[n + 1].fd].last
    BY <2>10
  <2> HIDE DEF m, o
  <2> QED BY <1>2, <2>5, <2>9, <2>12, <2>13, <2>14, <2>15, ListMap
<1> QED BY <1>10, <1>11

\* A new connection is listed last, and has been active last.
LEMMA AcceptList == ASSUME CoreInv, ListInv, Accept PROVE ListInv'
<1>0. /\ TablePart /\ nextId \in Nat /\ now \in Nat /\ now' = now
      /\ timeouts \in Seq(Nodes) /\ Len(timeouts) \in Nat
      /\ \A i \in 1..Len(timeouts) : timeouts[i] \in Nodes
  <2>1. timeouts \in Seq(Nodes)
    BY DEF CoreInv, ConnTypes
  <2>2. ASSUME NEW i \in 1..Len(timeouts) PROVE timeouts[i] \in Nodes
    BY <2>1, ElementOfSeq
  <2>3. TablePart /\ nextId \in Nat
    BY DEF CoreInv, TablePart, ConnTypes
  <2>4. now \in Nat
    <3>1. now \in 0..MaxClock
      BY DEF CoreInv, NetTypes
    <3> QED BY <3>1, IoAssumption
  <2>5. now' = now
    BY DEF Accept, clockVars
  <2>6. Len(timeouts) \in Nat
    BY <2>1
  <2> QED BY <2>1, <2>2, <2>3, <2>4, <2>5, <2>6
<1>1. PICK fd \in FreeFds :
        /\ timeouts' = Append(timeouts, [fd |-> fd, id |-> nextId + 1])
        /\ \/ conns' = [conns EXCEPT ![fd] = Fresh(nextId + 1)]
           \/ AddMayFail /\ conns' = conns
  BY DEF Accept
<1>2. fd \in Fds /\ ~Open(fd) /\ nextId' = nextId + 1
  BY DEF FreeFds, CoreInv, TableInv, Accept
<1> DEFINE e == [fd |-> fd, id |-> nextId + 1]
<1>3. e \in Nodes
  BY <1>0, <1>2 DEF Nodes
<1>4. PICK n \in Nat : n = Len(timeouts)
  BY <1>0
<1>5. /\ timeouts' \in Seq(Nodes) /\ Len(timeouts') = n + 1
      /\ \A i \in 1..n : timeouts'[i] = timeouts[i]
      /\ timeouts'[n + 1] = e
  <2> HIDE DEF e
  <2>1. timeouts' = Append(timeouts, e)
    BY <1>1 DEF e
  <2> QED BY <1>0, <1>3, <1>4, <2>1, AppendProperties
<1> HIDE DEF e
<1>6. \A i \in 1..n : timeouts[i].id \in Nat /\ timeouts[i].id <= nextId /\ timeouts[i].fd \in Fds
  BY <1>0, <1>4 DEF ListInv, Nodes
<1>7. \/ /\ conns'[fd] = Fresh(nextId + 1)
         /\ \A f \in Fds : f # fd => conns'[f] = conns[f]
      \/ AddMayFail /\ conns' = conns
  BY <1>1, <1>2 DEF CoreInv, ConnTypes
<1>8. /\ Fresh(nextId + 1) # NoConn
      /\ Fresh(nextId + 1).id = nextId + 1 /\ Fresh(nextId + 1).last = now
  <2>1. NetTypes /\ nextId + 1 \in Nat
    BY <1>0 DEF CoreInv
  <2> QED BY <2>1, FreshFacts
<1>9. ASSUME NEW i \in 1..n
      PROVE  /\ Current(i)' => Current(i) /\ conns'[timeouts'[i].fd].last = conns[timeouts'[i].fd].last
             /\ Current(i) => Current(i)'
  <2>1. PICK x : x = timeouts[i]
    OBVIOUS
  <2>2. x.fd \in Fds /\ x.id \in Nat /\ x.id <= nextId /\ x = timeouts'[i]
    BY <1>5, <1>6, <2>1
  <2>3. (Current(i)' <=> Listed(x)') /\ (Current(i) <=> Listed(x))
    BY <2>1, <2>2 DEF Current, Listed
  <2>4. CASE x.fd # fd \/ conns' = conns
    <3>1. conns'[x.fd] = conns[x.fd]
      BY <1>7, <2>2, <2>4
    <3> QED BY <2>2, <2>3, <3>1 DEF Listed, Open, Node
  <2>5. CASE x.fd = fd /\ conns' # conns
    <3>1. conns'[fd].id = nextId + 1
      BY <1>7, <1>8, <2>5
    <3>2. ~Listed(x)'
      BY <1>0, <2>2, <2>5, <3>1 DEF Listed, Node
    <3>3. ~Listed(x)
      BY <1>2, <2>5 DEF Listed
    <3> QED BY <2>3, <3>2, <3>3
  <2> QED BY <2>4, <2>5
<1>10. AddMayFail \/ \A i \in 1..Len(timeouts') : Current(i)'
  <2> SUFFICES ASSUME ~AddMayFail, NEW i \in 1..Len(timeouts') PROVE Current(i)'
    OBVIOUS
  <2>1. CASE i \in 1..n
    BY <1>4, <1>9, <2>1 DEF ListInv
  <2>2. CASE i \notin 1..n
    <3>1. i = n + 1 /\ timeouts'[i] = e /\ conns'[fd] = Fresh(nextId + 1)
      BY <1>5, <1>7, <2>2
    <3>2. e.fd = fd /\ e = [fd |-> fd, id |-> Fresh(nextId + 1).id]
      BY <1>8 DEF e
    <3> QED BY <1>8, <3>1, <3>2 DEF Current, Open, Node
  <2> QED BY <2>1, <2>2
<1>11. /\ timeouts'[n + 1].id <= nextId'
       /\ \A i \in 1..n :
             /\ timeouts'[i] # timeouts'[n + 1]
             /\ Current(i)' /\ Current(n + 1)' =>
                    conns'[timeouts'[i].fd].last <= conns'[timeouts'[n + 1].fd].last
  <2>1. e.id = nextId + 1 /\ e.fd = fd
    BY DEF e
  <2>2. ASSUME NEW i \in 1..n, Current(i)', Current(n + 1)'
        PROVE  conns'[timeouts'[i].fd].last <= conns'[timeouts'[n + 1].fd].last
    <3>1. Current(i) /\ conns'[timeouts'[i].fd].last = conns[timeouts[i].fd].last
      BY <1>5, <1>9, <2>2
    <3>2. conns[timeouts[i].fd].last <= now
      BY <1>0, <1>6, <3>1 DEF Current, TablePart, ReadInv
    <3>3. Open(fd)'
      BY <1>5, <2>1, <2>2 DEF Current
    <3>4. conns'[fd].last = now
      BY <1>2, <1>7, <1>8, <3>3 DEF Open
    <3> QED BY <1>5, <2>1, <3>1, <3>2, <3>4
  <2> QED BY <1>0, <1>2, <1>5, <1>6, <2>1, <2>2
<1>12. PICK g \in [1..n -> 1..Len(timeouts)] : g = [i \in 1..n |-> i]
  BY <1>4
<1>13. /\ \A i, j \in 1..n : i < j => g[i] < g[j]
       /\ \A i \in 1..n : timeouts'[i] = timeouts[g[i]]
       /\ \A i \in 1..n : Current(i)' =>
              Current(g[i]) /\ conns'[timeouts'[i].fd].last = conns[timeouts'[i].fd].last
  BY <1>5, <1>9, <1>12
<1>14. nextId' \in Nat /\ nextId <= nextId'
  BY <1>0, <1>2
<1> QED BY <1>0, <1>5, <1>10, <1>11, <1>13, <1>14, ListMap

\* The walk takes the nodes it closes out, and no others.
LEMMA TimerList == ASSUME CoreInv, ListInv, OnTimerTick PROVE ListInv'
<1>0. /\ timeouts \in Seq(Nodes) /\ Len(timeouts) \in Nat /\ nextId \in Nat
      /\ \A i \in 1..Len(timeouts) : timeouts[i] \in Nodes
  <2>1. timeouts \in Seq(Nodes)
    BY DEF CoreInv, ConnTypes
  <2>2. ASSUME NEW i \in 1..Len(timeouts) PROVE timeouts[i] \in Nodes
    BY <2>1, ElementOfSeq
  <2> QED BY <2>1, <2>2 DEF CoreInv, ConnTypes
<1>1. /\ LeaveOnly(Left) /\ nextId' = nextId
      /\ \A fd \in Fds : conns'[fd] = IF fd \in Expired THEN NoConn ELSE conns[fd]
  BY DEF OnTimerTick
<1>2. timeouts' \in Seq(Nodes)
      /\ \E f \in [1..Len(timeouts') -> Left] :
            /\ \A i, j \in 1..Len(timeouts') : i < j => f[i] < f[j]
            /\ \A i \in 1..Len(timeouts') : timeouts'[i] = timeouts[f[i]]
  <2>1. Left \subseteq 1..Len(timeouts)
    BY DEF Left
  <2>2. timeouts' \in Seq(Nodes) /\ \E f \in [1..Len(timeouts') -> Left] : WasAt(f, Left)
    <3> HIDE DEF Left
    <3> QED BY <1>0, <1>1, <2>1, LeaveOnlyFacts
  <2> QED BY <2>2 DEF WasAt
<1>3. PICK n \in Nat : n = Len(timeouts')
  BY <1>2
<1>4. PICK f \in [1..n -> Left] :
        /\ \A i, j \in 1..n : i < j => f[i] < f[j]
        /\ \A i \in 1..n : timeouts'[i] = timeouts[f[i]]
  BY <1>2, <1>3
<1>5. f \in [1..n -> 1..Len(timeouts)]
  BY <1>4 DEF Left
<1>6. ASSUME NEW i \in 1..n
      PROVE  /\ Current(i)' => Current(f[i]) /\ conns'[timeouts'[i].fd].last = conns[timeouts'[i].fd].last
             /\ Current(f[i]) /\ timeouts[f[i]].fd \notin Expired => Current(i)'
  <2>1. PICK x : x = timeouts[f[i]]
    OBVIOUS
  <2>2. x \in Nodes /\ x.fd \in Fds /\ x = timeouts'[i]
    BY <1>0, <1>4, <1>5, <2>1 DEF Nodes
  <2>3. (Current(i)' <=> Listed(x)') /\ (Current(f[i]) <=> Listed(x))
    BY <2>1, <2>2 DEF Current, Listed
  <2>4. CASE x.fd \in Expired
    <3>1. conns'[x.fd] = NoConn
      BY <1>1, <2>2, <2>4
    <3>2. ~Listed(x)'
      BY <3>1 DEF Listed, Open
    <3> QED BY <2>1, <2>3, <2>4, <3>2
  <2>5. CASE x.fd \notin Expired
    <3>1. conns'[x.fd] = conns[x.fd]
      BY <1>1, <2>2, <2>5
    <3> QED BY <2>1, <2>2, <2>3, <3>1 DEF Listed, Open, Node
  <2> QED BY <2>4, <2>5
<1>7. AddMayFail \/ \A i \in 1..Len(timeouts') : Current(i)'
  <2> SUFFICES ASSUME ~AddMayFail, NEW i \in 1..n PROVE Current(i)'
    BY <1>3
  <2>1. f[i] \in Left /\ f[i] \in 1..Len(timeouts) /\ Current(f[i])
    BY <1>4, <1>5 DEF ListInv
  <2>2. ASSUME timeouts[f[i]].fd \in Expired PROVE FALSE
    <3>1. f[i] \notin Walked
      BY <2>1, <2>2 DEF Left
    <3>2. PICK k \in Walked : timeouts[k].fd = timeouts[f[i]].fd
      BY <2>2 DEF Expired
    <3>3. k \in 1..Len(timeouts) /\ Current(k) /\ k # f[i]
      BY <3>1, <3>2 DEF Walked, ListInv
    <3>4. timeouts[k] = timeouts[f[i]]
      BY <2>1, <3>2, <3>3 DEF Current
    <3>5. k < f[i] \/ f[i] < k
      BY <2>1, <3>3
    <3> QED BY <2>1, <3>3, <3>4, <3>5 DEF ListInv
  <2> QED BY <1>6, <2>1, <2>2
<1>8. Len(timeouts') # n + 1 /\ Len(timeouts') = n
  BY <1>3
<1>9. /\ \A i \in 1..n : timeouts'[i] = timeouts[f[i]]
      /\ \A i \in 1..n : Current(i)' =>
             Current(f[i]) /\ conns'[timeouts'[i].fd].last = conns[timeouts'[i].fd].last
  BY <1>4, <1>6
<1>10. nextId' \in Nat /\ nextId <= nextId'
  BY <1>0, <1>1
<1> QED BY <1>0, <1>2, <1>4, <1>5, <1>7, <1>8, <1>9, <1>10, ListMap

\* The other steps leave the list and the connections alone.
LEMMA ListStep == ASSUME CoreInv, ListInv, [Next]_vars PROVE ListInv'
<1>1. nextId \in Nat /\ nextId' \in Nat /\ nextId <= nextId' /\ timeouts \in Seq(Nodes)
  BY NextIdGrows DEF CoreInv, ConnTypes
<1>2. ASSUME UNCHANGED <<conns, timeouts>> PROVE ListInv'
  <2>1. ASSUME NEW i \in 1..Len(timeouts) PROVE timeouts[i].id \in Nat
    <3>1. timeouts[i] \in Nodes
      BY <1>1, ElementOfSeq
    <3> QED BY <3>1 DEF Nodes
  <2> QED BY <1>1, <1>2, <2>1 DEF ListInv, Current, Open, Node
<1>3. CASE \E c \in Clients : ClientStep(c)
  BY <1>2, <1>3 DEF ClientStep, Connect, Send, HangUp, Congest, Relieve, othersThanPeer, connVars
<1>4. CASE Tick
  BY <1>2, <1>4 DEF Tick, connVars
<1>5. CASE EpollWait
  BY <1>2, <1>5 DEF EpollWait, connVars
<1>6. CASE Quiet
  BY <1>2, <1>6, QuietTable DEF tableVars, connVars
<1>7. CASE Handler
  <2>1. CASE Answer /\ UNCHANGED tableVars
    BY <1>2, <2>1 DEF tableVars, connVars
  <2>2. ASSUME NEW fd \in Fds, NEW l, Handled(fd, l), Commit(fd, l) PROVE ListInv'
    BY <2>2, HandledList
  <2> QED BY <1>7, <2>1, <2>2, HandlerStep
<1> QED BY <1>3, <1>4, <1>5, <1>6, <1>7, AcceptList, TimerList, NextCases

-----------------------------------------------------------------------------
(* What a client has received *)

\* The case AnswersInOrder leaves out.
Spoiled(c) == c \in inherited \cap SlowClients

\* finalize has refused the request: the parser is complete and stays in place.
RefusedHere(fd) == conns[fd].got = Frags /\ ~conns[fd].moved

\* The requests whose responses are in the queue for the node n.
RequestsOf(n) == {Waiting[i].req : i \in QueuedOf(n)}

\* The connection of fd has had k requests answered, and all it has in flight
\* belongs to the next one. Its client has sent that one in part or whole, and no
\* more: the part the parser has read, and the part still unread.
Turn(fd, k) ==
    LET c == sock[fd]
        n == conns[fd]
    IN  /\ Len(answers[c]) = Pieces * k + n.pos
        /\ IF n.resp = NoReq THEN n.pos = 0 ELSE n.pos < Pieces /\ n.resp = <<c, k + 1>>
        /\ \A r \in TasksFor(fd) \cup RequestsOf(Node(fd)) : r = <<c, k + 1>>
        /\ Frags * k + n.got + peer[c].unread = peer[c].sent
        /\ n.got + peer[c].unread <= Frags

TurnInv == \A fd \in Fds :
    Open(fd) /\ ~(RefusedHere(fd) /\ Spoiled(sock[fd])) => \E k \in Nat : Turn(fd, k)

\* A client that has not been accepted has received nothing, and can have sent one
\* request; one that is not slow takes each response whole.
ClientInv ==
    \A c \in Clients :
        /\ peer[c].st \in {"new", "backlog"} =>
               answers[c] = <<>> /\ peer[c].unread = peer[c].sent /\ peer[c].sent <= Frags
        /\ c \notin SlowClients =>
               peer[c].room = Pieces /\ \A fd \in Fds : sock[fd] = c => conns[fd].resp = NoReq

\* Piece i of all that c may receive.
PieceAt(c, i) == << <<c, ((i - 1) \div Pieces) + 1>>, ((i - 1) % Pieces) + 1 >>

\* Where the response to the request r is while it is owed.
OwedAt(fd, r) ==
    /\ Open(fd) /\ sock[fd] = r[1] /\ conns[fd].moved
    /\ r \in TasksFor(fd) \cup RequestsOf(Node(fd)) \/ conns[fd].resp = r

DeliveryInv ==
    \A r \in Requests : status[r] \notin {"new", "refused"} /\ r \notin failed =>
        r[2] <= Received(r[1]) \/ peer[r[1]].st = "closed" \/ \E fd \in Fds : OwedAt(fd, r)

\* A client has received what it asked for, in order, and no more of it than that.
WholeInv ==
    \A c \in Clients : ~Spoiled(c) =>
        /\ Frags * Len(answers[c]) <= Pieces * peer[c].sent
        /\ \A i \in 1..Len(answers[c]) : answers[c][i] = PieceAt(c, i)

\* What a step does to what one client has sent and received.
Untouched(c) ==
    /\ answers'[c] = answers[c] /\ peer'[c].sent = peer[c].sent /\ peer'[c].unread = peer[c].unread
    /\ peer[c].room = Pieces /\ c \notin SlowClients => peer'[c].room = Pieces
Sends(c) ==
    /\ answers'[c] = answers[c] /\ peer'[c].room = peer[c].room /\ peer'[c].st = peer[c].st
    /\ peer'[c].sent = peer[c].sent + 1 /\ peer'[c].unread = peer[c].unread + 1
    /\ peer[c].sent < Frags * (Received(c) + 1)
Commits(fd, l) == Handler /\ HandlerFor(fd, l) /\ Handled(fd, l) /\ Commit(fd, l)

\* No client is new again, or comes back.
Onwards(c) ==
    /\ peer[c].st = "closed" => peer'[c].st = "closed"
    /\ peer'[c].st \in {"new", "backlog"} => peer[c].st \in {"new", "backlog"}

\* Pieces of k responses, and some of the next one.
LEMMA DivExact ==
    ASSUME NEW b \in Nat \ {0}, NEW k \in Nat, NEW p \in Nat, p < b
    PROVE  (b * k + p) \div b = k /\ (b * k + p) % b = p
<1> DEFINE a == b * k + p
           q == a \div b
<1>1. a \in Nat /\ b * k \in Nat
  OBVIOUS
<1> HIDE DEF a
<1>2. q \in Nat /\ b * q <= a /\ a < b * q + b /\ b * q \in Nat
  BY <1>1, DivFacts
<1>3. a % b = a - b * q
  BY <1>1
<1> HIDE DEF q
<1>4. (q < k => b * q + b <= b * k) /\ (k < q => b * k + b <= b * q)
  BY <1>2, MulGrows
<1>5. q = k
  BY <1>1, <1>2, <1>4 DEF a
<1> QED BY <1>1, <1>3, <1>5 DEF a, q

LEMMA DivGrows ==
    ASSUME NEW b \in Nat \ {0}, NEW x \in Nat, NEW y \in Nat, x <= y
    PROVE  x \div b <= y \div b
<1> DEFINE q == x \div b
           r == y \div b
<1>1. q \in Nat /\ b * q <= x /\ b * q \in Nat
  BY DivFacts
<1>2. r \in Nat /\ y < b * r + b /\ b * r \in Nat
  BY DivFacts
<1> HIDE DEF q, r
<1>3. r < q => b * r + b <= b * q
  BY <1>1, <1>2, MulGrows
<1>4. q <= r
  BY <1>1, <1>2, <1>3
<1> QED BY <1>4 DEF q, r

LEMMA ClientCases ==
    ASSUME CoreInv, [Next]_vars, NEW c \in Clients
    PROVE  /\ Untouched(c) \/ Sends(c) \/ \E fd \in Fds : \E l : Commits(fd, l) /\ sock[fd] = c
           /\ Onwards(c)
<1>0. /\ peer \in [Clients -> PeerType] /\ answers \in [Clients -> Seq(PieceSet)]
      /\ \A i \in 1..Len(backlog) : peer[backlog[i]].st = "backlog"
      /\ backlog \in Seq(Clients)
  BY DEF CoreInv, NetTypes, BacklogInv
<1>1. ASSUME UNCHANGED <<peer, answers>> PROVE Untouched(c) /\ Onwards(c)
  BY <1>1 DEF Untouched, Onwards
<1>2. ASSUME NEW x \in Clients, ClientStep(x)
      PROVE  (Untouched(c) \/ Sends(c)) /\ Onwards(c)
  <2>0. answers' = answers
    BY <1>2 DEF ClientStep, Connect, Send, HangUp, Congest, Relieve, othersThanPeer
  <2>1. CASE Connect(x)
    <3>1. peer' = [peer EXCEPT ![x].st = "backlog"] /\ peer[x].st = "new"
      BY <2>1 DEF Connect
    <3> QED BY <1>0, <2>0, <3>1 DEF PeerType, Untouched, Onwards
  <2>2. CASE Send(x)
    <3>1. /\ peer' = [peer EXCEPT ![x].sent = @ + 1, ![x].unread = @ + 1]
          /\ peer[x].sent < Frags * (Received(x) + 1)
      BY <2>2 DEF Send
    <3>2. CASE x = c
      BY <1>0, <2>0, <3>1, <3>2 DEF PeerType, Sends, Onwards
    <3>3. CASE x # c
      BY <1>0, <2>0, <3>1, <3>3 DEF PeerType, Untouched, Onwards
    <3> QED BY <3>2, <3>3
  <2>3. CASE HangUp(x)
    <3>1. \/ peer' = [peer EXCEPT ![x].fin = TRUE]
          \/ peer' = [peer EXCEPT ![x].fin = TRUE, ![x].rst = TRUE]
      BY <2>3 DEF HangUp
    <3>2. /\ peer'[c].sent = peer[c].sent /\ peer'[c].unread = peer[c].unread
          /\ peer'[c].room = peer[c].room /\ peer'[c].st = peer[c].st
      <4>1. peer[c] \in PeerType
        BY <1>0
      <4>2. \/ peer'[c] = peer[c] \/ peer'[c] = [peer[c] EXCEPT !.fin = TRUE]
            \/ peer'[c] = [peer[c] EXCEPT !.fin = TRUE, !.rst = TRUE]
        BY <1>0, <3>1
      <4> QED BY <4>1, <4>2 DEF PeerType
    <3> QED BY <2>0, <3>2 DEF Untouched, Onwards
  <2>4. CASE Congest(x) \/ Relieve(x)
    <3>1. \E n \in 0..Pieces : peer' = [peer EXCEPT ![x].room = n]
      BY <2>4, IoAssumption DEF Congest, Relieve
    <3>2. x \in SlowClients \/ peer[x].room < Pieces
      BY <2>4 DEF Congest, Relieve
    <3>3. /\ peer'[c].sent = peer[c].sent /\ peer'[c].unread = peer[c].unread
          /\ peer'[c].st = peer[c].st /\ (x # c => peer'[c].room = peer[c].room)
      BY <1>0, <3>1 DEF PeerType
    <3>4. ~(Pieces < Pieces)
      BY IoAssumption
    <3> QED BY <2>0, <3>2, <3>3, <3>4 DEF Untouched, Onwards
  <2> QED BY <1>2, <2>1, <2>2, <2>3, <2>4 DEF ClientStep
<1>3. CASE Tick \/ EpollWait
  BY <1>1, <1>3 DEF Tick, EpollWait, netVars
<1>4. CASE Accept
  <2>1. /\ UNCHANGED answers /\ backlog # <<>>
        /\ \/ peer' = [peer EXCEPT ![Head(backlog)].st = "open"]
           \/ peer' = [peer EXCEPT ![Head(backlog)].st = "closed"]
    BY <1>4 DEF Accept
  <2>2. Head(backlog) \in Clients /\ peer[Head(backlog)].st = "backlog"
    <3>1. Len(backlog) \in Nat /\ Len(backlog) >= 1 /\ Head(backlog) = backlog[1]
      BY <1>0, <2>1, HeadTailProperties
    <3>2. backlog[1] \in Clients /\ peer[backlog[1]].st = "backlog"
      BY <1>0, <3>1
    <3> QED BY <3>1, <3>2
  <2>3. /\ peer'[c].sent = peer[c].sent /\ peer'[c].unread = peer[c].unread
        /\ peer'[c].room = peer[c].room
        /\ (Head(backlog) # c => peer'[c].st = peer[c].st)
        /\ (Head(backlog) = c => peer'[c].st \in {"open", "closed"})
    <3>1. peer[c] \in PeerType
      BY <1>0
    <3>2. IF Head(backlog) = c
            THEN \/ peer'[c] = [peer[c] EXCEPT !.st = "open"]
                 \/ peer'[c] = [peer[c] EXCEPT !.st = "closed"]
            ELSE peer'[c] = peer[c]
      BY <1>0, <2>1
    <3> QED BY <3>1, <3>2 DEF PeerType
  <2> QED BY <2>1, <2>2, <2>3 DEF Untouched, Onwards
<1>5. CASE OnTimerTick
  <2>1. UNCHANGED answers /\ (peer'[c] = [peer[c] EXCEPT !.st = "closed"] \/ peer'[c] = peer[c])
    BY <1>5 DEF OnTimerTick
  <2> QED BY <1>0, <2>1 DEF PeerType, Untouched, Onwards
<1>6. CASE Handler
  <2>1. CASE \E fd \in Fds : \E l : HandlerFor(fd, l) /\ Handled(fd, l) /\ Commit(fd, l)
    <3>1. PICK fd \in Fds : \E l : HandlerFor(fd, l) /\ Handled(fd, l) /\ Commit(fd, l)
      BY <2>1
    <3> PICK l : HandlerFor(fd, l) /\ Handled(fd, l) /\ Commit(fd, l)
      BY <3>1
    <3>2. sock[fd] \in Clients /\ peer[sock[fd]].st = "open"
      BY HereFacts DEF Handled, CoreInv, TableInv
    <3>3. peer' = [peer EXCEPT ![sock[fd]] = PeerAfter(fd, l)]
          /\ PeerAfter(fd, l).st = (IF l.conn = NoConn THEN "closed" ELSE "open")
      BY CommitPeer DEF CoreInv
    <3>4. answers' = [answers EXCEPT ![sock[fd]] = answers[sock[fd]] \o l.wrote]
      BY DEF Commit
    <3>5. CASE sock[fd] = c
      BY <1>0, <1>6, <3>2, <3>3, <3>5 DEF Commits, Onwards
    <3>6. CASE sock[fd] # c
      BY <1>0, <3>2, <3>3, <3>4, <3>6 DEF Untouched, Onwards
    <3> QED BY <3>5, <3>6
  <2>2. CASE UNCHANGED tableVars
    BY <1>1, <2>2 DEF tableVars, netVars
  <2> QED BY <1>6, <2>1, <2>2, HandlerStep
<1>7. CASE Quiet
  BY <1>1, <1>7, QuietTable DEF tableVars, netVars
<1> QED BY <1>2, <1>3, <1>4, <1>5, <1>6, <1>7, NextCases

\* The request x has just been asked, on the connection of the node n.
AskedAt(n, x) == OnRequest /\ Node(Ev.src) = n /\ x = RequestOf(Ev.src)

\* The response at the head of the queue is taken for the node n.
TakenAt(n, x) == Answer /\ Head(found).fd = n.fd /\ Head(found).id = n.id /\ x = Head(found).req

LEMMA RequestsMove ==
    ASSUME CoreInv, NEW n
    PROVE  /\ Waiting' = Waiting => RequestsOf(n)' = RequestsOf(n)
           /\ \A y : Grew(y) => RequestsOf(n)' = IF y.fd = n.fd /\ y.id = n.id
                                                   THEN RequestsOf(n) \cup {y.req} ELSE RequestsOf(n)
           /\ Shrank /\ Len(Waiting) >= 1 =>
                  /\ RequestsOf(n)' \subseteq RequestsOf(n)
                  /\ \A x \in RequestsOf(n) : x \in RequestsOf(n)' \/
                         (Waiting[1].fd = n.fd /\ Waiting[1].id = n.id /\ x = Waiting[1].req)
<1>1. Len(Waiting) \in Nat
  BY WaitingFacts
<1> DEFINE w == Waiting
<1>2. ASSUME NEW y, Grew(y)
      PROVE  RequestsOf(n)' = IF y.fd = n.fd /\ y.id = n.id
                                THEN RequestsOf(n) \cup {y.req} ELSE RequestsOf(n)
  <2>1. Len(Waiting') = Len(w) + 1 /\ Waiting'[Len(w) + 1] = y /\ \A i \in 1..Len(w) : Waiting'[i] = w[i]
    BY <1>2 DEF Grew
  <2>2. 1..(Len(w) + 1) = 1..Len(w) \cup {Len(w) + 1}
    BY <1>1
  <2> HIDE DEF w
  <2>3. RequestsOf(n) = {w[i].req : i \in {j \in 1..Len(w) : w[j].fd = n.fd /\ w[j].id = n.id}}
    BY DEF RequestsOf, QueuedOf, w
  <2>4. RequestsOf(n)' = {Waiting'[i].req : i \in {j \in 1..Len(Waiting') :
                                Waiting'[j].fd = n.fd /\ Waiting'[j].id = n.id}}
    BY DEF RequestsOf, QueuedOf
  <2> QED BY <2>1, <2>2, <2>3, <2>4
<1>3. ASSUME Shrank, Len(w) >= 1
      PROVE  /\ RequestsOf(n)' \subseteq RequestsOf(n)
             /\ \A x \in RequestsOf(n) : x \in RequestsOf(n)' \/
                    (w[1].fd = n.fd /\ w[1].id = n.id /\ x = w[1].req)
  <2>1. Len(Waiting') = Len(w) - 1 /\ \A i \in 1..Len(Waiting') : Waiting'[i] = w[i + 1]
    BY <1>3 DEF Shrank
  <2>2. /\ \A i \in 1..Len(Waiting') : i + 1 \in 1..Len(w)
        /\ \A i \in 1..Len(w) : i = 1 \/ (i - 1 \in 1..Len(Waiting') /\ (i - 1) + 1 = i)
    BY <1>1, <1>3, <2>1
  <2> HIDE DEF w
  <2>3. RequestsOf(n) = {w[i].req : i \in {j \in 1..Len(w) : w[j].fd = n.fd /\ w[j].id = n.id}}
    BY DEF RequestsOf, QueuedOf, w
  <2>4. RequestsOf(n)' = {Waiting'[i].req : i \in {j \in 1..Len(Waiting') :
                                Waiting'[j].fd = n.fd /\ Waiting'[j].id = n.id}}
    BY DEF RequestsOf, QueuedOf
  <2>5. ASSUME NEW x \in RequestsOf(n)' PROVE x \in RequestsOf(n)
    <3>1. PICK i \in 1..Len(Waiting') : Waiting'[i].fd = n.fd /\ Waiting'[i].id = n.id /\ x = Waiting'[i].req
      BY <2>4, <2>5
    <3>2. Waiting'[i] = w[i + 1] /\ i + 1 \in 1..Len(w)
      BY <2>1, <2>2
    <3> QED BY <2>3, <3>1, <3>2
  <2>6. ASSUME NEW x \in RequestsOf(n), ~(w[1].fd = n.fd /\ w[1].id = n.id /\ x = w[1].req)
        PROVE  x \in RequestsOf(n)'
    <3>1. PICK i \in 1..Len(w) : w[i].fd = n.fd /\ w[i].id = n.id /\ x = w[i].req
      BY <2>3, <2>6
    <3>2. i # 1
      BY <2>6, <3>1
    <3>3. i - 1 \in 1..Len(Waiting') /\ (i - 1) + 1 = i
      BY <2>2, <3>2
    <3>4. Waiting'[i - 1] = w[i]
      BY <2>1, <3>3
    <3> QED BY <2>4, <3>1, <3>3, <3>4
  <2> QED BY <2>5, <2>6
<1>4. Waiting' = w => RequestsOf(n)' = RequestsOf(n)
  BY DEF RequestsOf, QueuedOf
<1> QED BY <1>2, <1>3, <1>4

\* Where the tasks and the responses of a node come from, and where they go.
LEMMA Provenance ==
    ASSUME CoreInv, InHandInv, [Next]_vars, NEW n \in Nodes
    PROVE  /\ \A x \in RequestsOf(n)' : x \in RequestsOf(n) \/ x \in TasksOf(n) \/ AskedAt(n, x)
           /\ \A x \in TasksOf(n)' : x \in TasksOf(n) \/ AskedAt(n, x)
           /\ \A x \in TasksOf(n) : x \in TasksOf(n)' \/ x \in RequestsOf(n)' \/ x \in failed'
           /\ \A x \in RequestsOf(n) : x \in RequestsOf(n)' \/ TakenAt(n, x)
<1>1. ASSUME TasksOf(n)' = TasksOf(n), Waiting' = Waiting
      PROVE  RequestsOf(n)' = RequestsOf(n) /\ TasksOf(n)' = TasksOf(n)
  BY <1>1, RequestsMove
<1>2. CASE OnRequest
  <2>1. PICK g \in Fds, r \in Requests : g = Ev.src /\ r = RequestOf(g)
    BY <1>2, OnRequestCases DEF TablePart, CoreInv
  <2>2. \/ Grew(ItemFor(g, r)) /\ TasksOf(n)' = TasksOf(n)
        \/ /\ Waiting' = Waiting
           /\ TasksOf(n)' = IF Node(g) = n THEN TasksOf(n) \cup {r} ELSE TasksOf(n)
    BY <1>2, <2>1, OnRequestFlight
  <2>3. Node(g) = n => AskedAt(n, r)
    BY <1>2, <2>1 DEF AskedAt
  <2>4. CASE Grew(ItemFor(g, r)) /\ TasksOf(n)' = TasksOf(n)
    <3>1. PICK y : y = ItemFor(g, r)
      OBVIOUS
    <3>2. y.fd = g /\ y.id = conns[g].id /\ y.req = r
      BY <3>1 DEF ItemFor
    <3>3. RequestsOf(n)' = IF y.fd = n.fd /\ y.id = n.id THEN RequestsOf(n) \cup {y.req} ELSE RequestsOf(n)
      BY <2>4, <3>1, RequestsMove
    <3>4. CASE n = Node(g)
      BY <2>3, <2>4, <3>2, <3>3, <3>4
    <3>5. CASE n # Node(g)
      <4>1. n = [fd |-> n.fd, id |-> n.id]
        BY <3>5 DEF Nodes
      <4>2. ~(y.fd = n.fd /\ y.id = n.id)
        BY <3>2, <3>5, <4>1 DEF Node
      <4> QED BY <2>4, <3>3, <4>2
    <3> QED BY <3>4, <3>5
  <2>5. CASE /\ Waiting' = Waiting
             /\ TasksOf(n)' = IF Node(g) = n THEN TasksOf(n) \cup {r} ELSE TasksOf(n)
    <3>1. RequestsOf(n)' = RequestsOf(n)
      BY <2>5, RequestsMove
    <3> QED BY <2>3, <2>5, <3>1
  <2> QED BY <2>2, <2>4, <2>5
<1>3. CASE Answer
  <2>1. /\ TasksOf(n)' = TasksOf(n) /\ Shrank /\ Waiting[1] = Head(found) /\ Len(Waiting) >= 1
    BY <1>3, AnswerFlight
  <2>2. /\ RequestsOf(n)' \subseteq RequestsOf(n)
        /\ \A x \in RequestsOf(n) : x \in RequestsOf(n)' \/
               (Waiting[1].fd = n.fd /\ Waiting[1].id = n.id /\ x = Waiting[1].req)
    BY <2>1, RequestsMove
  <2> QED BY <1>3, <2>1, <2>2 DEF TakenAt
<1>4. CASE WorkerStart
  BY <1>1, <1>4, StartFlight
<1>5. ASSUME NEW r \in Requests, WorkerStep(r)
      PROVE  /\ \A x \in RequestsOf(n)' : x \in RequestsOf(n) \/ x \in TasksOf(n)
             /\ \A x \in TasksOf(n)' : x \in TasksOf(n)
             /\ \A x \in TasksOf(n) : x \in TasksOf(n)' \/ x \in RequestsOf(n)' \/ x \in failed'
             /\ \A x \in RequestsOf(n) : x \in RequestsOf(n)'
  <2>1. CASE Pushed(n, r)
    <3>1. Due(r) /\ TasksOf(n)' = TasksOf(n) \ {r} /\ Grew(ItemOf(r))
      BY <2>1 DEF Pushed
    <3>2. PICK y : y = ItemOf(r)
      OBVIOUS
    <3>3. y.fd = origin[r].fd /\ y.id = origin[r].id /\ y.req = r
      BY <3>2 DEF ItemOf
    <3>4. RequestsOf(n)' = IF y.fd = n.fd /\ y.id = n.id THEN RequestsOf(n) \cup {y.req} ELSE RequestsOf(n)
      BY <3>1, <3>2, RequestsMove
    <3>5. r \in TasksOf(n) => y.fd = n.fd /\ y.id = n.id
      BY <3>3 DEF TasksOf
    <3>6. CASE r \in TasksOf(n)
      BY <3>1, <3>3, <3>4, <3>5, <3>6
    <3>7. CASE r \notin TasksOf(n)
      <4>1. n = [fd |-> n.fd, id |-> n.id] /\ origin[r] = [fd |-> origin[r].fd, id |-> origin[r].id]
        BY <3>1, <3>7 DEF Nodes, Due, CoreInv, TaskInv
      <4>2. origin[r] # n
        BY <3>1, <3>7 DEF TasksOf
      <4>3. ~(y.fd = n.fd /\ y.id = n.id)
        BY <3>3, <4>1, <4>2
      <4> QED BY <3>1, <3>4, <3>7, <4>3
    <3> QED BY <3>6, <3>7
  <2>2. CASE Threw(n, r)
    <3>1. TasksOf(n)' = TasksOf(n) \ {r} /\ Waiting' = Waiting /\ r \in failed'
      BY <2>2 DEF Threw, WorkerThrows
    <3>2. RequestsOf(n)' = RequestsOf(n)
      BY <3>1, RequestsMove
    <3> QED BY <3>1, <3>2
  <2>3. CASE TasksOf(n)' = TasksOf(n) /\ Waiting' = Waiting
    BY <1>1, <2>3
  <2> QED BY <1>5, <2>1, <2>2, <2>3, WorkerFlight
<1>6. CASE ~OnRequest /\ ~Answer /\ ~WorkerStart /\ \A r \in Requests : ~WorkerStep(r)
  BY <1>1, <1>6, StillFlight
<1> QED BY <1>2, <1>3, <1>4, <1>5, <1>6

\* The handler writes nothing, and keeps the response and the position in it.
Keeps(fd, l) ==
    /\ l.wrote = <<>>
    /\ l.conn # NoConn =>
         /\ l.conn.resp = conns[fd].resp /\ l.conn.pos = conns[fd].pos
         /\ l.conn.got = IF l.read THEN GotAfter(conns[fd], peer[sock[fd]]) ELSE conns[fd].got

\* The write goes on, or it starts with the response at the head of the queue.
From(fd, a) ==
    /\ a.got = conns[fd].got /\ a.moved = conns[fd].moved /\ a.resp # NoReq /\ a \in ConnType
    /\ \/ a.resp = conns[fd].resp /\ a.pos = conns[fd].pos
       \/ TakenAt(Node(fd), a.resp) /\ a.pos = 0

\* It writes the next n pieces of the response of a, to the end or not.
Writes(fd, l, a, n) ==
    /\ From(fd, a) /\ n \in Nat /\ a.pos + n <= Pieces
    /\ l.wrote = Burst(a, n)
    /\ l.conn # NoConn =>
         /\ ~l.read
         /\ \/ /\ n = Pieces - a.pos
               /\ l.conn.resp = NoReq /\ l.conn.pos = 0 /\ l.conn.got = 0 /\ ~l.conn.moved
            \/ /\ a.pos + n < Pieces /\ peer[sock[fd]].room # Pieces
               /\ l.conn.resp = a.resp /\ l.conn.pos = a.pos + n
               /\ l.conn.got = a.got /\ l.conn.moved = a.moved

LEMMA WriteEffect ==
    ASSUME CoreInv, NEW fd \in Fds, Open(fd), NEW e, e.conn # NoConn, From(fd, e.conn), NEW t, NEW h,
           WroteNothing(e, t, peer[sock[fd]]) \/ WrotePart(e, t, peer[sock[fd]])
               \/ WroteRest(e, t, peer[sock[fd]]),
           h.wrote = t.wrote,
           h.conn # NoConn => /\ t.conn # NoConn /\ ~h.read
                              /\ \E b \in BOOLEAN : h.conn = [t.conn EXCEPT !.caw = b]
    PROVE  Keeps(fd, h) \/ \E n : Writes(fd, h, e.conn, n)
<1> DEFINE a == e.conn
           p == peer[sock[fd]]
<1>1. a \in ConnType /\ From(fd, a) /\ p \in PeerType /\ NetTypes
  BY HereFacts DEF From, CoreInv
<1>2. a.pos \in Nat /\ a.pos <= Pieces /\ p.room \in Nat /\ Pieces \in Nat /\ a.id \in Nat
  BY <1>1, IoAssumption DEF ConnType, PeerType
<1> HIDE DEF a, p
<1>3. CASE WroteNothing(e, t, p)
  BY <1>3 DEF WroteNothing, Keeps
<1>4. CASE WrotePart(e, t, p)
  <2>1. /\ a.pos + p.room < Pieces /\ t.wrote = Burst(a, p.room)
        /\ t.conn = [a EXCEPT !.last = now, !.pos = a.pos + p.room]
    BY <1>4 DEF WrotePart, a
  <2>2. t.conn.resp = a.resp /\ t.conn.pos = a.pos + p.room /\ t.conn.got = a.got
        /\ t.conn.moved = a.moved /\ DOMAIN t.conn = DOMAIN a
    BY <1>1, <2>1 DEF ConnType
  <2>3. h.conn # NoConn => h.conn.resp = a.resp /\ h.conn.pos = a.pos + p.room /\ h.conn.got = a.got
                           /\ h.conn.moved = a.moved
    <3> SUFFICES ASSUME h.conn # NoConn
                 PROVE  h.conn.resp = a.resp /\ h.conn.pos = a.pos + p.room /\ h.conn.got = a.got
                        /\ h.conn.moved = a.moved
      OBVIOUS
    <3>1. PICK b \in BOOLEAN : h.conn = [t.conn EXCEPT !.caw = b]
      OBVIOUS
    <3> QED BY <1>1, <2>1, <3>1 DEF ConnType
  <2>4. p.room # Pieces /\ a.pos + p.room <= Pieces
    <3>1. PICK x \in Nat, y \in Nat : x = a.pos /\ y = p.room
      BY <1>2
    <3>2. x + y < Pieces /\ Pieces \in Nat
      BY <1>2, <2>1, <3>1
    <3>3. y # Pieces /\ x + y <= Pieces
      BY <3>2
    <3> QED BY <3>1, <3>3
  <2>5. Writes(fd, h, a, p.room)
    BY <1>1, <1>2, <2>1, <2>3, <2>4 DEF Writes, p
  <2> QED BY <2>5 DEF a
<1>5. CASE WroteRest(e, t, p)
  <2>1. /\ t.wrote = Burst(a, Pieces - a.pos)
        /\ t.conn # NoConn => t.conn = Fresh(a.id)
    BY <1>5 DEF WroteRest, a
  <2>2. /\ Fresh(a.id) \in ConnType /\ Fresh(a.id).resp = NoReq /\ Fresh(a.id).pos = 0
        /\ Fresh(a.id).got = 0 /\ Fresh(a.id).moved = FALSE
    BY <1>1, <1>2, FreshFacts
  <2>3. h.conn # NoConn => h.conn.resp = NoReq /\ h.conn.pos = 0 /\ h.conn.got = 0 /\ ~h.conn.moved
    <3> SUFFICES ASSUME h.conn # NoConn
                 PROVE  h.conn.resp = NoReq /\ h.conn.pos = 0 /\ h.conn.got = 0 /\ ~h.conn.moved
      OBVIOUS
    <3>1. PICK b \in BOOLEAN : h.conn = [t.conn EXCEPT !.caw = b]
      OBVIOUS
    <3>2. PICK f \in ConnType : f = Fresh(a.id)
      BY <2>2
    <3>3. h.conn = [f EXCEPT !.caw = b]
      BY <2>1, <3>1, <3>2
    <3> QED BY <2>2, <3>2, <3>3 DEF ConnType
  <2>4. Pieces - a.pos \in Nat /\ a.pos + (Pieces - a.pos) <= Pieces
    BY <1>2
  <2>5. Writes(fd, h, a, Pieces - a.pos)
    BY <1>1, <2>1, <2>3, <2>4 DEF Writes
  <2> QED BY <2>5 DEF a
<1> QED BY <1>3, <1>4, <1>5 DEF p

\* Every handler does one of the two.
LEMMA Effects ==
    ASSUME CoreInv, NEW fd \in Fds, NEW l, Commits(fd, l)
    PROVE  Keeps(fd, l) \/ \E a, n : Writes(fd, l, a, n)
<1> DEFINE c == conns[fd]
           p == peer[sock[fd]]
<1>0. TablePart
  BY DEF CoreInv, TablePart
<1>1. Open(fd) /\ HandlerFor(fd, l)
  BY DEF Commits, Handled
<1>2. c \in ConnType /\ p \in PeerType /\ Local(Here(fd)) /\ Here(fd).conn = c
  BY <1>0, <1>1, HereFacts DEF TablePart
<1> HIDE DEF c, p
<1>3. CASE OnReadFor(fd, l)
  <2>1. /\ l.wrote = <<>>
        /\ l.conn # NoConn => /\ l.read
                              /\ l.conn = [c EXCEPT !.got = GotAfter(c, p), !.last = now, !.caw = @ \/ Ev.rdhup]
    BY <1>0, <1>1, <1>3, ReadOutcome DEF OnReadFor, c, p
  <2>2. l.conn # NoConn => l.conn.resp = c.resp /\ l.conn.pos = c.pos /\ l.conn.got = GotAfter(c, p)
    BY <1>2, <2>1 DEF ConnType
  <2> QED BY <2>1, <2>2 DEF Keeps, c, p
<1>4. CASE ReadTooLargeFor(fd, l)
  BY <1>0, <1>1, <1>4, ClosedOutcome DEF ReadTooLargeFor, Keeps
<1>5. CASE OnRequestFor(fd, l)
  <2>1. PICK k \in RequestKept(SocketRead(Here(fd), p)) : l = Hangup(k, Ev)
    BY <1>5 DEF OnRequestFor, p
  <2>2. /\ l.wrote = <<>> /\ GotAfter(c, p) = Frags
        /\ l.conn # NoConn => l.read /\ l.conn.got = Frags /\ l.conn.resp = c.resp /\ l.conn.pos = c.pos
    BY <1>0, <1>1, <1>5, <2>1, RequestOutcome DEF OnRequestFor, c, p
  <2> QED BY <2>2 DEF Keeps, c, p
<1>6. CASE OnWriteFor(fd, l) \/ DrainEventFor(fd, l)
  <2>1. PICK ev \in FdEvents : l = WriteOrHangup(fd, Ev.out, ev)
    <3>1. CASE OnWriteFor(fd, l)
      BY <3>1 DEF OnWriteFor
    <3>2. CASE DrainEventFor(fd, l)
      <4>1. Ev \in FdEvents /\ l = WriteOrHangup(fd, Ev.out, [Ev EXCEPT !.hup = Ev.hup \/ Ev.in])
        BY <3>2 DEF DrainEventFor
      <4>2. [Ev EXCEPT !.hup = Ev.hup \/ Ev.in] \in FdEvents
        BY <4>1 DEF FdEvents
      <4> QED BY <4>1, <4>2
    <3> QED BY <1>6, <3>1, <3>2
  <2>2. Ev.out \in BOOLEAN /\ ev.rdhup \in BOOLEAN
    BY <1>6, <2>1 DEF FdEvents, OnWriteFor, DrainEventFor
  <2> DEFINE e == Here(fd)
             t == DoWrite(e, p)
  <2>3. /\ l.conn # NoConn => ~l.read
        /\ Ev.out /\ c.resp # NoReq =>
             /\ l.wrote = t.wrote
             /\ WroteNothing(e, t, p) \/ WrotePart(e, t, p) \/ WroteRest(e, t, p)
             /\ l.conn # NoConn => t.conn # NoConn /\ l.conn = [t.conn EXCEPT !.caw = @ \/ ev.rdhup]
        /\ ~Ev.out \/ c.resp = NoReq =>
             /\ l.wrote = <<>>
             /\ l.conn # NoConn => l.conn = [c EXCEPT !.caw = @ \/ ev.rdhup]
    BY <1>0, <1>1, <2>1, <2>2, WriteOutcome DEF c, p
  <2>4. CASE ~Ev.out \/ c.resp = NoReq
    <3>1. l.conn # NoConn => l.conn.resp = c.resp /\ l.conn.pos = c.pos /\ l.conn.got = c.got
      BY <1>2, <2>3, <2>4 DEF ConnType
    <3> QED BY <2>3, <2>4, <3>1 DEF Keeps, c
  <2>5. CASE Ev.out /\ c.resp # NoReq
    <3>1. From(fd, e.conn) /\ e.conn # NoConn
      BY <1>1, <1>2, <2>5 DEF From, c, Open
    <3> HIDE DEF e, t
    <3>2. l.conn # NoConn => \E b \in BOOLEAN : l.conn = [t.conn EXCEPT !.caw = b]
      <4>1. l.conn # NoConn => t.conn.caw \in BOOLEAN
        <5>1. t.conn # NoConn => t.conn \in ConnType
          BY <1>0, <1>1, <1>2, <2>5, WriteHandled, HereFacts, LocalConn DEF Handled, Local, TablePart, c, p, e, t, Open
        <5> QED BY <2>3, <2>5, <5>1 DEF ConnType
      <4> QED BY <2>2, <2>3, <2>5, <4>1
    <3>3. Keeps(fd, l) \/ \E n : Writes(fd, l, e.conn, n)
      BY <1>1, <2>3, <2>5, <3>1, <3>2, WriteEffect DEF p
    <3> QED BY <3>3
  <2> QED BY <2>4, <2>5
<1>7. CASE AnswerFor(fd, l)
  <2> DEFINE r == Head(found).req
             a == Answering(fd, r)
  <2>1. /\ Answer /\ Head(found) \in Items /\ Belongs(Head(found)) /\ fd = Head(found).fd
        /\ l = DoWrite(a, p)
    BY <1>7 DEF AnswerFor, p
  <2>2. r \in Requests
    BY <2>1 DEF Items
  <2>3. /\ Local(a) /\ a.wrote = <<>> /\ ~a.read /\ a.conn # NoConn /\ a.conn.resp = r /\ r # NoReq
        /\ a.conn.id = conns[fd].id /\ a.conn.got = conns[fd].got /\ a.conn.pos = 0
        /\ a.conn \in ConnType /\ a.conn = [c EXCEPT !.proc = FALSE, !.resp = r, !.pos = 0]
    <3>1. Open(fd) /\ TablePart
      BY <1>0, <1>1
    <3> HIDE DEF a, r
    <3>2. a = Answering(fd, r)
      BY DEF a
    <3> QED BY <2>2, <3>1, <3>2, AnsweringFacts DEF c
  <2> HIDE DEF a
  <2>4. a.conn.moved = c.moved
    BY <1>2, <2>3 DEF ConnType
  <2>5. TakenAt(Node(fd), r)
    BY <2>1 DEF TakenAt, Node, Belongs
  <2>6. From(fd, a.conn)
    BY <2>3, <2>4, <2>5 DEF From, c
  <2>7. /\ Handled(fd, l)
        /\ WroteNothing(a, l, p) \/ WrotePart(a, l, p) \/ WroteRest(a, l, p)
        /\ l.conn # NoConn => ~l.read
    BY <1>0, <1>1, <2>1, <2>3, WriteHandled DEF p
  <2>8. l.conn # NoConn => \E b \in BOOLEAN : l.conn = [l.conn EXCEPT !.caw = b]
    <3>1. l.conn # NoConn => l.conn \in ConnType
      BY <2>7, LocalConn DEF Handled, Local
    <3>2. l.conn # NoConn => l.conn.caw \in BOOLEAN /\ l.conn = [l.conn EXCEPT !.caw = l.conn.caw]
      BY <3>1 DEF ConnType
    <3> QED BY <3>2
  <2>9. Keeps(fd, l) \/ \E n : Writes(fd, l, a.conn, n)
    BY <1>1, <2>3, <2>6, <2>7, <2>8, WriteEffect DEF p
  <2> QED BY <2>9
<1> QED BY <1>1, <1>3, <1>4, <1>5, <1>6, <1>7 DEF HandlerFor

\* What Commit makes of the two ends of the connection.
LEMMA CommitFacts ==
    ASSUME CoreInv, NEW fd \in Fds, NEW l, Commits(fd, l)
    PROVE  LET c == sock[fd]
           IN  /\ c \in Clients /\ Open(fd) /\ conns[fd] \in ConnType /\ conns'[fd] = l.conn
               /\ peer'[c].sent = peer[c].sent
               /\ peer'[c].unread = IF l.read THEN 0 ELSE peer[c].unread
               /\ peer'[c].st = IF l.conn = NoConn THEN "closed" ELSE "open"
               /\ peer[c].room = Pieces => peer'[c].room = Pieces
               /\ answers'[c] = answers[c] \o l.wrote
               /\ l.conn # NoConn => sock' = sock /\ l.conn.id = conns[fd].id
               /\ \A g \in Fds : g # fd => conns'[g] = conns[g] /\ sock'[g] = sock[g]
<1> DEFINE c == sock[fd]
<1>1. Open(fd) /\ Handled(fd, l) /\ Commit(fd, l) /\ NetTypes /\ ConnTypes /\ TableInv
  BY DEF Commits, Handled, CoreInv
<1>2. c \in Clients /\ conns[fd] \in ConnType /\ peer[c] \in PeerType
  BY <1>1, HereFacts
<1>3. /\ conns' = [conns EXCEPT ![fd] = l.conn] /\ answers' = [answers EXCEPT ![c] = answers[c] \o l.wrote]
      /\ sock' = IF l.conn = NoConn THEN [sock EXCEPT ![fd] = NoClient] ELSE sock
  BY <1>1 DEF Commit
<1>4. peer'[c] = PeerAfter(fd, l) /\ PeerAfter(fd, l).sent = peer[c].sent
      /\ PeerAfter(fd, l).st = (IF l.conn = NoConn THEN "closed" ELSE "open")
      /\ PeerAfter(fd, l).unread = IF l.read THEN 0 ELSE peer[c].unread
  BY <1>1, CommitPeer
<1>5. peer[c].room = Pieces => PeerAfter(fd, l).room = Pieces
  BY <1>2 DEF PeerAfter, PeerType
<1> HIDE DEF c
<1>6. conns'[fd] = l.conn /\ answers'[c] = answers[c] \o l.wrote
      /\ (l.conn # NoConn => sock' = sock)
      /\ \A g \in Fds : g # fd => conns'[g] = conns[g] /\ sock'[g] = sock[g]
  BY <1>1, <1>2, <1>3 DEF NetTypes, ConnTypes
<1>7. l.conn # NoConn => l.conn.id = conns[fd].id
  BY <1>1 DEF Handled
<1> QED BY <1>1, <1>2, <1>4, <1>5, <1>6, <1>7 DEF c

\* A parser left in place by finalize stays there until the connection is closed.
LEMMA StaysRefused ==
    ASSUME CoreInv, BusyInv, [Next]_vars, NEW fd \in Fds, Open(fd), Open(fd)'
    PROVE  sock'[fd] = sock[fd] /\ conns'[fd].id = conns[fd].id /\ (RefusedHere(fd) => RefusedHere(fd)')
<1>1. ASSUME conns'[fd] = conns[fd] PROVE RefusedHere(fd) => RefusedHere(fd)'
  BY <1>1 DEF RefusedHere
<1>2. CASE ~Handler
  BY <1>1, <1>2, OtherCases DEF Kept, Silenced, NewConn
<1>3. CASE Handler /\ Bystander(fd)
  BY <1>1, <1>3 DEF Bystander, Kept
<1>4. ASSUME NEW l, HandledBy(fd, l)
      PROVE  sock'[fd] = sock[fd] /\ conns'[fd].id = conns[fd].id /\ (RefusedHere(fd) => RefusedHere(fd)')
  <2> DEFINE c == conns[fd]
             d == conns'[fd]
  <2>1. sock'[fd] = sock[fd] /\ d.id = c.id
    BY <1>4 DEF HandledBy, Handled
  <2>2. c \in ConnType /\ (InFlight(fd) => c.moved \/ c.caw) /\ Frags \in Nat \ {0}
    BY IoAssumption DEF BusyInv, CoreInv, ConnTypes, Open
  <2> SUFFICES ASSUME c.got = Frags, ~c.moved PROVE d.got = Frags /\ ~d.moved
    BY <2>1 DEF RefusedHere
  <2>3. CASE ReadMore(fd)
    <3>1. c.got <= d.got /\ d.got < Frags
      BY <2>3 DEF ReadMore
    <3>2. d.got \in Nat
      <4>1. d \in ConnType
        BY <1>4, LocalConn DEF HandledBy, Handled, Local
      <4> QED BY <4>1 DEF ConnType
    <3> HIDE DEF c, d
    <3> QED BY <2>2, <3>1, <3>2
  <2>4. CASE Asked(fd)
    <3>1. ~(Frags < Frags)
      BY <2>2
    <3> QED BY <2>4, <3>1 DEF Asked
  <2>5. CASE Resumed(fd)
    <3>1. c.caw
      BY <2>2, <2>5 DEF Resumed, InFlight
    <3> QED BY <2>5, <3>1 DEF Resumed, Pausing, Renewed
  <2>6. CASE Ignored(fd)
    <3>1. d = [c EXCEPT !.caw = @ \/ Ev.rdhup]
      BY <2>6 DEF Ignored
    <3> QED BY <2>2, <3>1 DEF ConnType
  <2>7. CASE Answered1(fd)
    <3>1. /\ (d.got = c.got /\ d.moved = c.moved) \/ ~c.caw
      BY <2>7, RepliedFacts
    <3>2. QueuedFor(fd) # {}
      <4>1. Answer /\ Belongs(Head(found)) /\ Head(found).fd = fd
        BY <2>7 DEF Answered1
      <4>2. Waiting[1] = Head(found) /\ Len(Waiting) >= 1 /\ Len(Waiting) \in Nat
        BY <4>1, AnswerFlight, WaitingFacts
      <4>3. 1 \in QueuedFor(fd)
        BY <4>1, <4>2 DEF QueuedFor, Waiting, Belongs
      <4> QED BY <4>3
    <3>3. c.caw
      BY <2>2, <3>2 DEF InFlight
    <3> QED BY <3>1, <3>3
  <2> QED BY <1>4, <2>3, <2>4, <2>5, <2>6, <2>7, OutcomeCases
<1> QED BY <1>2, <1>3, <1>4, HandlerCases

LEMMA SpoiledGrows == ASSUME [Next]_vars, NEW c PROVE Spoiled(c) => Spoiled(c)'
  BY InheritedGrows DEF Spoiled

\* Whoever writes, writes the next piece of the next response.
LEMMA WriteInTurn ==
    ASSUME CoreInv, BusyInv, ShieldInv, ClientInv, NEW fd \in Fds, Open(fd),
           ~(RefusedHere(fd) /\ Spoiled(sock[fd])), NEW k \in Nat, Turn(fd, k), NEW a, From(fd, a)
    PROVE  LET c == sock[fd]
           IN  /\ Len(answers[c]) = Pieces * k + a.pos /\ a.resp = <<c, k + 1>>
               /\ conns[fd].got = Frags /\ peer[c].unread = 0 /\ peer[c].sent = Frags * k + Frags
<1> DEFINE c == sock[fd]
           n == conns[fd]
<1>1. c \in Clients /\ n \in ConnType /\ peer[c] \in PeerType
  BY HereFacts DEF CoreInv
<1>2. /\ Len(answers[c]) = Pieces * k + n.pos
      /\ IF n.resp = NoReq THEN n.pos = 0 ELSE n.pos < Pieces /\ n.resp = <<c, k + 1>>
      /\ \A r \in TasksFor(fd) \cup RequestsOf(Node(fd)) : r = <<c, k + 1>>
      /\ Frags * k + n.got + peer[c].unread = peer[c].sent
      /\ n.got + peer[c].unread <= Frags
  BY DEF Turn
<1>3. InFlight(fd) => n.got = Frags
  BY DEF BusyInv
<1>4. n.got = Frags => peer[c].unread = 0 /\ peer[c].sent = Frags * k + Frags
  <2>1. PICK u \in Nat, s \in Nat, g \in Nat, f \in Nat :
            u = peer[c].unread /\ s = peer[c].sent /\ g = n.got /\ f = Frags * k
    BY <1>1, IoAssumption DEF PeerType, ConnType
  <2>2. f + g + u = s /\ g + u <= Frags /\ Frags \in Nat
    BY <1>2, <2>1, IoAssumption
  <2>3. g = Frags => u = 0 /\ s = f + Frags
    BY <2>2
  <2> QED BY <2>1, <2>3
<1> HIDE DEF c, n
<1>5. CASE a.resp = n.resp /\ a.pos = n.pos
  <2>1. n.resp # NoReq
    BY <1>5 DEF From
  <2> QED BY <1>2, <1>3, <1>4, <1>5, <2>1 DEF InFlight, c, n
<1>6. CASE TakenAt(Node(fd), a.resp) /\ a.pos = 0
  <2>1. Answer /\ Head(found).fd = fd /\ Head(found).id = n.id /\ a.resp = Head(found).req
    BY <1>6 DEF TakenAt, Node, n
  <2>2. Waiting[1] = Head(found) /\ Len(Waiting) >= 1 /\ Len(Waiting) \in Nat
    BY <2>1, AnswerFlight, WaitingFacts
  <2>3. 1 \in QueuedFor(fd) /\ 1 \in QueuedOf(Node(fd))
    BY <2>1, <2>2 DEF QueuedFor, QueuedOf, Waiting, Node, n
  <2>4. a.resp \in RequestsOf(Node(fd))
    BY <2>1, <2>2, <2>3 DEF RequestsOf
  <2>5. n.got = Frags /\ a.resp = <<c, k + 1>>
    BY <1>2, <1>3, <2>3, <2>4 DEF InFlight
  <2>6. n.resp = NoReq
    <3>1. CASE n.moved
      BY <2>3, <3>1 DEF BusyInv, AtMostOne, n
    <3>2. CASE c \notin inherited
      BY <2>3, <3>2 DEF ShieldInv, AtMostOne, n, c
    <3>3. CASE c \notin SlowClients
      BY <1>1, <3>3 DEF ClientInv, n, c
    <3> QED BY <2>5, <3>1, <3>2, <3>3 DEF RefusedHere, Spoiled, n, c
  <2>7. n.pos = 0
    BY <1>2, <2>6
  <2> QED BY <1>2, <1>4, <1>6, <2>5, <2>7 DEF c, n
<1> QED BY <1>5, <1>6 DEF From, n, c

LEMMA ClientStepInv == ASSUME CoreInv, ClientInv, [Next]_vars PROVE ClientInv'
<1>1. ASSUME NEW c \in Clients, peer'[c].st \in {"new", "backlog"}
      PROVE  answers'[c] = <<>> /\ peer'[c].unread = peer'[c].sent /\ peer'[c].sent <= Frags
  <2>1. peer[c].st \in {"new", "backlog"}
    BY <1>1, ClientCases DEF Onwards
  <2>2. answers[c] = <<>> /\ peer[c].unread = peer[c].sent /\ peer[c].sent <= Frags
    BY <2>1 DEF ClientInv
  <2>3. CASE Untouched(c)
    BY <2>2, <2>3 DEF Untouched
  <2>4. CASE Sends(c)
    <3>1. Received(c) = 0
      <4>1. (Pieces * 0 + 0) \div Pieces = 0
        BY IoAssumption, DivExact
      <4> QED BY <2>2, <4>1, IoAssumption DEF Received
    <3>2. PICK s \in Nat : s = peer[c].sent
      BY DEF CoreInv, NetTypes, PeerType
    <3>3. s < Frags * (0 + 1)
      BY <2>4, <3>1, <3>2 DEF Sends
    <3>4. s + 1 <= Frags
      BY <3>3, IoAssumption
    <3> QED BY <2>2, <2>4, <3>2, <3>4 DEF Sends
  <2>5. ASSUME NEW fd \in Fds, NEW l, Commits(fd, l), sock[fd] = c PROVE FALSE
    BY <1>1, <2>5, CommitFacts
  <2> QED BY <2>3, <2>4, <2>5, ClientCases
<1>2. ASSUME NEW c \in Clients, c \notin SlowClients PROVE peer'[c].room = Pieces
  <2>1. peer[c].room = Pieces
    BY <1>2 DEF ClientInv
  <2>2. CASE Untouched(c) \/ Sends(c)
    BY <1>2, <2>1, <2>2 DEF Untouched, Sends
  <2>3. ASSUME NEW fd \in Fds, NEW l, Commits(fd, l), sock[fd] = c PROVE peer'[c].room = Pieces
    BY <2>1, <2>3, CommitFacts
  <2> QED BY <2>2, <2>3, ClientCases
<1>3. ASSUME NEW c \in Clients, c \notin SlowClients, NEW fd \in Fds, sock'[fd] = c
      PROVE  conns'[fd].resp = NoReq
  <2>1. Open(fd)'
    BY <1>3, CoreStep, ModelValuesAssumption DEF CoreInv, TableInv
  <2>2. ASSUME conns'[fd] = conns[fd], sock'[fd] = sock[fd] PROVE conns'[fd].resp = NoReq
    BY <1>3, <2>2 DEF ClientInv
  <2>3. CASE NewConn(fd)
    BY <2>3 DEF NewConn, Fresh
  <2>4. CASE ~Handler
    BY <2>1, <2>2, <2>3, <2>4, OtherCases DEF Kept, Silenced
  <2>5. CASE Bystander(fd)
    BY <2>2, <2>5 DEF Bystander, Kept
  <2>6. ASSUME NEW l, HandledBy(fd, l) PROVE conns'[fd].resp = NoReq
    <3>1. Commits(fd, l) /\ sock[fd] = c /\ conns'[fd] = l.conn /\ l.conn # NoConn
      BY <1>3, <2>6 DEF HandledBy, Commits
    <3>2. peer[c].room = Pieces /\ conns[fd].resp = NoReq
      BY <1>3, <3>1 DEF ClientInv
    <3>3. Keeps(fd, l) => l.conn.resp = NoReq
      BY <3>1, <3>2 DEF Keeps
    <3>4. ASSUME NEW a, NEW n, Writes(fd, l, a, n) PROVE l.conn.resp = NoReq
      BY <3>1, <3>2, <3>4 DEF Writes
    <3> QED BY <3>1, <3>3, <3>4, Effects
  <2> QED BY <2>1, <2>4, <2>5, <2>6, HandlerCases
<1> QED BY <1>1, <1>2, <1>3 DEF ClientInv

\* Of k requests and the next one, all asked, no more than that is answered.
LEMMA OwedEnough ==
    ASSUME NEW f \in Nat \ {0}, NEW p \in Nat \ {0}, NEW k \in Nat, NEW x \in Nat, x <= p * k + p
    PROVE  f * x <= p * (f * k + f)
<1> DEFINE y == p * k + p
<1>1. y \in Nat /\ f * y = p * (f * k + f)
  OBVIOUS
<1> HIDE DEF y
<1>2. x <= y
  BY DEF y
<1>3. f * x <= f * y
  BY <1>1, <1>2, MulGrows
<1> QED BY <1>1, <1>3

LEMMA ConcatAt ==
    ASSUME NEW S, NEW s \in Seq(S), NEW w \in Seq(S)
    PROVE  /\ Len(s \o w) = Len(s) + Len(w)
           /\ \A i \in 1..Len(s) : (s \o w)[i] = s[i]
           /\ \A j \in 1..Len(w) : (s \o w)[Len(s) + j] = w[j]
  OBVIOUS

LEMMA WholeStep ==
    ASSUME CoreInv, BusyInv, ShieldInv, ClientInv, TurnInv, WholeInv, [Next]_vars
    PROVE  WholeInv'
<1> SUFFICES ASSUME NEW c \in Clients, ~Spoiled(c)'
             PROVE  /\ Frags * Len(answers'[c]) <= Pieces * peer'[c].sent
                    /\ \A i \in 1..Len(answers'[c]) : answers'[c][i] = PieceAt(c, i)
  BY DEF WholeInv, PieceAt
<1>1. ~Spoiled(c)
  BY SpoiledGrows
<1>2. /\ Frags * Len(answers[c]) <= Pieces * peer[c].sent
      /\ \A i \in 1..Len(answers[c]) : answers[c][i] = PieceAt(c, i)
  BY <1>1 DEF WholeInv
<1>3. answers[c] \in Seq(PieceSet) /\ peer[c].sent \in Nat
  BY DEF CoreInv, NetTypes, PeerType
<1>4. CASE Untouched(c)
  BY <1>2, <1>4 DEF Untouched
<1>5. CASE Sends(c)
  <2>1. PICK x \in Nat, s \in Nat : x = Frags * Len(answers[c]) /\ s = peer[c].sent
    BY <1>3, IoAssumption
  <2>2. Pieces * s <= Pieces * (s + 1) /\ Pieces * s \in Nat /\ Pieces * (s + 1) \in Nat
    BY <2>1, IoAssumption, MulGrows
  <2>3. x <= Pieces * (s + 1)
    BY <1>2, <2>1, <2>2
  <2> QED BY <1>2, <1>5, <2>1, <2>3 DEF Sends
<1>6. ASSUME NEW fd \in Fds, NEW l, Commits(fd, l), sock[fd] = c
      PROVE  /\ Frags * Len(answers'[c]) <= Pieces * peer'[c].sent
             /\ \A i \in 1..Len(answers'[c]) : answers'[c][i] = PieceAt(c, i)
  <2>1. Open(fd) /\ answers'[c] = answers[c] \o l.wrote /\ peer'[c].sent = peer[c].sent
    BY <1>6, CommitFacts
  <2>2. CASE Keeps(fd, l)
    <3>1. answers'[c] = answers[c]
      BY <1>3, <2>1, <2>2 DEF Keeps
    <3> QED BY <1>2, <2>1, <3>1
  <2>3. ASSUME NEW a, NEW n, Writes(fd, l, a, n)
        PROVE  /\ Frags * Len(answers'[c]) <= Pieces * peer'[c].sent
               /\ \A i \in 1..Len(answers'[c]) : answers'[c][i] = PieceAt(c, i)
    <3>1. PICK k \in Nat : Turn(fd, k)
      BY <1>1, <1>6, <2>1 DEF TurnInv
    <3>2. /\ From(fd, a) /\ n \in Nat /\ a.pos + n <= Pieces /\ l.wrote = Burst(a, n)
          /\ a \in ConnType /\ a.resp # NoReq
      BY <2>3 DEF Writes, From
    <3>3. /\ Len(answers[c]) = Pieces * k + a.pos /\ a.resp = <<c, k + 1>>
          /\ peer[c].sent = Frags * k + Frags
      BY <1>1, <1>6, <2>1, <3>1, <3>2, WriteInTurn
    <3>4. l.wrote \in Seq(PieceSet) /\ Len(l.wrote) = n
      BY <3>2, BurstFacts
    <3>5. PICK p \in Nat, d \in Nat : p = a.pos /\ d = Pieces * k
      BY <3>2, IoAssumption DEF ConnType
    <3>6. /\ Len(answers'[c]) = d + p + n /\ Len(answers[c]) = d + p
          /\ \A i \in 1..(d + p) : answers'[c][i] = answers[c][i]
          /\ \A j \in 1..n : answers'[c][d + p + j] = l.wrote[j]
      <4>1. PICK s \in Seq(PieceSet), w \in Seq(PieceSet) : s = answers[c] /\ w = l.wrote
        BY <1>3, <3>4
      <4>2. Len(s) = d + p /\ Len(w) = n
        BY <3>3, <3>4, <3>5, <4>1
      <4>3. /\ Len(s \o w) = d + p + n
            /\ \A i \in 1..(d + p) : (s \o w)[i] = s[i]
            /\ \A j \in 1..n : (s \o w)[d + p + j] = w[j]
        <5>1. /\ Len(s \o w) = Len(s) + Len(w)
              /\ \A i \in 1..Len(s) : (s \o w)[i] = s[i]
              /\ \A j \in 1..Len(w) : (s \o w)[Len(s) + j] = w[j]
          BY ConcatAt
        <5> QED BY <4>2, <5>1
      <4> QED BY <2>1, <4>1, <4>2, <4>3
    <3>7. Frags * Len(answers'[c]) <= Pieces * peer'[c].sent
      <4>1. d + p + n \in Nat /\ d + p + n <= Pieces * k + Pieces
        BY <3>2, <3>5, IoAssumption
      <4>2. Frags * (d + p + n) <= Pieces * (Frags * k + Frags)
        BY <4>1, IoAssumption, OwedEnough
      <4> QED BY <2>1, <3>3, <3>6, <4>2
    <3>8. ASSUME NEW i \in 1..Len(answers'[c]) PROVE answers'[c][i] = PieceAt(c, i)
      <4>0. i \in 1..(d + p + n) /\ n \in Nat
        BY <3>2, <3>6, <3>8
      <4>1. CASE i <= d + p
        <5>1. answers'[c][i] = answers[c][i] /\ i \in 1..Len(answers[c])
          BY <3>5, <3>6, <3>8, <4>1
        <5> QED BY <1>2, <5>1
      <4>2. CASE ~(i <= d + p)
        <5>1. PICK j \in Nat : j = i - (d + p)
          BY <4>0, <4>2
        <5>2. j >= 1 /\ j <= n /\ i = d + p + j
          BY <4>0, <4>2, <5>1
        <5>3. answers'[c][i] = l.wrote[j]
          <6>1. j \in 1..n
            BY <4>0, <5>2
          <6> QED BY <3>6, <5>2, <6>1
        <5>4. l.wrote[j] = <<a.resp, p + j>>
          BY <3>2, <3>5, <5>2 DEF Burst
        <5>5. PICK q \in Nat : q = p + j - 1 /\ q < Pieces
          BY <3>2, <3>5, <5>2, IoAssumption
        <5>6. (Pieces * k + q) \div Pieces = k /\ (Pieces * k + q) % Pieces = q
          BY <5>5, IoAssumption, DivExact
        <5>7. i - 1 = Pieces * k + q /\ q + 1 = p + j
          <6>1. i - 1 = d + q /\ q + 1 = p + j
            BY <5>2, <5>5
          <6> QED BY <3>5, <6>1
        <5>8. answers'[c][i] = << <<c, k + 1>>, q + 1>>
          BY <3>3, <5>3, <5>4, <5>7
        <5>9. PieceAt(c, i) = << <<c, k + 1>>, q + 1>>
          BY <5>6, <5>7 DEF PieceAt
        <5> QED BY <5>8, <5>9
      <4> QED BY <4>1, <4>2
    <3> QED BY <3>7, <3>8
  <2> QED BY <1>6, <2>2, <2>3, Effects
<1> QED BY <1>4, <1>5, <1>6, ClientCases

\* What a connection has in flight, it had, or it has just asked for.
LEMMA InFlightBefore ==
    ASSUME CoreInv, InHandInv, [Next]_vars, NEW fd \in Fds, Open(fd), Open(fd)', Node(fd)' = Node(fd),
           NEW x \in TasksFor(fd)' \cup RequestsOf(Node(fd))'
    PROVE  x \in TasksFor(fd) \cup RequestsOf(Node(fd)) \/ AskedAt(Node(fd), x)
<1>1. PICK n : n = Node(fd)
  OBVIOUS
<1>2. n \in Nodes
  BY <1>1 DEF Node, Nodes, CoreInv, ConnTypes, ConnType, Open
<1>3. TasksFor(fd) = TasksOf(n) /\ TasksFor(fd)' = TasksOf(n)'
  BY <1>1, FlightOf
<1>4. RequestsOf(Node(fd)) = RequestsOf(n) /\ RequestsOf(Node(fd))' = RequestsOf(n)'
  <2>1. Node(fd)' = n
    BY <1>1
  <2> QED BY <1>1, <2>1 DEF RequestsOf, QueuedOf
<1>5. (x \in RequestsOf(n)' \/ x \in TasksOf(n)') => x \in RequestsOf(n) \/ x \in TasksOf(n) \/ AskedAt(n, x)
  BY <1>2, Provenance
<1> QED BY <1>1, <1>3, <1>4, <1>5

\* The client asks for more, or nothing happens on the connection.
LEMMA TurnKept ==
    ASSUME CoreInv, NEW fd \in Fds, Open(fd), NEW k \in Nat, Turn(fd, k),
           conns'[fd] = conns[fd], sock'[fd] = sock[fd], Untouched(sock[fd]) \/ Sends(sock[fd]),
           \A x \in TasksFor(fd)' \cup RequestsOf(Node(fd))' : x \in TasksFor(fd) \cup RequestsOf(Node(fd))
    PROVE  Turn(fd, k)'
<1> DEFINE c == sock[fd]
           n == conns[fd]
<1>1. c \in Clients /\ n \in ConnType /\ peer[c] \in PeerType
  BY HereFacts DEF CoreInv
<1>2. /\ Len(answers[c]) = Pieces * k + n.pos
      /\ IF n.resp = NoReq THEN n.pos = 0 ELSE n.pos < Pieces /\ n.resp = <<c, k + 1>>
      /\ \A r \in TasksFor(fd) \cup RequestsOf(Node(fd)) : r = <<c, k + 1>>
      /\ Frags * k + n.got + peer[c].unread = peer[c].sent
      /\ n.got + peer[c].unread <= Frags
  BY DEF Turn
<1> HIDE DEF c, n
<1>3. /\ answers'[c] = answers[c]
      /\ Frags * k + n.got + peer'[c].unread = peer'[c].sent
      /\ n.got + peer'[c].unread <= Frags
  <2>1. CASE Untouched(c)
    BY <1>2, <2>1 DEF Untouched
  <2>2. CASE Sends(c)
    <3>0. /\ peer[c].unread \in Nat /\ peer[c].sent \in Nat /\ n.got \in Nat /\ Frags * k \in Nat
          /\ n.pos \in Nat
      BY <1>1, IoAssumption DEF PeerType, ConnType
    <3>1. PICK u \in Nat, s \in Nat, g \in Nat, f \in Nat, p \in Nat :
              u = peer[c].unread /\ s = peer[c].sent /\ g = n.got /\ f = Frags * k /\ p = n.pos
      BY <3>0
    <3>2. p < Pieces
      BY <1>2, <3>1, IoAssumption
    <3>3. Received(c) = k
      BY <1>2, <3>1, <3>2, IoAssumption, DivExact DEF Received
    <3>4. s < Frags * (k + 1) /\ Frags * (k + 1) = f + Frags /\ Frags \in Nat
      BY <2>2, <3>1, <3>3, IoAssumption DEF Sends
    <3>5. f + g + u = s /\ g + u <= Frags
      BY <1>2, <3>1
    <3>6. f + g + (u + 1) = s + 1 /\ g + (u + 1) <= Frags
      BY <3>4, <3>5
    <3> QED BY <2>2, <3>1, <3>6 DEF Sends
  <2> QED BY <2>1, <2>2 DEF c
<1> QED BY <1>2, <1>3 DEF Turn, c, n

\* A connection that has just been accepted.
LEMMA TurnBorn ==
    ASSUME CoreInv, PastInv, ClientInv, [Next]_vars, ~Handler, NEW fd \in Fds, NewConn(fd)
    PROVE  Turn(fd, 0)'
<1> DEFINE c == Head(backlog)
<1>1. /\ Accept /\ backlog # <<>> /\ sock'[fd] = c /\ conns'[fd] = Fresh(nextId + 1)
      /\ TasksFor(fd)' = {} /\ QueuedFor(fd)' = {}
  BY BornCase DEF NewConn, Born
<1>2. c \in Clients /\ peer[c].st = "backlog"
  <2>1. backlog \in Seq(Clients) /\ \A i \in 1..Len(backlog) : peer[backlog[i]].st = "backlog"
    BY DEF CoreInv, NetTypes, BacklogInv
  <2>2. Len(backlog) \in Nat /\ Len(backlog) >= 1 /\ Head(backlog) = backlog[1]
    BY <1>1, <2>1, HeadTailProperties
  <2>3. backlog[1] \in Clients /\ peer[backlog[1]].st = "backlog"
    BY <2>1, <2>2
  <2> QED BY <2>2, <2>3
<1> HIDE DEF c
<1>3. answers[c] = <<>> /\ peer[c].unread = peer[c].sent /\ peer[c].sent <= Frags /\ peer[c].sent \in Nat
  BY <1>2 DEF ClientInv, CoreInv, NetTypes, PeerType
<1>4. peer'[c].st = "open"
  <2>1. Fresh(nextId + 1) # NoConn
    <3>1. nextId + 1 \in Nat /\ NetTypes
      BY DEF CoreInv, ConnTypes
    <3> QED BY <3>1, FreshFacts
  <2> QED BY <1>1, <2>1, CoreStep DEF CoreInv, TableInv, Open
<1>5. Untouched(c)
  BY <1>2, <1>4, ClientCases DEF Sends, Commits
<1>6. RequestsOf(Node(fd))' = {}
  <2>1. QueuedOf(Node(fd))' = {}
    BY <1>1 DEF QueuedFor, QueuedOf, Waiting, Node
  <2> QED BY <2>1 DEF RequestsOf
<1>7. conns'[fd].resp = NoReq /\ conns'[fd].pos = 0 /\ conns'[fd].got = 0
  BY <1>1 DEF Fresh
<1>8. Len(answers'[c]) = Pieces * 0 + 0 /\ Frags * 0 + 0 + peer[c].unread = peer[c].sent /\ 0 + peer[c].unread <= Frags
  BY <1>3, <1>5, IoAssumption DEF Untouched
<1> QED BY <1>1, <1>5, <1>6, <1>7, <1>8 DEF Turn, Untouched

\* What is asked is the next request.
LEMMA AskedInTurn ==
    ASSUME CoreInv, NEW fd \in Fds, Open(fd), NEW k \in Nat, Turn(fd, k), NEW x, AskedAt(Node(fd), x)
    PROVE  x = <<sock[fd], k + 1>>
<1> DEFINE c == sock[fd]
           n == conns[fd]
<1>1. c \in Clients /\ n \in ConnType /\ peer[c] \in PeerType
  BY HereFacts DEF CoreInv
<1>2. Frags * k + n.got + peer[c].unread = peer[c].sent /\ n.got + peer[c].unread <= Frags
  BY DEF Turn
<1>3. OnRequest /\ Ev.src = fd /\ x = <<c, peer[c].sent \div Frags>>
  BY DEF AskedAt, Node, RequestOf
<1>4. GotAfter(n, peer[c]) = Frags
  <2> DEFINE l == SocketRead(Here(fd), peer[c])
  <2>1. Complete(l)
    BY <1>3 DEF OnRequest
  <2>2. l.conn # NoConn /\ l.conn.got = Frags
    BY <2>1 DEF Complete
  <2>3. l.conn = [n EXCEPT !.got = GotAfter(n, peer[c]), !.last = now, !.caw = @ \/ peer[c].fin]
    BY <2>2, ReadHere DEF CoreInv, TablePart
  <2> HIDE DEF l
  <2>4. l.conn.got = GotAfter(n, peer[c])
    BY <1>1, <2>3 DEF ConnType
  <2> QED BY <2>2, <2>4
<1> HIDE DEF c, n
<1>5. peer[c].sent = Frags * (k + 1) + 0
  <2>1. PICK u \in Nat, s \in Nat, g \in Nat, f \in Nat :
            u = peer[c].unread /\ s = peer[c].sent /\ g = n.got /\ f = Frags * k
    BY <1>1, IoAssumption DEF PeerType, ConnType
  <2>2. f + g + u = s /\ g + u <= Frags /\ Frags \in Nat /\ Frags * (k + 1) = f + Frags
    BY <1>2, <2>1, IoAssumption
  <2>3. (IF g + u > Frags THEN Frags ELSE g + u) = Frags
    BY <1>4, <2>1 DEF GotAfter
  <2>4. g + u = Frags
    BY <2>2, <2>3
  <2>5. s = f + Frags
    BY <2>2, <2>4
  <2> QED BY <2>1, <2>2, <2>5
<1>6. (Frags * (k + 1) + 0) \div Frags = k + 1
  BY IoAssumption, DivExact
<1> QED BY <1>3, <1>5, <1>6 DEF c

LEMMA TurnHandled ==
    ASSUME CoreInv, PastInv, InHandInv, BusyInv, ShieldInv, ClientInv, [Next]_vars,
           NEW fd \in Fds, NEW l, HandledBy(fd, l), ~(RefusedHere(fd) /\ Spoiled(sock[fd])),
           NEW k \in Nat, Turn(fd, k)
    PROVE  \E j \in Nat : Turn(fd, j)'
<1> DEFINE c == sock[fd]
           n == conns[fd]
           d == conns'[fd]
<1>1. /\ d = l.conn /\ l.conn # NoConn /\ sock'[fd] = c /\ Open(fd) /\ Open(fd)'
  BY DEF HandledBy, Handled, Commits, Open
<1>2. Commits(fd, l)
  BY DEF HandledBy, Commits
<1>3. c \in Clients /\ n \in ConnType /\ peer[c] \in PeerType /\ answers[c] \in Seq(PieceSet)
  BY <1>1, HereFacts DEF CoreInv, NetTypes
<1>4. /\ peer'[c].sent = peer[c].sent
      /\ peer'[c].unread = IF l.read THEN 0 ELSE peer[c].unread
      /\ answers'[c] = answers[c] \o l.wrote
      /\ d.id = n.id
  BY <1>1, <1>2, CommitFacts
<1>5. /\ Len(answers[c]) = Pieces * k + n.pos
      /\ IF n.resp = NoReq THEN n.pos = 0 ELSE n.pos < Pieces /\ n.resp = <<c, k + 1>>
      /\ \A r \in TasksFor(fd) \cup RequestsOf(Node(fd)) : r = <<c, k + 1>>
      /\ Frags * k + n.got + peer[c].unread = peer[c].sent
      /\ n.got + peer[c].unread <= Frags
  BY DEF Turn
<1>6. \A x \in TasksFor(fd)' \cup RequestsOf(Node(fd))' : x = <<c, k + 1>>
  <2>1. Node(fd)' = Node(fd)
    BY <1>4 DEF Node
  <2> SUFFICES ASSUME NEW x \in TasksFor(fd)' \cup RequestsOf(Node(fd))' PROVE x = <<c, k + 1>>
    OBVIOUS
  <2>2. x \in TasksFor(fd) \cup RequestsOf(Node(fd)) \/ AskedAt(Node(fd), x)
    BY <1>1, <2>1, InFlightBefore
  <2> QED BY <1>1, <1>5, <2>2, AskedInTurn
<1> HIDE DEF c, n, d
<1>7. CASE Keeps(fd, l)
  <2>1. /\ answers'[c] = answers[c] /\ d.resp = n.resp /\ d.pos = n.pos
        /\ d.got = IF l.read THEN GotAfter(n, peer[c]) ELSE n.got
    BY <1>1, <1>3, <1>4, <1>7 DEF Keeps, c, n
  <2>2. /\ Frags * k + d.got + peer'[c].unread = peer'[c].sent
        /\ d.got + peer'[c].unread <= Frags
    <3>1. peer[c].unread \in Nat /\ peer[c].sent \in Nat
      BY <1>3 DEF PeerType
    <3>0. n.got \in Nat /\ Frags * k \in Nat
      BY <1>3, IoAssumption DEF ConnType
    <3>2. PICK u \in Nat, s \in Nat, g \in Nat, f \in Nat :
              u = peer[c].unread /\ s = peer[c].sent /\ g = n.got /\ f = Frags * k
      BY <3>0, <3>1
    <3>3. f + g + u = s /\ g + u <= Frags /\ Frags \in Nat
      BY <1>5, <3>2, IoAssumption
    <3>4. CASE l.read
      <4>1. d.got = IF g + u > Frags THEN Frags ELSE g + u
        BY <2>1, <3>2, <3>4 DEF GotAfter
      <4>2. d.got = g + u
        BY <3>3, <4>1
      <4>3. f + (g + u) + 0 = s /\ (g + u) + 0 <= Frags
        BY <3>3
      <4> QED BY <1>4, <3>2, <3>4, <4>2, <4>3
    <3>5. CASE ~l.read
      BY <1>4, <1>5, <2>1, <3>5
    <3> QED BY <3>4, <3>5
  <2>3. Turn(fd, k)'
    BY <1>1, <1>5, <1>6, <2>1, <2>2 DEF Turn, d
  <2> QED BY <2>3
<1>8. ASSUME NEW a, NEW m, Writes(fd, l, a, m) PROVE \E j \in Nat : Turn(fd, j)'
  <2>1. /\ From(fd, a) /\ m \in Nat /\ a.pos + m <= Pieces /\ l.wrote = Burst(a, m) /\ ~l.read
        /\ a \in ConnType /\ a.resp # NoReq /\ a.got = n.got
    BY <1>1, <1>8 DEF Writes, From, n
  <2>2. /\ Len(answers[c]) = Pieces * k + a.pos /\ a.resp = <<c, k + 1>>
        /\ n.got = Frags /\ peer[c].unread = 0 /\ peer[c].sent = Frags * k + Frags
    BY <1>1, <2>1, WriteInTurn DEF c, n
  <2>3. Len(answers'[c]) = Pieces * k + a.pos + m
    <3>1. l.wrote \in Seq(PieceSet) /\ Len(l.wrote) = m
      BY <2>1, BurstFacts
    <3>2. Len(answers[c] \o l.wrote) = Len(answers[c]) + Len(l.wrote)
      BY <1>3, <3>1, ConcatAt
    <3> QED BY <1>4, <2>2, <3>1, <3>2
  <2>4. peer'[c].unread = 0 /\ peer'[c].sent = Frags * k + Frags
    BY <1>4, <2>1, <2>2
  <2>5. CASE m = Pieces - a.pos /\ d.resp = NoReq /\ d.pos = 0 /\ d.got = 0
    <3>1. Frags # 0 /\ Frags \in Nat /\ Pieces \in Nat /\ a.pos \in Nat /\ k + 1 \in Nat
      BY <2>1, IoAssumption DEF ConnType
    <3>2. Len(answers'[c]) = Pieces * (k + 1) + 0
      BY <2>3, <2>5, <3>1
    <3>3. Frags * (k + 1) + 0 + 0 = Frags * k + Frags /\ 0 + 0 <= Frags
      BY <3>1
    <3>4. TasksFor(fd)' = {} /\ QueuedFor(fd)' = {}
      <4>1. BusyInv'
        BY BusyStep
      <4>2. InFlight(fd)' => d.got = Frags
        BY <1>1, <4>1 DEF BusyInv, d
      <4> QED BY <2>5, <3>1, <4>2 DEF InFlight
    <3>5. RequestsOf(Node(fd))' = {}
      <4>1. QueuedOf(Node(fd))' = {}
        BY <3>4 DEF QueuedFor, QueuedOf, Waiting, Node
      <4> QED BY <4>1 DEF RequestsOf
    <3>6. Turn(fd, k + 1)'
      BY <1>1, <2>4, <2>5, <3>2, <3>3, <3>4, <3>5 DEF Turn, d
    <3> QED BY <3>1, <3>6
  <2>6. CASE /\ a.pos + m < Pieces /\ d.resp = a.resp /\ d.pos = a.pos + m /\ d.got = a.got
    <3>1. Len(answers'[c]) = Pieces * k + d.pos
      <4>1. PICK x \in Nat, y \in Nat : x = Pieces * k /\ y = a.pos
        BY <2>1, IoAssumption DEF ConnType
      <4>2. x + y + m = x + (y + m)
        BY <2>1
      <4> QED BY <2>3, <2>6, <4>1, <4>2
    <3>2. Frags * k + d.got + 0 = Frags * k + Frags /\ d.got + 0 <= Frags
      BY <2>1, <2>2, <2>6, IoAssumption
    <3>3. d.resp # NoReq /\ d.resp = <<c, k + 1>> /\ d.pos < Pieces
      BY <2>1, <2>2, <2>6
    <3>4. Turn(fd, k)'
      BY <1>1, <1>6, <2>4, <3>1, <3>2, <3>3 DEF Turn, d
    <3> QED BY <3>4
  <2> QED BY <1>1, <1>8, <2>5, <2>6 DEF Writes
<1> QED BY <1>2, <1>7, <1>8, Effects

LEMMA TurnStep ==
    ASSUME CoreInv, PastInv, InHandInv, BusyInv, ShieldInv, ClientInv, TurnInv, [Next]_vars
    PROVE  TurnInv'
<1> SUFFICES ASSUME NEW fd \in Fds, Open(fd)', ~(RefusedHere(fd) /\ Spoiled(sock[fd]))'
             PROVE  \E k \in Nat : Turn(fd, k)'
  BY DEF TurnInv
<1>1. CASE NewConn(fd) /\ ~Handler
  BY <1>1, TurnBorn
<1>2. ASSUME Open(fd)
      PROVE  /\ sock'[fd] = sock[fd] /\ Node(fd)' = Node(fd)
             /\ ~(RefusedHere(fd) /\ Spoiled(sock[fd])) /\ \E k \in Nat : Turn(fd, k)
  <2>1. sock'[fd] = sock[fd] /\ conns'[fd].id = conns[fd].id /\ (RefusedHere(fd) => RefusedHere(fd)')
    BY <1>2, StaysRefused
  <2>2. PICK c : c = sock[fd]
    OBVIOUS
  <2>3. Spoiled(c) => Spoiled(c)'
    BY SpoiledGrows
  <2>4. ~(RefusedHere(fd) /\ Spoiled(sock[fd]))
    BY <2>1, <2>2, <2>3 DEF Spoiled
  <2> QED BY <1>2, <2>1, <2>4 DEF TurnInv, Node
<1>3. ASSUME Open(fd), conns'[fd] = conns[fd], \A l : ~Commits(fd, l), ~AskedAt(Node(fd), RequestOf(fd))
      PROVE  \E k \in Nat : Turn(fd, k)'
  <2>1. PICK k \in Nat : Turn(fd, k)
    BY <1>2, <1>3
  <2>2. sock'[fd] = sock[fd] /\ Node(fd)' = Node(fd) /\ sock[fd] \in Clients
    BY <1>2, <1>3, HereFacts DEF CoreInv
  <2>3. Untouched(sock[fd]) \/ Sends(sock[fd])
    <3>1. ASSUME NEW g \in Fds, NEW l, Commits(g, l), sock[g] = sock[fd] PROVE FALSE
      <4>1. Open(g)
        BY <3>1 DEF Commits, Handled
      <4>2. g = fd
        BY <1>3, <3>1, <4>1 DEF CoreInv, TableInv
      <4> QED BY <1>3, <3>1, <4>2
    <3> QED BY <2>2, <3>1, ClientCases
  <2>4. ASSUME NEW x \in TasksFor(fd)' \cup RequestsOf(Node(fd))'
        PROVE  x \in TasksFor(fd) \cup RequestsOf(Node(fd))
    <3>1. ~AskedAt(Node(fd), x)
      BY <1>3 DEF AskedAt, Node
    <3> QED BY <1>3, <2>2, <2>4, <3>1, InFlightBefore
  <2>5. Turn(fd, k)'
    BY <1>3, <2>1, <2>2, <2>3, <2>4, TurnKept
  <2> QED BY <2>5
<1>4. CASE ~Handler
  <2>1. (\A l : ~Commits(fd, l)) /\ ~AskedAt(Node(fd), RequestOf(fd))
    BY <1>4 DEF Commits, AskedAt, Handler
  <2> QED BY <1>1, <1>3, <1>4, <2>1, OtherCases DEF Kept, Silenced
<1>5. CASE Handler /\ Bystander(fd)
  <2>1. ASSUME NEW l, Commits(fd, l) PROVE FALSE
    <3>1. CASE AnswerFor(fd, l)
      BY <1>5, <3>1 DEF AnswerFor, Bystander
    <3>2. CASE ~AnswerFor(fd, l)
      <4>1. /\ fd = Ev.src
            /\ OnRead \/ ReadTooLarge \/ OnRequest \/ OnWrite \/ DrainEvent
        BY <2>1, <3>2
           DEF Commits, HandlerFor, OnReadFor, ReadTooLargeFor, OnRequestFor, OnWriteFor, DrainEventFor
      <4> QED BY <1>5, <4>1, AnswerAlone DEF Bystander
    <3> QED BY <3>1, <3>2
  <2>2. ~AskedAt(Node(fd), RequestOf(fd))
    BY <1>5, AnswerAlone DEF AskedAt, Node, Bystander
  <2> QED BY <1>3, <1>5, <2>1, <2>2 DEF Bystander, Kept
<1>6. ASSUME NEW l, HandledBy(fd, l) PROVE \E k \in Nat : Turn(fd, k)'
  <2>1. Open(fd)
    BY <1>6 DEF HandledBy, Handled
  <2> QED BY <1>2, <1>6, <2>1, TurnHandled
<1> QED BY <1>4, <1>5, <1>6, HandlerCases

LEMMA FailedGrows == ASSUME [Next]_vars PROVE failed \subseteq failed'
<1>1. CASE \E c \in Clients : ClientStep(c)
  BY <1>1 DEF ClientStep, Connect, Send, HangUp, Congest, Relieve, othersThanPeer, ghostVars
<1>2. CASE Tick \/ EpollWait \/ Accept \/ OnTimerTick
  BY <1>2 DEF Tick, EpollWait, Accept, OnTimerTick, ghostVars
<1>3. CASE Handler
  BY <1>3 DEF Handler, OnRead, ReadTooLarge, OnRequest, OnWrite, DrainEvent, Answer, ghostVars
<1>4. CASE Quiet
  <2>1. CASE TestRunning \/ OnConnect \/ AcceptEnds \/ UnknownFd \/ ReadMovedParser \/ ReadEventFd
    BY <2>1 DEF TestRunning, OnConnect, AcceptEnds, UnknownFd, ReadMovedParser, ReadEventFd,
       othersThanLoop, ghostVars
  <2>2. CASE Collect \/ Answered \/ DrainTasks \/ DrainQueue \/ DrainSpecial
    BY <2>2 DEF Collect, Answered, DrainTasks, DrainQueue, DrainSpecial, othersThanLoop, ghostVars
  <2>3. CASE WorkerStart \/ \E r \in Requests : WorkerStep(r)
    BY <2>3 DEF WorkerStart, WorkerStep, WorkerPush, WorkerSignal, WorkerThrows, WorkerSettle,
       othersThanTasks, ghostVars
  <2>4. CASE StopRunning \/ MainStep
    BY <2>4 DEF StopRunning, MainStep, StopResponseQueue, CloseDescriptors, StopPool, othersThanMain,
       ghostVars
  <2>5. CASE UNCHANGED vars
    BY <2>5 DEF vars, ghostVars
  <2> QED BY <1>4, <2>1, <2>2, <2>3, <2>4, <2>5 DEF Quiet
<1> QED BY <1>1, <1>2, <1>3, <1>4, NextCases

\* A connection ends together with its socket.
LEMMA EndsClosed ==
    ASSUME CoreInv, [Next]_vars, NEW fd \in Fds, Open(fd), ~Open(fd)'
    PROVE  peer'[sock[fd]].st = "closed"
<1> USE DEF CoreInv
<1>0. sock[fd] \in Clients /\ peer \in [Clients -> PeerType] /\ conns'[fd] # conns[fd]
  BY HereFacts DEF NetTypes, Open
<1>1. CASE (\E c \in Clients : ClientStep(c)) \/ Tick \/ EpollWait
  BY <1>0, <1>1 DEF ClientStep, Connect, Send, HangUp, Congest, Relieve, othersThanPeer, Tick,
     EpollWait, connVars
<1>2. CASE Accept
  <2>1. nextId + 1 \in Nat /\ NetTypes
    BY DEF ConnTypes
  <2>2. Fresh(nextId + 1) # NoConn
    BY <2>1, FreshFacts
  <2>3. UNCHANGED conns \/ \E g \in Fds : conns' = [conns EXCEPT ![g] = Fresh(nextId + 1)]
    BY <1>2 DEF Accept, FreeFds
  <2> QED BY <1>0, <2>2, <2>3 DEF Open, ConnTypes
<1>3. CASE OnTimerTick
  <2>1. fd \in Expired
    BY <1>0, <1>3 DEF OnTimerTick
  <2>2. peer'[sock[fd]] = [peer[sock[fd]] EXCEPT !.st = "closed"]
    BY <1>0, <1>3, <2>1 DEF OnTimerTick
  <2> QED BY <1>0, <2>2 DEF PeerType
<1>4. CASE Handler
  <2>1. ASSUME NEW g \in Fds, NEW l, Commits(g, l) PROVE peer'[sock[fd]].st = "closed"
    <3>1. g = fd
      BY <1>0, <2>1, CommitFacts
    <3>2. l.conn = NoConn
      BY <2>1, <3>1, CommitFacts DEF Open
    <3> QED BY <2>1, <3>1, <3>2, CommitFacts
  <2>2. ~UNCHANGED tableVars
    BY <1>0 DEF tableVars, connVars
  <2> QED BY <1>4, <2>1, <2>2, HandlerStep DEF Commits
<1>5. CASE Quiet
  BY <1>0, <1>5, QuietTable DEF tableVars, connVars
<1> QED BY <1>1, <1>2, <1>3, <1>4, <1>5, NextCases

LEMMA CommitLength ==
    ASSUME CoreInv, NEW fd \in Fds, NEW l, Commits(fd, l)
    PROVE  LET c == sock[fd]
           IN  /\ Len(answers[c]) \in Nat /\ Len(l.wrote) \in Nat
               /\ Len(answers'[c]) = Len(answers[c]) + Len(l.wrote)
<1>1. PICK c \in Clients : c = sock[fd]
  BY CommitFacts
<1>2. answers'[c] = answers[c] \o l.wrote /\ answers[c] \in Seq(PieceSet) /\ l.wrote \in Seq(PieceSet)
  BY <1>1, CommitFacts DEF Commits, Handled, Local, Locals, CoreInv, NetTypes
<1>3. PICK s \in Seq(PieceSet), w \in Seq(PieceSet) : s = answers[c] /\ w = l.wrote
  BY <1>2
<1>4. Len(s \o w) = Len(s) + Len(w) /\ Len(s) \in Nat /\ Len(w) \in Nat
  BY ConcatAt
<1>5. answers'[c] = s \o w
  BY <1>2, <1>3
<1> QED BY <1>1, <1>3, <1>4, <1>5

LEMMA ReceivedGrows ==
    ASSUME CoreInv, [Next]_vars, NEW c \in Clients
    PROVE  Received(c) \in Nat /\ Received(c)' \in Nat /\ Received(c) <= Received(c)'
<1>1. answers[c] \in Seq(PieceSet) /\ answers'[c] \in Seq(PieceSet)
  BY CoreStep DEF CoreInv, NetTypes
<1>2. Len(answers[c]) <= Len(answers'[c])
  <2>1. CASE Untouched(c) \/ Sends(c)
    BY <1>1, <2>1 DEF Untouched, Sends
  <2>2. ASSUME NEW fd \in Fds, NEW l, Commits(fd, l), sock[fd] = c
        PROVE  Len(answers[c]) <= Len(answers'[c])
    <3>1. PICK x \in Nat, y \in Nat : x = Len(answers[c]) /\ y = Len(l.wrote) /\ Len(answers'[c]) = x + y
      BY <2>2, CommitLength
    <3>2. x <= x + y
      OBVIOUS
    <3> QED BY <3>1, <3>2
  <2> QED BY <2>1, <2>2, ClientCases
<1>3. Len(answers[c]) \in Nat /\ Len(answers'[c]) \in Nat
  BY <1>1
<1> QED BY <1>2, <1>3, IoAssumption, DivGrows, DivFacts DEF Received

\* A handler that writes nothing leaves a moved parser moved.
LEMMA KeepsMoved ==
    ASSUME CoreInv, BusyInv, [Next]_vars, NEW fd \in Fds, NEW l, HandledBy(fd, l), Keeps(fd, l),
           conns[fd].moved, InFlight(fd)
    PROVE  conns'[fd].moved
<1> DEFINE c == conns[fd]
           d == conns'[fd]
<1>1. Open(fd) /\ d = l.conn /\ l.conn # NoConn
  BY DEF HandledBy, Handled
<1>2. c \in ConnType /\ peer[sock[fd]] \in PeerType /\ c.got = Frags /\ Frags \in Nat \ {0}
  BY <1>1, HereFacts, IoAssumption DEF CoreInv, BusyInv
<1>3. d.got = Frags
  <2>1. d.got = IF l.read THEN GotAfter(c, peer[sock[fd]]) ELSE c.got
    BY <1>1 DEF Keeps
  <2>2. PICK u \in Nat : u = peer[sock[fd]].unread
    BY <1>2 DEF PeerType
  <2>3. (IF Frags + u > Frags THEN Frags ELSE Frags + u) = Frags
    BY <1>2, <2>2
  <2> QED BY <1>2, <2>1, <2>2, <2>3 DEF GotAfter
<1> HIDE DEF c, d
<1>4. CASE ReadMore(fd) \/ Asked(fd)
  BY <1>4 DEF ReadMore, Asked
<1>5. CASE Resumed(fd)
  <2>1. d.moved = c.moved \/ d.got = 0
    BY <1>5 DEF Resumed, Pausing, Renewed, c, d
  <2> QED BY <1>2, <1>3, <2>1 DEF c, d
<1>6. CASE Ignored(fd)
  <2>1. d = [c EXCEPT !.caw = @ \/ Ev.rdhup]
    BY <1>6 DEF Ignored, c, d
  <2>2. d.moved = c.moved
    BY <1>2, <2>1 DEF ConnType
  <2> QED BY <2>2 DEF c, d
<1>7. CASE Answered1(fd)
  <2>1. d.moved = c.moved \/ d.got = 0
    BY <1>7, RepliedFacts DEF c, d
  <2> QED BY <1>2, <1>3, <2>1 DEF c, d
<1> QED BY <1>4, <1>5, <1>6, <1>7, OutcomeCases

\* What is owed stays owed until it has been received whole or the connection is
\* closed.
LEMMA OwedStep ==
    ASSUME CoreInv, PastInv, InHandInv, BusyInv, ShieldInv, ClientInv, TurnInv, [Next]_vars,
           NEW r \in Requests, NEW fd \in Fds, OwedAt(fd, r), r \notin failed'
    PROVE  r[2] <= Received(r[1])' \/ peer'[r[1]].st = "closed" \/ OwedAt(fd, r)'
<1> DEFINE d == conns'[fd]
<1>0. PICK c : c = sock[fd]
  OBVIOUS
<1>1. /\ Open(fd) /\ c = r[1] /\ conns[fd].moved
      /\ r \in TasksFor(fd) \cup RequestsOf(Node(fd)) \/ conns[fd].resp = r
  BY <1>0 DEF OwedAt
<1>2. CASE ~Open(fd)'
  BY <1>0, <1>1, <1>2, EndsClosed
<1>3. CASE Open(fd)'
  <2>1. sock'[fd] = c /\ d.id = conns[fd].id /\ Node(fd)' = Node(fd)
    BY <1>0, <1>1, <1>3, StaysRefused DEF Node
  <2>2. PICK k \in Nat : Turn(fd, k)
    BY <1>1 DEF TurnInv, RefusedHere
  <2>3. r = <<c, k + 1>> /\ r # NoReq
    BY <1>0, <1>1, <2>2, ModelValuesAssumption DEF Turn
  <2>4. AtMostOne(fd)
    BY <1>1 DEF BusyInv
  <2>5. PICK n : n = Node(fd)
    OBVIOUS
  <2>6. /\ n \in Nodes
        /\ TasksFor(fd) = TasksOf(n) /\ QueuedFor(fd) = QueuedOf(n) /\ TasksFor(fd)' = TasksOf(n)'
        /\ RequestsOf(Node(fd)) = RequestsOf(n) /\ RequestsOf(Node(fd))' = RequestsOf(n)'
    <3>1. n \in Nodes
      BY <1>1, <2>5 DEF Node, Nodes, CoreInv, ConnTypes, ConnType, Open
    <3>2. Node(fd)' = n
      BY <2>1, <2>5
    <3> QED BY <2>5, <3>1, <3>2, FlightOf DEF RequestsOf, QueuedOf
  <2>7. RequestsOf(n) # {} => QueuedFor(fd) # {}
    BY <2>6 DEF RequestsOf
  <2>8. InFlight(fd)
    BY <1>1, <2>3, <2>6, <2>7 DEF InFlight
  <2> HIDE DEF d
  <2>9. CASE conns'[fd] = conns[fd] /\ ~TakenAt(n, r)
    <3>1. \/ r \in TasksOf(n)' \cup RequestsOf(n)'
          \/ conns'[fd].resp = r
      BY <1>1, <2>6, <2>9, Provenance
    <3> QED BY <1>1, <1>3, <2>1, <2>6, <2>9, <3>1 DEF OwedAt
  <2>10. CASE ~Handler
    <3>1. ~TakenAt(n, r)
      BY <2>10 DEF TakenAt, Handler
    <3> QED BY <1>1, <1>3, <2>9, <2>10, <3>1, OtherCases DEF Kept, Silenced, NewConn
  <2>11. CASE Handler /\ Bystander(fd)
    <3>1. ~TakenAt(n, r)
      BY <1>1, <2>5, <2>11 DEF TakenAt, Bystander, Node, Belongs
    <3> QED BY <2>9, <2>11, <3>1 DEF Bystander, Kept
  <2>12. ASSUME NEW l, HandledBy(fd, l)
         PROVE  r[2] <= Received(r[1])' \/ OwedAt(fd, r)'
    <3>1. Commits(fd, l) /\ d = l.conn /\ l.conn # NoConn
      BY <2>12 DEF HandledBy, Commits, d
    <3>2. ASSUME d.moved, d.resp = r \/ (~TakenAt(n, r) /\ d.resp = conns[fd].resp) PROVE OwedAt(fd, r)'
      <4>1. r \in TasksOf(n)' \cup RequestsOf(n)' \/ d.resp = r
        BY <1>1, <2>6, <3>2, Provenance
      <4> QED BY <1>1, <1>3, <2>1, <2>6, <3>2, <4>1 DEF OwedAt, d
    <3>3. TakenAt(n, r) => conns[fd].resp = NoReq /\ Answered1(fd)
      <4> SUFFICES ASSUME TakenAt(n, r) PROVE conns[fd].resp = NoReq /\ Answered1(fd)
        OBVIOUS
      <4>1. Answer /\ Head(found).fd = fd /\ Head(found).id = conns[fd].id
        BY <2>5 DEF TakenAt, Node
      <4>2. Waiting[1] = Head(found) /\ Len(Waiting) >= 1 /\ Len(Waiting) \in Nat
        BY <4>1, AnswerFlight, WaitingFacts
      <4>3. 1 \in QueuedFor(fd)
        BY <4>1, <4>2 DEF QueuedFor, Waiting
      <4>4. conns[fd].resp = NoReq
        BY <2>4, <4>3 DEF AtMostOne
      <4>5. Answered1(fd)
        BY <2>12, <4>1, OutcomeCases, AnswerAlone DEF ReadMore, Asked, Resumed, Ignored
      <4> QED BY <4>4, <4>5
    <3>4. CASE Keeps(fd, l)
      <4>1. d.moved
        BY <1>1, <2>8, <2>12, <3>4, KeepsMoved DEF d
      <4>2. d.resp = conns[fd].resp
        BY <3>1, <3>4 DEF Keeps
      <4>3. ~TakenAt(n, r)
        <5>1. TakenAt(n, r) => d.resp = NoReq /\ (d.resp # NoReq \/ ~d.moved)
          BY <3>3, <4>2, RepliedFacts DEF d
        <5> QED BY <4>1, <5>1
      <4> QED BY <3>2, <4>1, <4>2, <4>3
    <3>5. ASSUME NEW a, NEW m, Writes(fd, l, a, m)
          PROVE  r[2] <= Received(r[1])' \/ OwedAt(fd, r)'
      <4>1. /\ From(fd, a) /\ m \in Nat /\ a.pos + m <= Pieces /\ l.wrote = Burst(a, m)
            /\ a \in ConnType /\ a.resp # NoReq /\ a.moved
        BY <1>1, <3>1, <3>5 DEF Writes, From
      <4>2. a.resp = r
        <5>1. ~(RefusedHere(fd) /\ Spoiled(sock[fd]))
          BY <1>1 DEF RefusedHere
        <5>2. a.resp = <<sock[fd], k + 1>>
          BY <1>1, <2>2, <4>1, <5>1, WriteInTurn
        <5> QED BY <1>0, <2>3, <5>2
      <4>3. CASE d.resp = a.resp /\ d.moved = a.moved
        BY <3>2, <4>1, <4>2, <4>3
      <4>4. CASE m = Pieces - a.pos
        <5>1. Len(answers[c]) = Pieces * k + a.pos
          <6>1. ~(RefusedHere(fd) /\ Spoiled(sock[fd]))
            BY <1>1 DEF RefusedHere
          <6>2. Len(answers[sock[fd]]) = Pieces * k + a.pos
            BY <1>1, <2>2, <4>1, <6>1, WriteInTurn
          <6> QED BY <1>0, <2>3, <6>2
        <5>2. l.wrote \in Seq(PieceSet) /\ Len(l.wrote) = m
          BY <4>1, BurstFacts
        <5>4. Len(answers'[c]) = Len(answers[c]) + Len(l.wrote)
          BY <1>0, <3>1, CommitLength
        <5>5. Len(answers'[c]) = Pieces * (k + 1) + 0
          BY <4>1, <4>4, <5>1, <5>2, <5>4, IoAssumption DEF ConnType
        <5>6. (Pieces * (k + 1) + 0) \div Pieces = k + 1
          BY IoAssumption, DivExact
        <5>7. Received(c)' = k + 1
          BY <5>5, <5>6 DEF Received
        <5> QED BY <1>1, <2>3, <5>7
      <4> QED BY <3>1, <3>5, <4>3, <4>4 DEF Writes
    <3> QED BY <3>1, <3>4, <3>5, Effects
  <2> QED BY <1>3, <2>10, <2>11, <2>12, HandlerCases
<1> QED BY <1>2, <1>3

\* A request the service did not have is accepted by on_read's dispatch, or not at all.
LEMMA AcceptedNow ==
    ASSUME CoreInv, [Next]_vars, NEW r \in Requests,
           status[r] \in {"new", "refused"}, status'[r] \notin {"new", "refused"}
    PROVE  OnRequest /\ r = RequestOf(Ev.src) /\ ~UNCHANGED taskVars
<1> USE DEF CoreInv
<1>0. status \in [Requests -> Pool!ServiceStatus] /\ status'[r] # status[r]
  BY DEF TaskTypes
<1>1. CASE OnRequest
  <2>1. PICK q \in Requests : q = RequestOf(Ev.src)
    BY <1>1, OnRequestCases DEF TablePart
  <2>2. UNCHANGED taskVars \/ Pool!Refuse(q) \/ Pool!Accept(q)
    BY <1>1, <2>1, OnRequestCases DEF TablePart
  <2>3. ~UNCHANGED taskVars
    BY <1>0 DEF taskVars, poolVars
  <2>4. ~Pool!Refuse(q)
    BY <1>0 DEF Pool!Refuse
  <2>5. r = q
    BY <1>0, <2>2, <2>3, <2>4 DEF Pool!Accept
  <2> QED BY <1>1, <2>1, <2>3, <2>5
<1>2. CASE WorkerStart
  <2> DEFINE h == Head(order)
  <2>1. status' = [status EXCEPT ![h] = "running"] /\ order # <<>>
    BY <1>2 DEF WorkerStart, Pool!Start
  <2>2. h = order[1] /\ 1 \in 1..Len(order)
    BY <2>1, HeadTailProperties DEF TaskTypes
  <2>3. status[h] \in {"pending", "late"}
    BY <2>2 DEF TaskInv
  <2> HIDE DEF h
  <2> QED BY <1>0, <2>1, <2>3
<1>3. ASSUME NEW q \in Requests, WorkerStep(q) PROVE FALSE
  <2>1. CASE WorkerPush(q)
    BY <1>0, <2>1 DEF WorkerPush, poolVars
  <2>2. CASE WorkerSignal(q) \/ WorkerThrows(q)
    BY <1>0, <2>2 DEF WorkerSignal, WorkerThrows, Pool!Finish
  <2>3. CASE WorkerSettle(q)
    BY <1>0, <2>3 DEF WorkerSettle, Pool!Settle
  <2> QED BY <1>3, <2>1, <2>2, <2>3 DEF WorkerStep
<1>4. CASE CloseDescriptors \/ StopPool
  BY <1>0, <1>4 DEF CloseDescriptors, StopPool, Pool!Close, Pool!GoDown
<1>5. CASE UNCHANGED taskVars
  BY <1>0, <1>5 DEF taskVars, poolVars
<1> QED BY <1>1, <1>2, <1>3, <1>4, <1>5, TaskCases DEF TaskStep

\* From then on it is owed.
LEMMA AcceptedOwed ==
    ASSUME CoreInv, [Next]_vars, NEW r \in Requests, OnRequest, r = RequestOf(Ev.src),
           status[r] \in {"new", "refused"}, status'[r] \notin {"new", "refused"}
    PROVE  peer'[r[1]].st = "closed" \/ \E fd \in Fds : OwedAt(fd, r)'
<1>1. PICK fd \in Fds : fd = Ev.src /\ Open(fd) /\ r = RequestOf(fd)
  BY OnRequestCases DEF CoreInv, TablePart
<1>2. sock[fd] = r[1]
  BY <1>1 DEF RequestOf
<1>3. CASE ~Open(fd)'
  BY <1>1, <1>2, <1>3, EndsClosed
<1>4. CASE Open(fd)'
  <2>1. ~UNCHANGED status
    OBVIOUS
  <2>2. Handler /\ ~Answer
    BY AnswerAlone DEF Handler
  <2>3. PICK l : HandledBy(fd, l)
    BY <1>1, <1>4, <2>2, HandlerCases DEF Bystander
  <2>4. ~OnRead /\ ~OnWrite /\ ~DrainEvent
    BY <2>1 DEF OnRead, OnWrite, DrainEvent, taskVars, poolVars
  <2>5. Asked(fd)
    BY <2>2, <2>3, <2>4, OutcomeCases DEF ReadMore, Resumed, Ignored, Answered1
  <2>6. conns'[fd].moved /\ conns'[fd].id = conns[fd].id
    BY <2>1, <2>5 DEF Asked, taskVars, poolVars
  <2>7. sock'[fd] = sock[fd]
    BY <2>3 DEF HandledBy
  <2>8. PICK n : n = Node(fd)
    OBVIOUS
  <2>9. Node(fd)' = n
    BY <2>6, <2>8 DEF Node
  <2>10. r \in TasksOf(n)'
    <3>1. ~Respond(fd, r)
      <4>1. CASE UNCHANGED taskVars
        BY <2>1, <4>1 DEF taskVars, poolVars
      <4>2. CASE Pool!Refuse(r)
        BY <4>2 DEF Pool!Refuse, CoreInv, TaskTypes
      <4>3. CASE Pool!Accept(r) /\ UNCHANGED respq
        <5>1. respq \in Seq(Items)
          BY DEF CoreInv, LoopTypes
        <5>2. PICK x : x = [fd |-> fd, id |-> conns[fd].id, req |-> r]
          OBVIOUS
        <5>3. respq # Append(respq, x)
          BY <5>1
        <5> QED BY <4>3, <5>2, <5>3 DEF Respond
      <4> QED BY <1>1, <4>1, <4>2, <4>3, OnRequestCases DEF CoreInv, TablePart
    <3> QED BY <1>1, <2>8, <3>1, OnRequestFlight
  <2>11. r \in TasksFor(fd)'
    BY <2>9, <2>10, FlightOf
  <2>12. OwedAt(fd, r)'
    BY <1>2, <1>4, <2>6, <2>7, <2>11 DEF OwedAt
  <2> QED BY <2>12
<1> QED BY <1>3, <1>4

LEMMA DeliveryStep ==
    ASSUME CoreInv, PastInv, InHandInv, BusyInv, ShieldInv, ClientInv, TurnInv, DeliveryInv, [Next]_vars
    PROVE  DeliveryInv'
<1> SUFFICES ASSUME NEW r \in Requests, status'[r] \notin {"new", "refused"}, r \notin failed'
             PROVE  r[2] <= Received(r[1])' \/ peer'[r[1]].st = "closed" \/ \E fd \in Fds : OwedAt(fd, r)'
  BY DEF DeliveryInv
<1>1. r[1] \in Clients /\ r[2] \in Nat
  BY IoAssumption DEF Requests
<1>2. CASE status[r] \in {"new", "refused"}
  BY <1>2, AcceptedNow, AcceptedOwed
<1>3. CASE status[r] \notin {"new", "refused"}
  <2>1. r \notin failed
    BY FailedGrows
  <2>2. CASE r[2] <= Received(r[1])
    <3>1. PICK x \in Nat, y \in Nat, z \in Nat : x = r[2] /\ y = Received(r[1]) /\ z = Received(r[1])'
      BY <1>1, ReceivedGrows
    <3>2. x <= y /\ y <= z
      BY <1>1, <2>2, <3>1, ReceivedGrows
    <3>3. x <= z
      BY <3>2
    <3> QED BY <3>1, <3>3
  <2>3. CASE peer[r[1]].st = "closed"
    BY <1>1, <2>3, ClientCases DEF Onwards
  <2>4. ASSUME NEW fd \in Fds, OwedAt(fd, r)
        PROVE  r[2] <= Received(r[1])' \/ peer'[r[1]].st = "closed" \/ \E g \in Fds : OwedAt(g, r)'
    BY <2>4, OwedStep
  <2> QED BY <1>3, <2>1, <2>2, <2>3, <2>4 DEF DeliveryInv
<1> QED BY <1>2, <1>3

AnswerInv == ClientInv /\ TurnInv /\ WholeInv /\ DeliveryInv

LEMMA AnswerInit == ASSUME Init PROVE AnswerInv
<1>1. ASSUME NEW c \in Clients
      PROVE  answers[c] = <<>> /\ peer[c].unread = 0 /\ peer[c].sent = 0 /\ peer[c].room = Pieces
  BY DEF Init
<1>2. \A fd \in Fds : ~Open(fd) /\ sock[fd] = NoClient
  BY DEF Init, Open
<1>3. ClientInv
  BY <1>1, <1>2, IoAssumption, ModelValuesAssumption DEF ClientInv
<1>4. WholeInv
  BY <1>1, IoAssumption DEF WholeInv
<1>5. \A r \in Requests : status[r] = "new"
  BY DEF Init, Pool!ServiceInit
<1> QED BY <1>2, <1>3, <1>4, <1>5 DEF AnswerInv, TurnInv, DeliveryInv
-----------------------------------------------------------------------------
(* Theorems *)

LifeInv ==
    /\ PastInv /\ BusyInv /\ BatchInv /\ ShieldInv /\ CrashInv
    /\ ExemptionEnds /\ NeverDeaf

LEMMA LifeInit == ASSUME Init PROVE LifeInv
<1>1. /\ found = <<>> /\ respq = <<>> /\ batch = <<>> /\ failed = {} /\ io = "test"
      /\ \A c \in Clients : peer[c].rst = FALSE
      /\ \A fd \in Fds : ~Open(fd)
  BY DEF Init, Open
<1>2. Len(Waiting) = 0
  BY <1>1, CoreInit, WaitingFacts DEF Waiting
<1>3. PastInv
  BY <1>1, <1>2 DEF PastInv, Waiting
<1>4. BatchInv
  BY <1>1 DEF BatchInv
<1> QED BY <1>1, <1>3, <1>4 DEF LifeInv, BusyInv, ShieldInv, CrashInv, ExemptionEnds, NeverDeaf

\* The inductive invariant on the life of a connection.
THEOREM LifeInvariant == Safety => [](CoreInv /\ ControlInv /\ LifeInv)
<1>1. Init => LifeInv
  BY LifeInit
<1>2. CoreInv /\ ControlInv /\ LifeInv /\ [Next]_vars => LifeInv'
  BY PastStep, BusyStep, BatchStep, ShieldStep, CrashStep, ExemptionStep, DeafStep
     DEF LifeInv, ControlInv
<1>3. CoreInv /\ [Next]_vars => CoreInv'
  BY CoreStep
<1> QED BY <1>1, <1>2, <1>3, ControlInvariant, PTL DEF Safety

\* The exemption from the read timeout ends with the work it is for: a connection
\* marked as processing has a task or a response on its way, or its task threw.
THEOREM ExemptionHasReason == Safety => []ExemptionEnds
<1>1. LifeInv => ExemptionEnds
  BY DEF LifeInv
<1> QED BY <1>1, LifeInvariant, PTL

\* Whatever disarms a socket, something is left that will arm it again or close
\* it, but for the two cases NeverDeaf names.
THEOREM SocketsRearmed == Safety => []NeverDeaf
<1>1. LifeInv => NeverDeaf
  BY DEF LifeInv
<1> QED BY <1>1, LifeInvariant, PTL

\* EPOLLONESHOT keeps a connection to one request at a time, and only one that was
\* handed an event of its descriptor's former owner can read into a moved parser.
THEOREM OneRequestAtATime == Safety => []OneShotShield
<1>1. CoreInv /\ LifeInv => OneShotShield
  <2> SUFFICES ASSUME CoreInv, LifeInv PROVE OneShotShield
    OBVIOUS
  <2>1. io = "crashed" => sock[Ev.src] \in inherited
    BY DEF LifeInv, CrashInv
  <2>2. ASSUME NEW fd \in Fds, Open(fd), sock[fd] \notin inherited
        PROVE  /\ conns[fd].moved => reg[fd] # "in"
               /\ Cardinality(TasksFor(fd)) + Cardinality(QueuedFor(fd))
                      + (IF conns[fd].resp = NoReq THEN 0 ELSE 1) <= 1
    <3>1. AtMostOne(fd) /\ (reg[fd] = "in" => Idle(fd))
      BY <2>2 DEF LifeInv, ShieldInv
    <3>2. ASSUME NEW S, \A x, y \in S : x = y PROVE Cardinality(S) = IF S = {} THEN 0 ELSE 1
      <4>1. CASE S = {}
        BY <4>1, FS_EmptySet
      <4>2. CASE S # {}
        <5>1. PICK x : x \in S
          BY <4>2
        <5>2. S = {x}
          BY <3>2, <5>1
        <5> QED BY <4>2, <5>2, FS_Singleton
      <4> QED BY <4>1, <4>2
    <3>3. /\ Cardinality(TasksFor(fd)) = IF TasksFor(fd) = {} THEN 0 ELSE 1
          /\ Cardinality(QueuedFor(fd)) = IF QueuedFor(fd) = {} THEN 0 ELSE 1
      BY <3>1, <3>2 DEF AtMostOne
    <3> QED BY <3>1, <3>3 DEF AtMostOne, Idle
  <2> QED BY <2>1, <2>2 DEF OneShotShield
<1> QED BY <1>1, LifeInvariant, PTL

\* A tick never closes a connection whose handler is executing or waiting for a
\* worker, however long that takes.
THEOREM ExecutingNeverClosed == Safety => ExecutingKept
<1>1. LifeInv /\ [Next]_vars =>
          [OnTimerTick => \A fd \in Fds : Open(fd) /\ TasksFor(fd) # {} => conns'[fd] = conns[fd]]_vars
  <2> SUFFICES ASSUME LifeInv, OnTimerTick, NEW fd \in Fds, Open(fd), TasksFor(fd) # {}
               PROVE  conns'[fd] = conns[fd]
    OBVIOUS
  <2>1. conns[fd].proc
    BY DEF LifeInv, BusyInv
  <2>2. fd \notin Expired
    BY <2>1 DEF Expired
  <2> QED BY <2>2 DEF OnTimerTick
<1> QED BY <1>1, LifeInvariant, PTL DEF Safety, ExecutingKept

\* The inductive invariant on the timeout list.
THEOREM ListInvariant == Safety => [](CoreInv /\ ListInv)
<1>1. Init => ListInv
  BY DEF Init, ListInv
<1>2. CoreInv /\ ListInv /\ [Next]_vars => ListInv'
  BY ListStep
<1>3. CoreInv /\ [Next]_vars => CoreInv'
  BY CoreStep
<1> QED BY <1>1, <1>2, <1>3, CoreInvariant, PTL DEF Safety

\* m_timeout_list holds each connection once, least recently active first.
THEOREM TimeoutListCorrect == Safety => []TimeoutListExact
<1>1. CoreInv /\ ListInv => TimeoutListExact
  BY DEF CoreInv, ListedInv, ListInv, TimeoutListExact
<1> QED BY <1>1, ListInvariant, PTL

\* The order of the list is why check_timeouts may stop at the first connection
\* in time: every tick closes all that have been idle for too long.
THEOREM TimeoutsReaped == Safety => IdleReaped
<1>1. CoreInv /\ ListInv /\ [Next]_vars =>
          [OnTimerTick /\ (\A i \in 1..Len(timeouts) : Current(i)) =>
               \A fd \in Fds : conns'[fd] # NoConn =>
                   conns'[fd].proc \/ now - conns'[fd].last <= ReadTimeout]_vars
  <2> SUFFICES ASSUME CoreInv, ListInv, OnTimerTick, \A i \in 1..Len(timeouts) : Current(i),
                      NEW fd \in Fds, conns'[fd] # NoConn, ~conns'[fd].proc
               PROVE  now - conns'[fd].last <= ReadTimeout
    OBVIOUS
  <2>1. fd \notin Expired /\ conns'[fd] = conns[fd] /\ Open(fd) /\ ~conns[fd].proc
    BY DEF OnTimerTick, Open
  <2>2. PICK i \in 1..Len(timeouts) : timeouts[i] = Node(fd)
    BY <2>1 DEF CoreInv, ListedInv
  <2>3. timeouts[i].fd = fd /\ i \notin Walked
    BY <2>1, <2>2 DEF Expired, Node
  <2>4. PICK j \in 1..i : InTime(timeouts[j])
    BY <2>2, <2>3 DEF Walked
  <2>5. j \in 1..Len(timeouts) /\ (j < i \/ j = i)
    BY <2>2, <2>4 DEF CoreInv, ConnTypes
  <2>6. Open(timeouts[j].fd) /\ now - conns[timeouts[j].fd].last <= ReadTimeout
    BY <2>4 DEF InTime
  <2>7. conns[timeouts[j].fd].last \in Nat /\ conns[fd].last \in Nat /\ now \in Nat
    <3>1. timeouts[j] \in Nodes
      BY <2>5, ElementOfSeq DEF CoreInv, ConnTypes
    <3>2. timeouts[j].fd \in Fds
      BY <3>1 DEF Nodes
    <3>3. \A f \in Fds : Open(f) => conns[f] \in ConnType
      BY DEF CoreInv, ConnTypes, Open
    <3>4. \A x \in ConnType : x.last \in Nat
      BY DEF ConnType
    <3> QED BY <2>1, <2>6, <3>2, <3>3, <3>4, IoAssumption DEF CoreInv, NetTypes
  <2>8. conns[timeouts[j].fd].last <= conns[fd].last
    BY <2>2, <2>3, <2>5, <2>7 DEF ListInv
  <2>9. now - conns[fd].last <= ReadTimeout
    <3> DEFINE a == conns[timeouts[j].fd].last
               b == conns[fd].last
    <3>1. a \in Nat /\ b \in Nat /\ now \in Nat /\ ReadTimeout \in Nat
      BY <2>7, IoAssumption
    <3>2. now - a <= ReadTimeout /\ a <= b
      BY <2>6, <2>8
    <3> HIDE DEF a, b
    <3>3. now - b <= ReadTimeout
      BY <3>1, <3>2
    <3> QED BY <3>3 DEF b
  <2> QED BY <2>1, <2>9
<1> QED BY <1>1, ListInvariant, PTL DEF Safety, IdleReaped

\* The inductive invariant on what a client has received: whatever a connection
\* has in flight is its next response, and what it was owed it has had.
THEOREM AnswerInvariant == Safety => [](CoreInv /\ ControlInv /\ LifeInv /\ AnswerInv)
<1>1. Init => AnswerInv
  BY AnswerInit
<1>2. CoreInv /\ ControlInv /\ LifeInv /\ AnswerInv /\ [Next]_vars => AnswerInv'
  BY ClientStepInv, TurnStep, WholeStep, DeliveryStep DEF LifeInv, ControlInv, AnswerInv
<1> QED BY <1>1, <1>2, LifeInvariant, PTL DEF Safety

\* What a client receives is the response to what it asked first, then the
\* response to what it asked next, each once and whole: never bytes of another
\* connection's response, and never one response inside another.
THEOREM ResponsesInOrder == Safety => []AnswersInOrder
<1>1. AnswerInv => AnswersInOrder
  BY DEF AnswerInv, WholeInv, Spoiled, PieceAt, AnswersInOrder
<1> QED BY <1>1, AnswerInvariant, PTL
-----------------------------------------------------------------------------
(* What the refinement needs besides: whom the worker may leave. *)

\* The pool accepted r, and its task has not thrown.
TookOn(r) == status[r] \notin {"new", "refused"} /\ r \notin failed

\* A hangup is reported of a client that has reset its connection.
HupInv == \A i \in 1..Len(batch) : batch[i].src \in Fds /\ batch[i].hup => peer[batch[i].of].rst

\* Until the response to an accepted request is taken from the queue, the timer
\* spares the connection.
ProcInv ==
    \A fd \in Fds : Open(fd) /\ sock[fd] \notin inherited =>
        \A r \in RequestsOf(Node(fd)) : TookOn(r) => conns[fd].proc

\* A client is left with an accepted request unanswered only if it has reset the
\* connection, is slow, or was handed an event of its descriptor's former owner.
ClosedInv ==
    \A r \in Requests : TookOn(r) /\ peer[r[1]].st = "closed" =>
        \/ r[2] <= Received(r[1])
        \/ peer[r[1]].rst \/ r[1] \in SlowClients \cup inherited

\* An open client has a descriptor.
PlaceInv == \A c \in Clients : peer[c].st = "open" => \E fd \in Fds : sock[fd] = c

ServeInv == HupInv /\ ProcInv /\ ClosedInv /\ PlaceInv

\* What a handler's step leaves, by name.
LEMMA CommitView ==
    ASSUME CoreInv, NEW fd \in Fds, NEW l, Commits(fd, l), NEW c \in Clients
    PROVE  /\ peer'[c].sent = peer[c].sent /\ peer'[c].rst = peer[c].rst
           /\ peer'[c].st = IF c = sock[fd] /\ l.conn = NoConn THEN "closed" ELSE peer[c].st
           /\ sock[fd] \in Clients /\ peer[sock[fd]].st = "open"
           /\ c # sock[fd] => answers'[c] = answers[c]
<1>1. /\ sock[fd] \in Clients /\ peer[sock[fd]].st = "open" /\ peer[sock[fd]] \in PeerType
      /\ peer \in [Clients -> PeerType]
  BY HereFacts DEF Commits, Handled, CoreInv, TableInv, NetTypes
<1>2. peer' = [peer EXCEPT ![sock[fd]] = PeerAfter(fd, l)]
  BY CommitPeer DEF Commits, CoreInv
<1>3. /\ PeerAfter(fd, l).sent = peer[sock[fd]].sent /\ PeerAfter(fd, l).rst = peer[sock[fd]].rst
      /\ PeerAfter(fd, l).st = IF l.conn = NoConn THEN "closed" ELSE peer[sock[fd]].st
  BY <1>1 DEF PeerAfter, PeerType
<1>4. c # sock[fd] => answers'[c] = answers[c]
  BY <1>1 DEF Commits, Commit, CoreInv, NetTypes
<1> QED BY <1>1, <1>2, <1>3, <1>4

\* The steps that change what a client is to the worker: it is accepted, its
\* connection expires, or a handler closes it.
Greeted(c) == Accept /\ backlog # <<>> /\ c = Head(backlog) /\ peer[c].st = "backlog"
Reaped(c) == OnTimerTick /\ peer'[c].st = "closed" /\ \E fd \in Expired : sock[fd] = c
Dropped(c) == \E fd \in Fds : \E l : Commits(fd, l) /\ sock[fd] = c /\ l.conn = NoConn

LEMMA LinkCases ==
    ASSUME CoreInv, [Next]_vars, NEW c \in Clients
    PROVE  /\ peer[c].rst => peer'[c].rst
           /\ peer'[c].st = peer[c].st \/ peer'[c].st = "backlog"
                  \/ Greeted(c) \/ Reaped(c) \/ Dropped(c)
<1>0. peer \in [Clients -> PeerType] /\ peer[c] \in PeerType
  BY DEF CoreInv, NetTypes
<1>1. ASSUME NEW x \in Clients, ClientStep(x)
      PROVE  (peer[c].rst => peer'[c].rst) /\ (peer'[c].st = peer[c].st \/ peer'[c].st = "backlog")
  <2>1. CASE Connect(x)
    BY <1>0, <2>1 DEF Connect, PeerType
  <2>2. CASE Send(x)
    <3>1. peer'[c] = peer[c] \/ \E a, b : peer'[c] = [peer[c] EXCEPT !.sent = a, !.unread = b]
      BY <1>0, <2>2 DEF Send
    <3> QED BY <1>0, <3>1 DEF PeerType
  <2>3. CASE HangUp(x)
    <3>1. \/ peer'[c] = peer[c] \/ peer'[c] = [peer[c] EXCEPT !.fin = TRUE]
          \/ peer'[c] = [peer[c] EXCEPT !.fin = TRUE, !.rst = TRUE]
      BY <1>0, <2>3 DEF HangUp
    <3> QED BY <1>0, <3>1 DEF PeerType
  <2>4. CASE Congest(x) \/ Relieve(x)
    <3>1. ASSUME NEW n, peer' = [peer EXCEPT ![x].room = n]
          PROVE  peer'[c].st = peer[c].st /\ peer'[c].rst = peer[c].rst
      BY <1>0, <3>1 DEF PeerType
    <3>2. \E n : peer' = [peer EXCEPT ![x].room = n]
      BY <2>4 DEF Congest, Relieve
    <3> QED BY <3>1, <3>2
  <2> QED BY <1>1, <2>1, <2>2, <2>3, <2>4 DEF ClientStep
<1>2. CASE Tick \/ EpollWait
  BY <1>2 DEF Tick, EpollWait, netVars
<1>3. CASE Accept
  <2>1. /\ backlog # <<>>
        /\ \/ peer' = [peer EXCEPT ![Head(backlog)].st = "open"]
           \/ peer' = [peer EXCEPT ![Head(backlog)].st = "closed"]
    BY <1>3 DEF Accept
  <2>2. peer[Head(backlog)].st = "backlog"
    <3>1. Len(backlog) >= 1 /\ Len(backlog) \in Nat /\ Head(backlog) = backlog[1]
      BY <2>1, HeadTailProperties DEF CoreInv, NetTypes
    <3> QED BY <3>1 DEF CoreInv, BacklogInv
  <2>3. IF c = Head(backlog)
          THEN \E x : peer'[c] = [peer[c] EXCEPT !.st = x]
          ELSE peer'[c] = peer[c]
    BY <1>0, <2>1
  <2>4. (peer[c].rst => peer'[c].rst) /\ (c # Head(backlog) => peer'[c].st = peer[c].st)
    BY <1>0, <2>3 DEF PeerType
  <2> QED BY <1>3, <2>1, <2>2, <2>4 DEF Greeted
<1>4. CASE OnTimerTick
  <2>1. IF \E fd \in Expired : sock[fd] = c
          THEN peer'[c] = [peer[c] EXCEPT !.st = "closed"] ELSE peer'[c] = peer[c]
    BY <1>4 DEF OnTimerTick
  <2> QED BY <1>0, <1>4, <2>1 DEF PeerType, Reaped
<1>5. CASE Handler
  <2>1. ASSUME NEW fd \in Fds, NEW l, Commits(fd, l)
        PROVE  (peer[c].rst => peer'[c].rst) /\ (peer'[c].st = peer[c].st \/ Dropped(c))
    BY <2>1, CommitView DEF Dropped
  <2>2. CASE UNCHANGED tableVars
    BY <2>2 DEF tableVars, netVars
  <2> QED BY <1>5, <2>1, <2>2, HandlerStep DEF Commits
<1>6. CASE Quiet
  BY <1>6, QuietTable DEF tableVars, netVars
<1> QED BY <1>1, <1>2, <1>3, <1>4, <1>5, <1>6, NextCases

LEMMA PlaceStep == ASSUME CoreInv, PlaceInv, [Next]_vars PROVE PlaceInv'
<1> SUFFICES ASSUME NEW c \in Clients, peer'[c].st = "open" PROVE \E fd \in Fds : sock'[fd] = c
  BY DEF PlaceInv
<1>1. CASE peer[c].st = "open"
  <2>1. PICK fd \in Fds : sock[fd] = c
    BY <1>1 DEF PlaceInv
  <2>2. Open(fd)
    BY <2>1, ModelValuesAssumption DEF CoreInv, TableInv
  <2>3. Open(fd)'
    BY <2>1, <2>2, EndsClosed
  <2>4. sock'[fd] = sock[fd]
    BY <2>2, <2>3, OtherCases, SameSock DEF Kept, Silenced, NewConn
  <2> QED BY <2>1, <2>4
<1>2. CASE peer[c].st # "open"
  <2>1. Greeted(c)
    <3>1. ~Reaped(c)
      BY DEF Reaped
    <3>2. ~Dropped(c)
      BY CommitView DEF Dropped
    <3> QED BY <1>2, <3>1, <3>2, LinkCases
  <2>2. peer \in [Clients -> PeerType] /\ sock \in [Fds -> Clients \cup {NoClient}]
    BY DEF CoreInv, NetTypes
  <2>3. \/ \E fd \in FreeFds : sock' = [sock EXCEPT ![fd] = c]
        \/ peer' = [peer EXCEPT ![c].st = "closed"]
    BY <2>1 DEF Greeted, Accept
  <2>4. peer' # [peer EXCEPT ![c].st = "closed"]
    BY <2>2 DEF PeerType
  <2> QED BY <2>2, <2>3, <2>4 DEF FreeFds
<1> QED BY <1>1, <1>2

LEMMA HupStep == ASSUME CoreInv, InHandInv, BatchInv, HupInv, [Next]_vars PROVE HupInv'
<1> DEFINE Hup(e) == e.src \in Fds /\ e.hup => peer[e.of].rst
           Hup2(e) == e.src \in Fds /\ e.hup => peer'[e.of].rst
<1>1. TablePart /\ batch \in Seq(Events) /\ Len(batch) \in Nat
  BY DEF TablePart, CoreInv, LoopTypes
<1>2. ASSUME NEW e \in Events, Hup(e) PROVE Hup2(e)
  <2> SUFFICES ASSUME e.src \in Fds, e.hup PROVE peer'[e.of].rst
    OBVIOUS
  <2>1. e \in FdEvents
    BY ModelValuesAssumption DEF Events
  <2>2. e.of \in Clients
    BY <2>1 DEF FdEvents
  <2>3. peer[e.of].rst
    BY <1>2
  <2> QED BY <2>2, <2>3, LinkCases
<1>3. \A i \in 1..Len(batch) : batch[i] \in Events /\ Hup(batch[i])
  BY <1>1 DEF HupInv
<1>4. \A i \in 1..Len(batch') : Hup2(batch'[i])
  <2>1. CASE batch' = batch
    BY <1>2, <1>3, <2>1
  <2>2. CASE batch # <<>> /\ batch' = Tail(batch)
    <3>1. \A i \in 1..Len(batch') : i + 1 \in 1..Len(batch) /\ batch'[i] = batch[i + 1]
      BY <1>1, <2>2, HeadTailProperties
    <3> HIDE DEF Hup, Hup2
    <3> QED BY <1>2, <1>3, <3>1
  <2>3. CASE EpollWait
    <3>1. PICK b \in Orders(ReadyEvents) : AfterEvent(b)
      BY <2>3 DEF EpollWait
    <3>2. batch' = b /\ \A i \in 1..Len(b) : b[i] \in ReadyEvents
      BY <1>1, <3>1, OrdersFacts DEF AfterEvent
    <3>3. ASSUME NEW e \in ReadyEvents PROVE e \in Events /\ Hup(e)
      <4>1. e \in Events
        BY <1>1, ReadyFacts
      <4>2. CASE e.src \in Fds
        <5>1. PICK fd \in Fds : fd = e.src /\ e = FdEvent(fd)
          BY <1>1, <4>2, ReadyOf
        <5>2. e.of = sock[fd] /\ e.hup = peer[sock[fd]].rst
          BY <5>1 DEF FdEvent
        <5> QED BY <4>1, <5>2
      <4> QED BY <4>1, <4>2
    <3> HIDE DEF Hup, Hup2
    <3> QED BY <1>2, <3>2, <3>3
  <2> QED BY <2>1, <2>2, <2>3, BatchCases DEF Spent
<1> QED BY <1>4 DEF HupInv

\* What the I/O thread has to itself is not being processed.
LEMMA IdleEmpty ==
    ASSUME CoreInv, BusyInv, NEW fd \in Fds, Open(fd), Idle(fd)
    PROVE  TasksFor(fd) = {} /\ QueuedFor(fd) = {} /\ RequestsOf(Node(fd)) = {} /\ conns[fd].resp = NoReq
<1>1. ~InFlight(fd)
  BY IoAssumption, HereFacts DEF BusyInv, Idle, CoreInv, ConnType
<1>2. QueuedOf(Node(fd)) = {}
  BY <1>1, FlightOf DEF InFlight
<1> QED BY <1>1, <1>2 DEF InFlight, RequestsOf

LEMMA NewlyAsked ==
    ASSUME CoreInv, [Next]_vars, NEW fd \in Fds, Open(fd), NEW k \in Nat, NEW x \in Requests,
           x = <<sock[fd], k + 1>>, status[x] \in {"new", "refused"}, status'[x] \notin {"new", "refused"}
    PROVE  OnRequest /\ Ev.src = fd
<1>1. OnRequest /\ x = RequestOf(Ev.src)
  BY AcceptedNow
<1>2. Ev.src \in Fds /\ Open(Ev.src)
  BY <1>1 DEF OnRequest
<1>3. sock[Ev.src] = sock[fd]
  BY <1>1 DEF RequestOf
<1> QED BY <1>1, <1>2, <1>3 DEF CoreInv, TableInv

LEMMA RequestsTyped == ASSUME CoreInv, [Next]_vars, NEW n PROVE RequestsOf(n)' \subseteq Requests
<1>1. found' \in Seq(Items) /\ respq' \in Seq(Items)
  BY CoreStep DEF CoreInv, LoopTypes
<1>2. PICK w \in Seq(Items) : w = found' \o respq'
  <2>1. PICK a \in Seq(Items), b \in Seq(Items) : a = found' /\ b = respq'
    BY <1>1
  <2>2. a \o b \in Seq(Items)
    BY ConcatProperties
  <2> QED BY <2>1, <2>2
<1>3. \A i \in 1..Len(w) : w[i] \in Items
  OBVIOUS
<1>4. \A e \in Items : e.req \in Requests
  BY DEF Items
<1>5. Waiting' = w
  BY <1>2 DEF Waiting
<1> QED BY <1>3, <1>4, <1>5 DEF RequestsOf, QueuedOf

LEMMA ProcStep ==
    ASSUME CoreInv, PastInv, InHandInv, BusyInv, BatchInv, ShieldInv, TurnInv, DeliveryInv, ProcInv,
           [Next]_vars
    PROVE  ProcInv'
<1> SUFFICES ASSUME NEW fd \in Fds, Open(fd)', sock'[fd] \notin inherited',
                    NEW x \in RequestsOf(Node(fd))', TookOn(x)', ~conns'[fd].proc
             PROVE  FALSE
  BY DEF ProcInv
<1>0. x \in Requests
  BY RequestsTyped
<1>1. QueuedFor(fd)' # {}
  BY FlightOf DEF RequestsOf
<1>2. x \notin failed
  BY FailedGrows DEF TookOn
<1>3. ASSUME Open(fd), sock'[fd] = sock[fd], Node(fd)' = Node(fd)
      PROVE  /\ sock[fd] \notin inherited /\ AtMostOne(fd)
             /\ x \in TasksFor(fd) \cup RequestsOf(Node(fd)) \/ AskedAt(Node(fd), x)
             /\ \E k \in Nat : Turn(fd, k) /\ x = <<sock[fd], k + 1>>
  <2>1. sock[fd] \notin inherited /\ AtMostOne(fd)
    BY <1>3, ShieldBefore
  <2>2. x \in TasksFor(fd) \cup RequestsOf(Node(fd)) \/ AskedAt(Node(fd), x)
    BY <1>3, InFlightBefore
  <2>3. PICK k \in Nat : Turn(fd, k)
    BY <1>3, <2>1 DEF TurnInv, Spoiled
  <2>4. AskedAt(Node(fd), x) => x = <<sock[fd], k + 1>>
    BY <1>3, <2>3, AskedInTurn
  <2>5. x \in TasksFor(fd) \cup RequestsOf(Node(fd)) => x = <<sock[fd], k + 1>>
    BY <2>3 DEF Turn
  <2> QED BY <2>1, <2>2, <2>3, <2>4, <2>5
<1>4. CASE Born(fd)
  BY <1>1, <1>4 DEF Born
<1>5. CASE (Kept(fd) \/ Silenced(fd)) /\ Apart(fd)
  <2>1. Open(fd) /\ sock'[fd] = sock[fd] /\ conns'[fd] = conns[fd] /\ Node(fd)' = Node(fd)
    BY <1>5 DEF Kept, Silenced, Node
  <2>2. PICK k \in Nat : Turn(fd, k) /\ x = <<sock[fd], k + 1>>
    BY <1>3, <2>1
  <2>3. ~(OnRequest /\ Ev.src = fd)
    BY <1>5, AnswerAlone DEF Apart, Handler
  <2>4. ~AskedAt(Node(fd), x)
    BY <2>3 DEF AskedAt, Node
  <2>5. TookOn(x)
    BY <1>0, <1>2, <2>1, <2>2, <2>3, NewlyAsked DEF TookOn
  <2>6. x \notin TasksFor(fd)
    BY <2>1 DEF BusyInv
  <2>7. x \notin RequestsOf(Node(fd))
    BY <1>3, <2>1, <2>5 DEF ProcInv
  <2> QED BY <1>3, <2>1, <2>4, <2>6, <2>7
<1>6. CASE Served(fd)
  <2>1. Open(fd) /\ (Ev.in => Idle(fd)) /\ (~Ev.in => conns[fd].resp # NoReq) /\ sock'[fd] = sock[fd]
    BY <1>6, ServedFacts
  <2>2. AtMostOne(fd)
    BY <2>1, ShieldBefore
  <2>3. QueuedFor(fd) = {}
    BY <2>1, <2>2, IdleEmpty DEF AtMostOne
  <2> QED BY <1>1, <1>6, <2>3 DEF Served, Still
<1>7. CASE Queried(fd)
  <2>1. Open(fd) /\ (Ev.in => Idle(fd)) /\ sock'[fd] = sock[fd]
    BY <1>7, ServedFacts
  <2>2. Asked(fd) /\ Ev.in /\ fd = Ev.src /\ OnRequest
    BY <1>7 DEF Queried, Asked
  <2>3. TasksFor(fd) = {} /\ RequestsOf(Node(fd)) = {} /\ conns[fd].resp = NoReq /\ ~conns[fd].moved
    BY <2>1, <2>2, IdleEmpty DEF Idle
  <2>4. Node(fd)' = Node(fd)
    BY <2>1, <2>2, SameNode
  <2>5. x = RequestOf(fd)
    BY <1>3, <2>1, <2>2, <2>3, <2>4 DEF AskedAt
  <2>6. PICK k \in Nat : Turn(fd, k) /\ x = <<sock[fd], k + 1>>
    BY <1>3, <2>1, <2>4
  <2>7. CASE UNCHANGED taskVars
    <3>1. status[x] \notin {"new", "refused"}
      BY <2>7 DEF TookOn, taskVars, poolVars
    <3>2. ~(x[2] <= Received(x[1]))
      <4>1. Len(answers[sock[fd]]) = Pieces * k + 0
        BY <2>3, <2>6 DEF Turn
      <4>2. Received(sock[fd]) = k
        BY <4>1, IoAssumption, DivExact DEF Received
      <4> QED BY <2>6, <4>2
    <3>3. peer[x[1]].st = "open"
      BY <2>1, <2>6 DEF CoreInv, TableInv
    <3>4. ASSUME NEW g \in Fds, OwedAt(g, x) PROVE FALSE
      <4>1. g = fd
        BY <2>1, <2>6, <3>4 DEF OwedAt, CoreInv, TableInv
      <4> QED BY <2>3, <3>4, <4>1 DEF OwedAt
    <3> QED BY <1>0, <1>2, <3>1, <3>2, <3>3, <3>4 DEF DeliveryInv
  <2>8. ~Pool!Refuse(x)
    BY <1>0 DEF Pool!Refuse, TookOn, CoreInv, TaskTypes
  <2>9. Pool!Refuse(x) \/ UNCHANGED taskVars
    BY <2>2, <2>5 DEF Asked
  <2> QED BY <2>7, <2>8, <2>9
<1>8. CASE Replied(fd)
  <2>1. Open(fd) /\ Moves(fd) /\ 1 \in QueuedFor(fd)
    BY <1>8 DEF Replied, Answered1, Belongs, Moves
  <2>2. Handler
    BY <1>8 DEF Replied, Answered1, Handler
  <2>3. sock'[fd] = sock[fd]
    BY <2>2, SameSock
  <2>4. AtMostOne(fd)
    BY <2>1, <2>3, ShieldBefore
  <2> QED BY <1>1, <2>1, <2>4, MovesFacts DEF AtMostOne
<1> QED BY <1>4, <1>5, <1>6, <1>7, <1>8, LifeCases DEF Rests, Worked, Passed

\* The event in hand is the connection's own, unless it has been noted as handed
\* another's; then a reported reset is its client's.
LEMMA OwnEvent ==
    ASSUME CoreInv, ShieldInv, HupInv, NEW fd \in Fds, Open(fd), io = "event", Ev.src = fd,
           NoteInherited(fd), sock[fd] \notin inherited'
    PROVE  /\ (Ev.in => Idle(fd)) /\ (~Ev.in => conns[fd].resp # NoReq)
           /\ (Ev.hup => peer[sock[fd]].rst)
<1>1. Ev = batch[1] /\ 1 \in 1..Len(batch)
  BY HeadTailProperties DEF Ev, CoreInv, Control, LoopTypes
<1>2. sock[fd] \notin inherited /\ Ev.of = sock[fd]
  BY DEF NoteInherited
<1>3. EventFits(fd, Ev)
  BY <1>1, <1>2 DEF ShieldInv
<1>4. Ev.hup => peer[Ev.of].rst
  BY <1>1 DEF HupInv
<1> QED BY <1>2, <1>3, <1>4 DEF EventFits

\* A handler that closes the connection of a client that takes its responses at
\* once, has not reset it and was handed nobody else's event, has given it all
\* that it was owed.
LEMMA DroppedAnswered ==
    ASSUME CoreInv, BusyInv, ShieldInv, ClientInv, TurnInv, DeliveryInv, HupInv, [Next]_vars,
           NEW fd \in Fds, NEW l, Commits(fd, l), l.conn = NoConn,
           NEW r \in Requests, TookOn(r)', r[1] = sock[fd],
           ~peer[sock[fd]].rst, sock[fd] \notin SlowClients, sock[fd] \notin inherited'
    PROVE  r[2] <= Received(r[1])'
<1>c. PICK c \in Clients : c = sock[fd]
  BY CommitFacts
<1>0. /\ Open(fd) /\ c \in Clients /\ conns[fd] \in ConnType /\ peer[c].st = "open"
      /\ peer[c] \in PeerType /\ TablePart /\ r # NoReq
  BY <1>c, CommitView, CommitFacts, HereFacts, ModelValuesAssumption DEF CoreInv, TablePart
<1>1. conns[fd].resp = NoReq /\ peer[c].room = Pieces
  BY <1>c, <1>0 DEF ClientInv
<1>2. r \notin failed
  BY FailedGrows DEF TookOn
<1>3. ASSUME TookOn(r), ~(r[2] <= Received(r[1])')
      PROVE  conns[fd].moved /\ r \in TasksFor(fd) \cup RequestsOf(Node(fd))
  <2>1. ~(r[2] <= Received(r[1]))
    <3>1. PICK x \in Nat, y \in Nat, z \in Nat : x = r[2] /\ y = Received(r[1]) /\ z = Received(r[1])'
      BY <1>c, <1>0, ReceivedGrows, IoAssumption DEF Requests
    <3>2. y <= z /\ ~(x <= z)
      BY <1>c, <1>0, <1>3, <3>1, ReceivedGrows
    <3> QED BY <3>1, <3>2
  <2>2. PICK g \in Fds : OwedAt(g, r)
    BY <1>c, <1>0, <1>3, <2>1 DEF DeliveryInv, TookOn
  <2>3. g = fd
    BY <1>c, <1>0, <2>2 DEF OwedAt, CoreInv, TableInv
  <2> QED BY <1>c, <1>0, <1>1, <2>2, <2>3 DEF OwedAt
<1>4. ASSUME io = "event", Ev.src = fd, NoteInherited(fd)
      PROVE  (Ev.in => Idle(fd)) /\ (~Ev.in => conns[fd].resp # NoReq) /\ ~Ev.hup
  BY <1>c, <1>0, <1>4, OwnEvent
<1>5. CASE OnReadFor(fd, l) \/ ReadTooLargeFor(fd, l)
  <2>1. ~conns[fd].moved /\ UNCHANGED status
    BY <1>5 DEF OnReadFor, ReadTooLargeFor, OnRead, ReadTooLarge, taskVars, poolVars
  <2> QED BY <1>2, <1>3, <2>1 DEF TookOn
<1>6. CASE OnRequestFor(fd, l)
  <2>1. ~Ev.hup
    BY <1>4, <1>6 DEF OnRequestFor, OnRequest
  <2>2. PICK k \in RequestKept(SocketRead(Here(fd), peer[c])) : l = Hangup(k, Ev)
    BY <1>c, <1>6 DEF OnRequestFor
  <2>3. k.conn # NoConn /\ k.conn \in ConnType /\ k \in Locals
    <3> DEFINE s == SocketRead(Here(fd), peer[c])
    <3>1. Complete(s) /\ Local(s)
      BY <1>c, <1>0, <1>6, ReadHere DEF OnRequestFor
    <3>2. s.conn \in ConnType /\ s \in Locals
      BY <3>1, LocalConn DEF Complete, Local
    <3> HIDE DEF s
    <3>3. \/ k.conn = [s.conn EXCEPT !.caw = TRUE] \/ k.conn = [s.conn EXCEPT !.moved = TRUE]
          \/ k.conn = [s.conn EXCEPT !.moved = TRUE, !.proc = TRUE]
      BY <2>2, <3>2 DEF RequestKept, MarkProcessing, Locals, s
    <3>4. k.conn \in ConnType
      BY <3>2, <3>3 DEF ConnType
    <3>5. k \in Locals
      BY <2>2, <3>2, <3>4 DEF RequestKept, MarkProcessing, Locals, s
    <3> QED BY <3>4, <3>5, ConnNotNone
  <2>4. l = [k EXCEPT !.conn = [k.conn EXCEPT !.caw = @ \/ Ev.rdhup]]
    BY <2>1, <2>2, <2>3 DEF Hangup, Locals
  <2>5. l.conn \in ConnType
    <3>1. Ev.rdhup \in BOOLEAN
      BY <1>6 DEF OnRequestFor, FdEvents
    <3> QED BY <2>3, <2>4, <3>1 DEF Locals, ConnType
  <2> QED BY <2>5, ConnNotNone
<1>7. CASE OnWriteFor(fd, l)
  <2>1. io = "event" /\ NoteInherited(fd) /\ Ev.src = fd /\ ~Ev.in
    BY <1>7 DEF OnWriteFor, OnWrite
  <2> QED BY <1>1, <1>4, <2>1
<1>8. CASE DrainEventFor(fd, l)
  <2>1. io = "event" /\ NoteInherited(fd) /\ Ev.src = fd /\ UNCHANGED status
    BY <1>8 DEF DrainEventFor, DrainEvent, taskVars, poolVars
  <2>2. Idle(fd)
    BY <1>1, <1>4, <2>1
  <2> QED BY <1>2, <1>3, <2>1, <2>2 DEF TookOn, Idle
<1>9. CASE AnswerFor(fd, l)
  <2> DEFINE e == Answering(fd, Head(found).req)
  <2>0. UNCHANGED status
    BY <1>9 DEF AnswerFor, Answer, taskVars, poolVars
  <2>1. PICK k \in Nat : Turn(fd, k)
    <3>1. ~Spoiled(c)
      BY <1>c DEF Spoiled
    <3> QED BY <1>c, <1>0, <3>1 DEF TurnInv
  <2>2. r \in TasksFor(fd) \cup RequestsOf(Node(fd)) => r = <<c, k + 1>>
    BY <1>c, <2>1 DEF Turn
  <2>3. Len(answers[c]) = Pieces * k
    BY <1>c, <1>1, <2>1, IoAssumption DEF Turn
  <2>4. Len(l.wrote) = Pieces
    <3>1. Head(found).req \in Requests
      BY <1>9 DEF AnswerFor, Items
    <3>2. e.conn.pos = 0 /\ e.wrote = <<>> /\ Local(e) /\ e.conn # NoConn /\ e.conn.resp # NoReq /\ ~e.read
          /\ e.conn.id = conns[fd].id /\ e.conn.got = conns[fd].got
      BY <1>c, <1>0, <3>1, AnsweringFacts
    <3> HIDE DEF e
    <3>3. WroteNothing(e, l, peer[c]) \/ WrotePart(e, l, peer[c]) \/ WroteRest(e, l, peer[c])
      BY <1>c, <1>0, <1>9, <3>2, WriteHandled DEF AnswerFor, e
    <3>4. ~WroteNothing(e, l, peer[c]) /\ ~WrotePart(e, l, peer[c])
      BY <1>c, <1>1 DEF WroteNothing, WrotePart
    <3> QED BY <3>2, <3>3, <3>4, IoAssumption DEF WroteRest
  <2>5. Received(c)' = k + 1
    <3>1. Len(answers'[c]) = Pieces * (k + 1) + 0
      <4>1. Len(answers'[c]) = Pieces * k + Pieces
        BY <1>c, <2>3, <2>4, CommitLength
      <4>2. \A p \in Nat : p * k + p = p * (k + 1) + 0
        OBVIOUS
      <4> QED BY <4>1, <4>2, IoAssumption
    <3> QED BY <3>1, IoAssumption, DivExact DEF Received
  <2> QED BY <1>c, <1>2, <1>3, <2>0, <2>2, <2>5 DEF TookOn
<1> QED BY <1>5, <1>6, <1>7, <1>8, <1>9 DEF Commits, HandlerFor

LEMMA ClosedStep ==
    ASSUME CoreInv, BusyInv, ShieldInv, ClientInv, TurnInv, DeliveryInv, HupInv, ProcInv, ClosedInv,
           [Next]_vars
    PROVE  ClosedInv'
<1> SUFFICES ASSUME NEW r \in Requests, TookOn(r)', peer'[r[1]].st = "closed", ~peer'[r[1]].rst,
                    r[1] \notin SlowClients \cup inherited'
             PROVE  r[2] <= Received(r[1])'
  BY DEF ClosedInv
<1>1. PICK c \in Clients : c = r[1]
  BY DEF Requests
<1>2. r[2] \in 1..MaxRequests /\ r # NoReq
  BY ModelValuesAssumption DEF Requests
<1>3. r \notin failed /\ ~peer[c].rst /\ c \notin inherited /\ c \notin inherited' /\ c \notin SlowClients
  BY <1>1, FailedGrows, InheritedGrows, LinkCases DEF TookOn
<1>4. ASSUME r[2] <= Received(c) PROVE r[2] <= Received(c)'
  <2>1. PICK x \in Nat, y \in Nat, z \in Nat : x = r[2] /\ y = Received(c) /\ z = Received(c)'
    BY <1>2, ReceivedGrows, IoAssumption
  <2>2. x <= y /\ y <= z
    BY <1>4, <2>1, ReceivedGrows
  <2>3. x <= z
    BY <2>2
  <2> QED BY <2>1, <2>3
<1>5. ASSUME ~OnRequest PROVE TookOn(r)
  BY <1>3, <1>5, AcceptedNow DEF TookOn
<1>6. CASE peer[c].st = "closed"
  <2>1. ASSUME OnRequest PROVE TookOn(r)
    <3>1. Ev.src \in Fds /\ Open(Ev.src)
      BY <2>1 DEF OnRequest
    <3>2. r # RequestOf(Ev.src)
      BY <1>1, <1>6, <3>1 DEF RequestOf, CoreInv, TableInv
    <3> QED BY <1>3, <3>2, AcceptedNow DEF TookOn
  <2> QED BY <1>1, <1>3, <1>4, <1>5, <1>6, <2>1 DEF ClosedInv
<1>7. CASE Greeted(c)
  <2>1. TookOn(r) /\ peer[c].st = "backlog"
    <3>1. UNCHANGED status
      BY <1>7 DEF Greeted, Accept, taskVars, poolVars
    <3> QED BY <1>3, <1>7, <3>1 DEF Greeted, TookOn
  <2>2. ~(r[2] <= Received(c))
    <3>1. Len(answers[c]) = Pieces * 0 + 0
      BY <2>1, IoAssumption DEF ClientInv
    <3>2. Received(c) = 0
      BY <3>1, IoAssumption, DivExact DEF Received
    <3> QED BY <1>2, <3>2, IoAssumption
  <2>3. \A fd \in Fds : ~OwedAt(fd, r)
    BY <1>1, <2>1 DEF OwedAt, CoreInv, TableInv
  <2> QED BY <1>1, <2>1, <2>2, <2>3 DEF DeliveryInv, TookOn
<1>8. CASE Reaped(c)
  <2>1. PICK fd \in Expired : sock[fd] = c
    BY <1>8 DEF Reaped
  <2>2. TookOn(r) /\ UNCHANGED answers
    <3>1. UNCHANGED <<status, answers>>
      BY <1>8 DEF Reaped, OnTimerTick, taskVars, poolVars
    <3> QED BY <1>3, <3>1 DEF TookOn
  <2>3. fd \in Fds /\ Open(fd) /\ ~conns[fd].proc /\ peer[c].st = "open"
    BY <2>1 DEF Expired, CoreInv, TableInv
  <2>4. ~OwedAt(fd, r)
    <3>1. r \notin TasksFor(fd)
      BY <2>3 DEF BusyInv
    <3>2. r \notin RequestsOf(Node(fd))
      BY <1>3, <2>1, <2>2, <2>3 DEF ProcInv
    <3>3. conns[fd].resp # r
      BY <1>2, <1>3, <2>1, <2>3 DEF ClientInv
    <3> QED BY <3>1, <3>2, <3>3 DEF OwedAt
  <2>5. ASSUME NEW g \in Fds PROVE ~OwedAt(g, r)
    BY <1>1, <2>1, <2>3, <2>4, <2>5 DEF OwedAt, CoreInv, TableInv
  <2>6. r[2] <= Received(c)
    BY <1>1, <2>2, <2>3, <2>5 DEF DeliveryInv, TookOn
  <2> QED BY <1>1, <1>4, <2>6
<1>9. CASE Dropped(c)
  <2>1. PICK fd \in Fds : \E l : Commits(fd, l) /\ sock[fd] = c /\ l.conn = NoConn
    BY <1>9 DEF Dropped
  <2>2. PICK l : Commits(fd, l) /\ sock[fd] = c /\ l.conn = NoConn
    BY <2>1
  <2> QED BY <1>1, <1>3, <2>2, DroppedAnswered
<1>10. peer'[c].st = "closed"
  BY <1>1
<1> QED BY <1>6, <1>7, <1>8, <1>9, <1>10, LinkCases

LEMMA ServeInit == ASSUME Init PROVE ServeInv
<1>1. \A c \in Clients : peer[c].st = "new"
  BY DEF Init
<1>2. /\ batch = <<>> /\ \A fd \in Fds : ~Open(fd)
      /\ \A r \in Requests : status[r] = "new"
  BY DEF Init, Open, Pool!ServiceInit
<1> QED BY <1>1, <1>2 DEF ServeInv, HupInv, ProcInv, ClosedInv, PlaceInv, TookOn

\* All of it, inductive.
FullInv == CoreInv /\ ControlInv /\ LifeInv /\ AnswerInv /\ ServeInv

LEMMA FullStep == ASSUME FullInv, [Next]_vars PROVE FullInv'
<1>1. CoreInv'
  BY CoreStep DEF FullInv
<1>2. ControlInv'
  BY ControlStep DEF FullInv
<1>3. LifeInv'
  BY PastStep, BusyStep, BatchStep, ShieldStep, CrashStep, ExemptionStep, DeafStep
     DEF FullInv, LifeInv, ControlInv
<1>4. AnswerInv'
  BY ClientStepInv, TurnStep, WholeStep, DeliveryStep DEF FullInv, LifeInv, ControlInv, AnswerInv
<1>5. ServeInv'
  BY HupStep, ProcStep, ClosedStep, PlaceStep DEF FullInv, LifeInv, ControlInv, AnswerInv, ServeInv
<1> QED BY <1>1, <1>2, <1>3, <1>4, <1>5 DEF FullInv

-----------------------------------------------------------------------------
(* The refinement: each step is a step of HttpService or changes nothing that *)
(* HttpService speaks of.                                                      *)

LinkOf == [c \in Clients |-> peer[c].st]
SentOf == [c \in Clients |-> peer[c].sent]
ResetOf == {c \in Clients : peer[c].rst}
AnswersOf == [c \in Clients |-> IF c \in inherited \cap SlowClients THEN <<>> ELSE answers[c]]
AcceptedOf == {r \in Requests : status[r] \notin {"new", "refused"}}

\* What changes only as the I/O thread, the pool and the main thread act.
servedVars == <<AnswersOf, AcceptedOf, failed, inherited, ServicePhase>>

LEMMA SameServed ==
    ASSUME UNCHANGED <<answers, status, failed, inherited, io, draining>>
    PROVE  UNCHANGED servedVars
BY DEF servedVars, AnswersOf, AcceptedOf, ServicePhase

LEMMA SameLinks ==
    ASSUME \A c \in Clients : peer'[c].st = peer[c].st /\ peer'[c].sent = peer[c].sent /\ peer'[c].rst = peer[c].rst
    PROVE  UNCHANGED <<LinkOf, SentOf, ResetOf>>
BY DEF LinkOf, SentOf, ResetOf

ServeStep == Service!ServiceNext \/ UNCHANGED Service!serviceVars

LEMMA Stutters ==
    ASSUME UNCHANGED <<LinkOf, SentOf, ResetOf>>, UNCHANGED servedVars, UNCHANGED backlog
    PROVE  ServeStep
BY DEF ServeStep, Service!serviceVars, LinkOf, SentOf, ResetOf, servedVars, AnswersOf, AcceptedOf

LEMMA ClientServe ==
    ASSUME CoreInv, NEW x \in Clients, ClientStep(x)
    PROVE  ServeStep
<1>0. peer \in [Clients -> PeerType] /\ peer[x] \in PeerType
  BY DEF CoreInv, NetTypes
<1>1. UNCHANGED servedVars
  <2>1. UNCHANGED othersThanPeer
    BY DEF ClientStep, Connect, Send, HangUp, Congest, Relieve
  <2> QED BY <2>1, SameServed DEF othersThanPeer, loopVars, taskVars, poolVars, ghostVars
<1>2. CASE Connect(x)
  <2>1. peer' = [peer EXCEPT ![x].st = "backlog"] /\ peer[x].st = "new" /\ backlog' = Append(backlog, x)
    BY <1>2 DEF Connect
  <2>2. LinkOf' = [LinkOf EXCEPT ![x] = "backlog"] /\ UNCHANGED <<SentOf, ResetOf>>
    BY <1>0, <2>1 DEF PeerType, LinkOf, SentOf, ResetOf
  <2>3. Service!Arrive(x)
    BY <1>1, <2>1, <2>2 DEF Service!Arrive, LinkOf, SentOf, ResetOf, servedVars, AnswersOf, AcceptedOf
  <2> QED BY <2>3 DEF ServeStep, Service!ServiceNext
<1>3. CASE Send(x)
  <2>1. peer' = [peer EXCEPT ![x].sent = @ + 1, ![x].unread = @ + 1] /\ Talking(x) /\ backlog' = backlog
    BY <1>3 DEF Send
  <2>2. SentOf' = [SentOf EXCEPT ![x] = @ + 1] /\ UNCHANGED <<LinkOf, ResetOf>>
    BY <1>0, <2>1 DEF PeerType, LinkOf, SentOf, ResetOf
  <2>3. Service!Ask(x)
    BY <1>1, <2>1, <2>2
       DEF Service!Ask, Service!Present, Talking, LinkOf, SentOf, ResetOf, servedVars, AnswersOf, AcceptedOf
  <2> QED BY <2>3 DEF ServeStep, Service!ServiceNext
<1>4. CASE HangUp(x)
  <2>1. CASE peer' = [peer EXCEPT ![x].fin = TRUE]
    <3>1. UNCHANGED <<LinkOf, SentOf, ResetOf>> /\ backlog' = backlog
      BY <1>0, <1>4, <2>1 DEF HangUp, PeerType, LinkOf, SentOf, ResetOf
    <3> QED BY <1>1, <3>1, Stutters
  <2>2. CASE peer' = [peer EXCEPT ![x].fin = TRUE, ![x].rst = TRUE]
    <3>1. ResetOf' = ResetOf \cup {x} /\ UNCHANGED <<LinkOf, SentOf>> /\ backlog' = backlog
      BY <1>0, <1>4, <2>2 DEF HangUp, PeerType, LinkOf, SentOf, ResetOf
    <3>2. Service!Reset(x)
      BY <1>1, <1>4, <3>1
         DEF Service!Reset, Service!Present, HangUp, Talking, LinkOf, SentOf, ResetOf, servedVars,
             AnswersOf, AcceptedOf
    <3> QED BY <3>2 DEF ServeStep, Service!ServiceNext
  <2> QED BY <1>4, <2>1, <2>2 DEF HangUp
<1>5. CASE Congest(x) \/ Relieve(x)
  <2>1. (\E n : peer' = [peer EXCEPT ![x].room = n]) /\ backlog' = backlog
    BY <1>5 DEF Congest, Relieve
  <2>2. UNCHANGED <<LinkOf, SentOf, ResetOf>>
    BY <1>0, <2>1 DEF PeerType, LinkOf, SentOf, ResetOf
  <2> QED BY <1>1, <2>1, <2>2, Stutters
<1> QED BY <1>2, <1>3, <1>4, <1>5 DEF ClientStep

LEMMA OpenClients ==
    ASSUME CoreInv, PlaceInv, FreeFds # {}
    PROVE  Cardinality({c \in Clients : peer[c].st = "open"}) < Cardinality(Fds)
<1> DEFINE O == {c \in Clients : peer[c].st = "open"}
<1>0. IsFiniteSet(Fds) /\ OpenFds \subseteq Fds
  BY IoAssumption DEF OpenFds
<1>1. [fd \in OpenFds |-> sock[fd]] \in Surjection(OpenFds, O)
  <2>1. \A fd \in OpenFds : sock[fd] \in O
    BY DEF OpenFds, CoreInv, TableInv, NetTypes
  <2>2. \A c \in O : \E fd \in OpenFds : sock[fd] = c
    BY ModelValuesAssumption DEF PlaceInv, OpenFds, CoreInv, TableInv
  <2> HIDE DEF O
  <2> QED BY <2>1, <2>2 DEF Surjection
<1>2. IsFiniteSet(OpenFds) /\ Cardinality(OpenFds) \in Nat /\ Cardinality(Fds) \in Nat
  BY <1>0, FS_Subset, FS_CardinalityType
<1>3. Cardinality(OpenFds) < Cardinality(Fds)
  <2>1. OpenFds # Fds
    BY DEF OpenFds, FreeFds, CoreInv, TableInv
  <2> QED BY <1>0, <1>2, <2>1, FS_Subset
<1>4. IsFiniteSet(O) /\ Cardinality(O) <= Cardinality(OpenFds)
  BY <1>1, <1>2, FS_Surjection
<1>5. Cardinality(O) \in Nat
  BY <1>4, FS_CardinalityType
<1> HIDE DEF O
<1>6. Cardinality(O) < Cardinality(Fds)
  BY <1>2, <1>3, <1>4, <1>5
<1> QED BY <1>6 DEF O

LEMMA SameCardinality == \A S : Service!Cardinality(S) = Cardinality(S)
  BY DEF Service!Cardinality, Cardinality

LEMMA AcceptServe == ASSUME FullInv, Accept PROVE ServeStep
<1>0. peer \in [Clients -> PeerType] /\ backlog \in Seq(Clients)
  BY DEF FullInv, CoreInv, NetTypes
<1>1. UNCHANGED servedVars
  <2>1. UNCHANGED <<answers, loopVars, taskVars, ghostVars>>
    BY DEF Accept
  <2> QED BY <2>1, SameServed DEF loopVars, taskVars, poolVars, ghostVars
<1>2. io = "accept" /\ backlog # <<>> /\ FreeFds # {} /\ backlog' = Tail(backlog)
  BY DEF Accept
<1>3. ServicePhase = "serving"
  BY <1>2 DEF ServicePhase, FullInv, CoreInv, Control
<1>4. PICK c \in Clients : c = Head(backlog)
  BY <1>0, <1>2, HeadTailProperties
<1>5. PICK st \in {"open", "closed"} : peer' = [peer EXCEPT ![c].st = st]
  BY <1>4 DEF Accept
<1>6. UNCHANGED <<SentOf, ResetOf>> /\ LinkOf' = [LinkOf EXCEPT ![c] = st]
  BY <1>0, <1>5 DEF PeerType, LinkOf, SentOf, ResetOf
<1>7. Cardinality({d \in Clients : LinkOf[d] = "open"}) < Cardinality(Fds)
  <2>1. {d \in Clients : LinkOf[d] = "open"} = {d \in Clients : peer[d].st = "open"}
    BY DEF LinkOf
  <2>2. CoreInv /\ PlaceInv
    BY DEF FullInv, ServeInv
  <2> QED BY <1>2, <2>1, <2>2, OpenClients
<1>8. \E x \in {"open", "closed"} : LinkOf' = [LinkOf EXCEPT ![Head(backlog)] = x]
  BY <1>4, <1>6
<1>9. Service!Admit
  BY <1>1, <1>2, <1>3, <1>6, <1>7, <1>8, SameCardinality
     DEF Service!Admit, LinkOf, SentOf, ResetOf, servedVars, AnswersOf, AcceptedOf
<1> QED BY <1>9 DEF ServeStep, Service!ServiceNext

\* Responses received whole, counted in pieces.
LEMMA WholePieces ==
    ASSUME NEW x \in Nat, NEW n \in Nat, x <= n \div Pieces
    PROVE  Pieces * x <= n
<1> DEFINE a == Pieces * x
           b == Pieces * (n \div Pieces)
<1>1. n \div Pieces \in Nat /\ b <= n
  BY DivFacts, IoAssumption
<1>2. a <= b
  BY <1>1, MulGrows, IoAssumption
<1>3. a \in Int /\ b \in Int
  BY <1>1, IoAssumption
<1> HIDE DEF a, b
<1>4. a <= n
  BY <1>1, <1>2, <1>3
<1> QED BY <1>4 DEF a

\* Whoever is left has been answered, or is excepted.
LEMMA LeftFairly ==
    ASSUME FullInv, [Next]_vars, NEW c \in Clients, peer'[c].st = "closed", peer'[c].rst = peer[c].rst,
           failed' = failed
    PROVE  Service!MayLeave(c)
<1>1. ClosedInv' /\ CoreInv'
  BY FullStep DEF FullInv, ServeInv
<1>2. ASSUME NEW r \in Requests, status'[r] \notin {"new", "refused"}, r \notin failed, r[1] = c,
             ~peer[c].rst, c \notin SlowClients, c \notin inherited'
      PROVE  Pieces * r[2] <= Len(answers'[c])
  <2>1. r[2] <= Received(c)'
    BY <1>1, <1>2 DEF ClosedInv, TookOn
  <2>2. PICK x \in Nat, n \in Nat : x = r[2] /\ n = Len(answers'[c])
    BY <1>1, IoAssumption DEF Requests, CoreInv, NetTypes
  <2>3. x <= n \div Pieces
    BY <2>1, <2>2 DEF Received
  <2> QED BY <2>2, <2>3, WholePieces
<1>3. ASSUME c \notin ResetOf \cup SlowClients \cup inherited', NEW r \in AcceptedOf' \ failed, r[1] = c
      PROVE  Pieces * r[2] <= Len(AnswersOf'[r[1]])
  <2>1. AnswersOf'[c] = answers'[c]
    BY <1>3 DEF AnswersOf
  <2>2. Pieces * r[2] <= Len(answers'[c])
    BY <1>2, <1>3 DEF ResetOf, AcceptedOf
  <2> QED BY <1>3, <2>1, <2>2
<1> QED BY <1>3 DEF Service!MayLeave, Service!Answered, ResetOf, AcceptedOf, AnswersOf

LEMMA TimerServe == ASSUME FullInv, [Next]_vars, OnTimerTick PROVE ServeStep
<1>s. PICK S \in SUBSET Clients : S = {c \in Clients : \E fd \in Expired : sock[fd] = c}
  OBVIOUS
<1>0. peer \in [Clients -> PeerType]
  BY DEF FullInv, CoreInv, NetTypes
<1>1. io = "event" /\ ~draining /\ UNCHANGED <<answers, backlog, draining, taskVars, ghostVars>>
      /\ io' \notin {"crashed", "done"}
  BY DEF OnTimerTick, Handling, AfterEvent
<1>2. ServicePhase = "serving" /\ ServicePhase' = "serving"
  BY <1>1 DEF ServicePhase
<1>3. UNCHANGED servedVars
  BY <1>1, <1>2 DEF servedVars, AnswersOf, AcceptedOf, taskVars, poolVars, ghostVars
<1>4. ASSUME NEW c \in Clients
      PROVE  /\ peer'[c].st = IF c \in S THEN "closed" ELSE peer[c].st
             /\ peer'[c].sent = peer[c].sent /\ peer'[c].rst = peer[c].rst
  <2>1. peer'[c] = IF c \in S THEN [peer[c] EXCEPT !.st = "closed"] ELSE peer[c]
    BY <1>s DEF OnTimerTick
  <2> QED BY <1>0, <2>1 DEF PeerType
<1>5. \A c \in S : peer[c].st = "open"
  BY <1>s DEF Expired, FullInv, CoreInv, TableInv
<1>6. \A c \in S : Service!MayLeave(c)
  BY <1>1, <1>4, LeftFairly DEF ghostVars
<1>8. LinkOf' = [c \in Clients |-> IF c \in S THEN "closed" ELSE LinkOf[c]] /\ UNCHANGED <<SentOf, ResetOf>>
  BY <1>4 DEF LinkOf, SentOf, ResetOf
<1>9. Service!Reap(S)
  <2>1. \A c \in S : LinkOf[c] = "open"
    BY <1>5 DEF LinkOf
  <2> QED BY <1>1, <1>2, <1>3, <1>6, <1>8, <2>1
             DEF Service!Reap, LinkOf, SentOf, ResetOf, servedVars, AnswersOf, AcceptedOf
<1> QED BY <1>9 DEF ServeStep, Service!ServiceNext

\* What a handler writes is the next pieces of what its client may receive.
LEMMA WritesNext ==
    ASSUME FullInv, [Next]_vars, NEW fd \in Fds, NEW l, Commits(fd, l), NEW c \in Clients, c = sock[fd],
           ~Spoiled(c)'
    PROVE  /\ answers'[c] = answers[c] \o [i \in 1..Len(l.wrote) |-> PieceAt(c, Len(answers[c]) + i)]
           /\ Len(answers[c]) + Len(l.wrote) <= Pieces * (peer[c].sent \div Frags)
<1>0. CoreInv /\ WholeInv' /\ CoreInv' /\ BusyInv /\ ShieldInv /\ ClientInv /\ TurnInv
  BY FullStep DEF FullInv, AnswerInv, LifeInv
<1>1. answers'[c] = answers[c] \o l.wrote /\ answers[c] \in Seq(PieceSet) /\ l.wrote \in Seq(PieceSet)
  BY <1>0, CommitFacts DEF Commits, Handled, Local, Locals, CoreInv, NetTypes
<1>2. PICK s \in Seq(PieceSet), w \in Seq(PieceSet) : s = answers[c] /\ w = l.wrote
  BY <1>1
<1>3. ~Spoiled(c)
  BY SpoiledGrows
<1>4. answers'[c] = s \o w
  BY <1>1, <1>2
<1>5. \A j \in 1..Len(w) : w[j] = PieceAt(c, Len(s) + j)
  <2> SUFFICES ASSUME NEW j \in 1..Len(w) PROVE w[j] = PieceAt(c, Len(s) + j)
    OBVIOUS
  <2>1. Len(s) + j \in 1..Len(s \o w) /\ (s \o w)[Len(s) + j] = w[j]
    <3>1. Len(s \o w) = Len(s) + Len(w) /\ Len(s) \in Nat /\ Len(w) \in Nat
      BY ConcatAt
    <3>2. (s \o w)[Len(s) + j] = w[j]
      BY ConcatAt
    <3> QED BY <3>1, <3>2
  <2> QED BY <1>0, <1>4, <2>1 DEF WholeInv
<1>6. w = [i \in 1..Len(w) |-> PieceAt(c, Len(s) + i)]
  <2>1. w = [i \in 1..Len(w) |-> w[i]]
    OBVIOUS
  <2> QED BY <1>5, <2>1
<1>7. answers'[c] = s \o [i \in 1..Len(w) |-> PieceAt(c, Len(s) + i)]
  BY <1>4, <1>6
<1>8. PICK k \in Nat : Turn(fd, k) /\ Open(fd) /\ ~(RefusedHere(fd) /\ Spoiled(sock[fd]))
  BY <1>0, <1>3, CommitFacts DEF TurnInv
<1>9. ASSUME NEW a, From(fd, a), NEW n \in Nat, a.pos + n <= Pieces, n = Len(w)
      PROVE  Len(s) + n <= Pieces * (peer[c].sent \div Frags)
  <2>1. Len(s) = Pieces * k + a.pos /\ peer[c].sent = Frags * k + Frags
    BY <1>0, <1>2, <1>8, <1>9, WriteInTurn
  <2>2. peer[c].sent \div Frags = k + 1
    <3>1. Frags * k + Frags = Frags * (k + 1) + 0
      BY IoAssumption
    <3>2. (Frags * (k + 1) + 0) \div Frags = k + 1
      BY IoAssumption, DivExact
    <3> QED BY <2>1, <3>1, <3>2
  <2>3. a.pos \in Nat
    BY <1>9, IoAssumption DEF From, ConnType
  <2>4. PICK f \in Nat : f = Pieces * k
    BY IoAssumption
  <2>5. Pieces * (k + 1) = f + Pieces
    BY <2>4, IoAssumption
  <2>6. Len(s) + n <= f + Pieces
    BY <1>9, <2>1, <2>3, <2>4, IoAssumption
  <2> QED BY <2>2, <2>5, <2>6
<1>10. CASE Keeps(fd, l)
  <2>0. w = <<>> /\ Len(w) = 0
    BY <1>2, <1>10 DEF Keeps
  <2>1. CASE conns[fd].resp # NoReq
    <3>1. conns[fd] \in ConnType /\ From(fd, conns[fd])
      BY <1>0, <2>1, CommitFacts DEF From
    <3>2. conns[fd].pos + 0 <= Pieces
      BY <3>1, IoAssumption DEF ConnType
    <3> QED BY <1>2, <1>7, <1>9, <2>0, <3>1, <3>2
  <2>2. CASE conns[fd].resp = NoReq
    <3>1. Len(s) = Pieces * k + 0
      BY <1>2, <1>8, <2>2 DEF Turn
    <3>2. PICK q \in Nat, g \in Nat, u \in Nat, f \in Nat :
              q = peer[c].sent /\ g = conns[fd].got /\ u = peer[c].unread /\ f = Frags * k
      <4>1. peer[c] \in PeerType /\ conns[fd] \in ConnType
        BY <1>0, CommitFacts DEF CoreInv, NetTypes
      <4>2. conns[fd].got \in Nat
        BY <4>1, IoAssumption DEF ConnType
      <4>3. peer[c].sent \in Nat /\ peer[c].unread \in Nat
        BY <4>1 DEF PeerType
      <4>4. Frags * k \in Nat
        BY IoAssumption
      <4> QED BY <4>2, <4>3, <4>4
    <3>3. f + g + u = q
      BY <1>8, <3>2 DEF Turn
    <3>4. k <= q \div Frags
      <4>0. f <= q /\ f + 0 = f
        BY <3>3
      <4>1. Frags * k + 0 <= q /\ Frags * k + 0 \in Nat
        BY <3>2, <4>0
      <4>2. (Frags * k + 0) \div Frags = k
        BY IoAssumption, DivExact
      <4> QED BY <4>1, <4>2, DivGrows, IoAssumption
    <3>5. Pieces * k <= Pieces * (q \div Frags)
      BY <3>4, DivFacts, MulGrows, IoAssumption
    <3>6. Len(s) + Len(w) = Pieces * k
      BY <2>0, <3>1, IoAssumption
    <3> QED BY <1>2, <1>7, <3>2, <3>5, <3>6
  <2> QED BY <2>1, <2>2
<1>11. ASSUME NEW a, NEW n, Writes(fd, l, a, n) PROVE Len(s) + Len(w) <= Pieces * (peer[c].sent \div Frags)
  <2>1. From(fd, a) /\ n \in Nat /\ a.pos + n <= Pieces /\ w = Burst(a, n)
    BY <1>2, <1>11 DEF Writes
  <2>2. Len(w) = n
    BY <2>1, BurstFacts DEF From
  <2> QED BY <1>9, <2>1, <2>2
<1>12. Keeps(fd, l) \/ \E a, n : Writes(fd, l, a, n)
  BY <1>0, Effects
<1> QED BY <1>2, <1>7, <1>10, <1>11, <1>12

LEMMA HandlerFrame ==
    ASSUME CoreInv, Handler
    PROVE  /\ ServicePhase' = ServicePhase /\ ServicePhase \in {"serving", "draining"}
           /\ UNCHANGED <<failed, backlog>>
           /\ OnRequest => ServicePhase = "serving"
           /\ OnRequest \/ UNCHANGED status
           /\ Answer => UNCHANGED inherited
<1>1. CASE Answer
  <2>1. io = "answer" /\ UNCHANGED <<io, draining, failed, inherited, status>>
    BY <1>1 DEF Answer, taskVars, poolVars, ghostVars
  <2>2. UNCHANGED backlog
    BY <1>1 DEF Answer, Commit, netVars
  <2>3. ~OnRequest
    BY <1>1, AnswerAlone
  <2> QED BY <2>1, <2>2, <2>3 DEF ServicePhase
<1>2. CASE ~Answer
  <2>1. io = "event" /\ AfterEvent(Tail(batch)) /\ UNCHANGED <<draining, failed, backlog>>
    BY <1>2 DEF Handler, OnRead, ReadTooLarge, OnRequest, OnWrite, DrainEvent, Commit
  <2>2. io' \in {"event", "tasks", "test"}
    BY <2>1 DEF AfterEvent
  <2>3. OnRequest => ~draining
    BY DEF OnRequest
  <2>4. OnRequest \/ UNCHANGED status
    BY <1>2 DEF Handler, OnRead, ReadTooLarge, OnWrite, DrainEvent, taskVars, poolVars
  <2> QED BY <1>2, <2>1, <2>2, <2>3, <2>4 DEF ServicePhase
<1> QED BY <1>1, <1>2

LEMMA HandledClient ==
    ASSUME CoreInv, Handler, NEW fd \in Fds, NEW l, Commits(fd, l), NEW c, c = sock[fd]
    PROVE  /\ inherited' = inherited \/ inherited' = inherited \cup {c}
           /\ OnRequest => Ev.src = fd
<1>1. CASE Answer
  BY <1>1, AnswerAlone, HandlerFrame
<1>2. CASE ~Answer
  <2>1. Ev.src = fd
    BY <1>2 DEF Commits, HandlerFor, OnReadFor, ReadTooLargeFor, OnRequestFor, OnWriteFor, AnswerFor, DrainEventFor
  <2>2. NoteInherited(Ev.src)
    BY <1>2 DEF Handler, OnRead, ReadTooLarge, OnRequest, OnWrite, DrainEvent
  <2> QED BY <2>1, <2>2 DEF NoteInherited
<1> QED BY <1>1, <1>2

\* What HttpService calls Besides and Receive.
LEMMA HandledBesides ==
    ASSUME FullInv, [Next]_vars, Handler, NEW fd \in Fds, NEW l, Commits(fd, l), NEW c \in Clients, c = sock[fd]
    PROVE  Service!Besides(c)
<1>0. CoreInv
  BY DEF FullInv
<1>1. UNCHANGED <<failed, backlog, ServicePhase>>
  BY <1>0, HandlerFrame
<1>2. inherited' \in {inherited, inherited \cup {c}}
  BY <1>0, HandledClient
<1>3. \A d \in Clients : /\ peer'[d].sent = peer[d].sent /\ peer'[d].rst = peer[d].rst
                         /\ peer'[d].st = IF d = c /\ l.conn = NoConn THEN "closed" ELSE peer[d].st
  BY <1>0, CommitView
<1>4. peer[c].st = "open"
  BY <1>0, CommitView
<1>5. UNCHANGED <<SentOf, ResetOf>> /\ LinkOf[c] = "open"
  BY <1>3, <1>4 DEF SentOf, ResetOf, LinkOf
<1>6. UNCHANGED LinkOf \/ (LinkOf' = [LinkOf EXCEPT ![c] = "closed"] /\ Service!MayLeave(c))
  <2>1. CASE l.conn = NoConn
    <3>1. Service!MayLeave(c)
      BY <1>1, <1>3, <2>1, LeftFairly
    <3>2. LinkOf' = [LinkOf EXCEPT ![c] = "closed"]
      BY <1>3, <2>1 DEF LinkOf
    <3> QED BY <3>1, <3>2
  <2>2. CASE l.conn # NoConn
    BY <1>3, <2>2 DEF LinkOf
  <2> QED BY <2>1, <2>2
<1> QED BY <1>1, <1>2, <1>5, <1>6 DEF Service!Besides, SentOf, ResetOf, LinkOf

LEMMA HandledReceive ==
    ASSUME FullInv, [Next]_vars, Handler, NEW fd \in Fds, NEW l, Commits(fd, l), NEW c \in Clients, c = sock[fd],
           NEW n \in Nat, n = Len(l.wrote)
    PROVE  Service!Receive(c, n)
<1>0. CoreInv /\ answers \in [Clients -> Seq(PieceSet)] /\ answers' \in [Clients -> Seq(PieceSet)]
  BY FullStep DEF FullInv, CoreInv, NetTypes
<1>1. ASSUME NEW d \in Clients, d # c PROVE AnswersOf'[d] = AnswersOf[d]
  <2>1. answers'[d] = answers[d] /\ (d \in inherited' <=> d \in inherited)
    BY <1>0, <1>1, CommitView, HandledClient
  <2> QED BY <2>1 DEF AnswersOf
<1> DEFINE Next1 == [i \in 1..n |-> Service!Piece(c, Len(AnswersOf[c]) + i)]
<1>2. AnswersOf'[c] = IF Service!Garbled(c)' THEN <<>> ELSE AnswersOf[c] \o Next1
  <2>1. CASE Spoiled(c)'
    BY <2>1 DEF AnswersOf, Spoiled, Service!Garbled
  <2>2. CASE ~Spoiled(c)'
    <3>1. ~Spoiled(c)
      BY <2>2, SpoiledGrows
    <3>2. AnswersOf[c] = answers[c] /\ AnswersOf'[c] = answers'[c] /\ ~Service!Garbled(c)'
      BY <2>2, <3>1 DEF AnswersOf, Spoiled, Service!Garbled
    <3>3. answers'[c] = answers[c] \o [i \in 1..n |-> PieceAt(c, Len(answers[c]) + i)]
      BY <2>2, WritesNext
    <3>4. Next1 = [i \in 1..n |-> PieceAt(c, Len(answers[c]) + i)]
      BY <3>2 DEF Service!Piece, PieceAt
    <3> HIDE DEF Next1
    <3> QED BY <3>2, <3>3, <3>4
  <2> QED BY <2>1, <2>2
<1>3. AnswersOf' = [AnswersOf EXCEPT ![c] = IF Service!Garbled(c)' THEN <<>> ELSE AnswersOf[c] \o Next1]
  <2>1. \A d \in Clients : AnswersOf'[d] = IF d = c THEN (IF Service!Garbled(c)' THEN <<>> ELSE AnswersOf[c] \o Next1)
                                          ELSE AnswersOf[d]
    BY <1>1, <1>2
  <2> HIDE DEF Next1
  <2> QED BY <2>1 DEF AnswersOf
<1> QED BY <1>3 DEF Service!Receive, AnswersOf

\* A handler that accepts no request answers some.
LEMMA HandledGive ==
    ASSUME FullInv, [Next]_vars, Handler, NEW fd \in Fds, NEW l, Commits(fd, l), UNCHANGED AcceptedOf
    PROVE  ServeStep
<1>0. CoreInv
  BY DEF FullInv
<1>1. PICK c \in Clients : c = sock[fd]
  BY <1>0, CommitFacts
<1>2. PICK n \in 0..Pieces : n = Len(l.wrote)
  <2>1. Len(l.wrote) \in Nat /\ Len(l.wrote) <= peer[c].room
    BY <1>0, <1>1, CommitLength DEF Commits, Handled
  <2>2. peer[c].room \in 0..Pieces
    BY <1>0 DEF CoreInv, NetTypes, PeerType
  <2> QED BY <2>1, <2>2, IoAssumption
<1>3. Service!Besides(c) /\ Service!Receive(c, n)
  BY <1>1, <1>2, HandledBesides, HandledReceive, IoAssumption
<1>4. Service!Garbled(c)' \/ Len(AnswersOf[c]) + n <= Pieces * Service!Asked(c)
  <2>1. CASE Spoiled(c)'
    BY <2>1 DEF Spoiled, Service!Garbled
  <2>2. CASE ~Spoiled(c)'
    <3>1. Len(answers[c]) + n <= Pieces * (peer[c].sent \div Frags)
      BY <1>1, <1>2, <2>2, WritesNext
    <3>2. ~Spoiled(c)
      BY <2>2, SpoiledGrows
    <3>3. AnswersOf[c] = answers[c] /\ Service!Asked(c) = peer[c].sent \div Frags
      BY <3>2 DEF AnswersOf, Spoiled, Service!Asked
    <3> QED BY <3>1, <3>3
  <2> QED BY <2>1, <2>2
<1>5. ServicePhase \in {"serving", "draining"}
  BY <1>0, HandlerFrame
<1>6. Service!Give(c, n)
  BY <1>3, <1>4, <1>5 DEF Service!Give, AnswersOf, AcceptedOf
<1> QED BY <1>2, <1>6 DEF ServeStep, Service!ServiceNext

LEMMA HandledTake ==
    ASSUME FullInv, [Next]_vars, OnRequest, Pool!Accept(RequestOf(Ev.src)), conns[Ev.src].got < Frags,
           NEW fd \in Fds, NEW l, Commits(fd, l)
    PROVE  ServeStep
<1>0. CoreInv /\ BusyInv /\ TurnInv /\ Handler
  BY DEF FullInv, LifeInv, AnswerInv, Handler
<1>1. fd = Ev.src /\ Open(fd) /\ ~conns[fd].moved /\ RequestOf(fd) \in Requests /\ ~Answer
  <2>1. fd = Ev.src
    BY <1>0, HandledClient
  <2> QED BY <1>0, <2>1, OnRequestCases, AnswerAlone DEF OnRequest, CoreInv, TablePart
<1>2. PICK c \in Clients : c = sock[fd]
  BY <1>0, CommitFacts
<1>3. PICK r \in Requests : r = RequestOf(fd)
  BY <1>1
<1>4. r = <<c, Service!Asked(c)>>
  BY <1>2, <1>3 DEF RequestOf, Service!Asked
<1>5. status[r] = "new" /\ AcceptedOf' = AcceptedOf \cup {r}
  <2>1. PICK q \in {"pending", "late"} : status[r] = "new" /\ status' = [status EXCEPT ![r] = q]
    BY <1>1, <1>3 DEF Pool!Accept
  <2>2. status \in [Requests -> Pool!ServiceStatus]
    BY <1>0 DEF CoreInv, TaskTypes
  <2> QED BY <2>1, <2>2 DEF AcceptedOf
<1>6. conns[fd].resp = NoReq
  BY <1>0, <1>1, IdleEmpty DEF Idle
<1>7. Len(l.wrote) = 0
  <2>1. ASSUME NEW a, NEW n, Writes(fd, l, a, n) PROVE FALSE
    BY <1>1, <1>6, <2>1 DEF Writes, From, TakenAt
  <2>2. Keeps(fd, l)
    BY <1>0, <2>1, Effects
  <2> QED BY <2>2 DEF Keeps
<1>8. Service!Besides(c) /\ Service!Receive(c, 0)
  BY <1>0, <1>2, <1>7, HandledBesides, HandledReceive
<1>9. Service!Garbled(c)' \/ Len(AnswersOf[c]) = Pieces * (Service!Asked(c) - 1)
  <2>1. CASE Spoiled(c)'
    BY <2>1 DEF Spoiled, Service!Garbled
  <2>2. CASE ~Spoiled(c)'
    <3>1. ~Spoiled(c)
      BY <2>2, SpoiledGrows
    <3>2. PICK k \in Nat : Turn(fd, k)
      BY <1>0, <1>1, <1>2, <3>1 DEF TurnInv
    <3>3. AskedAt(Node(fd), r)
      BY <1>1, <1>3 DEF AskedAt
    <3>4. r = <<c, k + 1>>
      BY <1>0, <1>1, <1>2, <3>2, <3>3, AskedInTurn
    <3>5. Service!Asked(c) = k + 1
      BY <1>4, <3>4
    <3>6. Len(answers[c]) = Pieces * k
      BY <1>2, <1>6, <3>2, IoAssumption DEF Turn
    <3>7. AnswersOf[c] = answers[c]
      BY <3>1 DEF AnswersOf, Spoiled
    <3> QED BY <3>5, <3>6, <3>7
  <2> QED BY <2>1, <2>2
<1>10. ServicePhase = "serving"
  BY <1>0, HandlerFrame
<1>11. <<c, Service!Asked(c)>> \notin AcceptedOf /\ AcceptedOf' = AcceptedOf \cup {<<c, Service!Asked(c)>>}
  BY <1>4, <1>5 DEF AcceptedOf
<1>12. Service!Take(c)
  BY <1>8, <1>9, <1>10, <1>11 DEF Service!Take, AnswersOf, AcceptedOf
<1> QED BY <1>12 DEF ServeStep, Service!ServiceNext

LEMMA HandlerServe == ASSUME FullInv, [Next]_vars, Handler PROVE ServeStep
<1>0. CoreInv /\ status \in [Requests -> Pool!ServiceStatus]
  BY DEF FullInv, CoreInv, TaskTypes
<1>1. ASSUME NEW fd \in Fds, NEW l, Commits(fd, l) PROVE ServeStep
  <2>1. CASE UNCHANGED status
    BY <1>1, <2>1, HandledGive DEF AcceptedOf
  <2>2. CASE OnRequest
    <3>1. Ev.src \in Fds /\ RequestOf(Ev.src) \in Requests
      BY <1>0, <2>2, OnRequestCases DEF CoreInv, TablePart
    <3>2. \/ UNCHANGED taskVars
          \/ Pool!Refuse(RequestOf(Ev.src))
          \/ Pool!Accept(RequestOf(Ev.src)) /\ conns[Ev.src].got < Frags
      BY <2>2 DEF OnRequest, RequestOf
    <3>3. CASE UNCHANGED taskVars
      BY <2>1, <3>3 DEF taskVars, poolVars
    <3>4. CASE Pool!Refuse(RequestOf(Ev.src))
      <4>1. PICK r \in Requests : status[r] = "new" /\ status' = [status EXCEPT ![r] = "refused"]
        BY <3>1, <3>4 DEF Pool!Refuse
      <4>2. UNCHANGED AcceptedOf
        BY <1>0, <4>1 DEF AcceptedOf
      <4> QED BY <1>1, <4>2, HandledGive
    <3> QED BY <1>1, <2>2, <3>2, <3>3, <3>4, HandledTake
  <2> QED BY <1>0, <2>1, <2>2, HandlerFrame
<1>2. CASE Answer /\ UNCHANGED tableVars
  <2>1. UNCHANGED <<peer, backlog, answers, status, failed, inherited, io, draining>>
    BY <1>2 DEF Answer, tableVars, netVars, taskVars, poolVars, ghostVars
  <2> QED BY <2>1, SameServed, SameLinks, Stutters
<1> QED BY <1>0, <1>1, <1>2, HandlerStep DEF Commits

LEMMA TickServe == ASSUME Tick \/ EpollWait PROVE ServeStep
<1>1. UNCHANGED <<peer, backlog, answers, status, failed, inherited, draining>>
  BY DEF Tick, EpollWait, netVars, taskVars, poolVars, ghostVars, loopVars
<1>2. UNCHANGED ServicePhase
  <2>1. CASE Tick
    BY <2>1 DEF Tick, loopVars, ServicePhase
  <2>2. CASE EpollWait
    BY <1>1, <2>2 DEF EpollWait, AfterEvent, ServicePhase
  <2> QED BY <2>1, <2>2
<1>3. UNCHANGED servedVars
  BY <1>1, <1>2 DEF servedVars, AnswersOf, AcceptedOf
<1>4. UNCHANGED <<LinkOf, SentOf, ResetOf>>
  BY <1>1, SameLinks
<1> QED BY <1>1, <1>3, <1>4, Stutters

\* Once nothing is unfinished and no response is on its way, every accepted
\* request has been answered, or is one of those that may go without.
LEMMA AllDelivered ==
    ASSUME CoreInv, AnswerInv, Pool!UnfinishedTasks = {}, respq = <<>>, found = <<>>,
           NEW r \in Requests, TookOn(r)
    PROVE  \/ r[2] <= Received(r[1])
           \/ peer[r[1]].st = "closed"
           \/ r[1] \in SlowClients /\ \E fd \in Fds : sock[fd] = r[1] /\ conns[fd].resp = r
<1>1. ASSUME NEW fd \in Fds PROVE TasksFor(fd) = {} /\ RequestsOf(Node(fd)) = {}
  <2>1. TasksFor(fd) = {}
    BY DEF TasksFor, Pool!UnfinishedTasks
  <2>2. Len(Waiting) = 0
    BY WaitingFacts DEF CoreInv
  <2> QED BY <2>1, <2>2 DEF RequestsOf, QueuedOf
<1>2. ASSUME NEW fd \in Fds, OwedAt(fd, r)
      PROVE  r[1] \in SlowClients /\ sock[fd] = r[1] /\ conns[fd].resp = r
  <2>1. sock[fd] = r[1] /\ conns[fd].resp = r
    BY <1>1, <1>2 DEF OwedAt
  <2>2. r[1] \in Clients /\ r # NoReq
    BY ModelValuesAssumption DEF Requests
  <2> QED BY <2>1, <2>2 DEF AnswerInv, ClientInv
<1> QED BY <1>2 DEF AnswerInv, DeliveryInv, TookOn

LEMMA EndServe == ASSUME FullInv, DrainQueue PROVE ServeStep
<1>1. io = "queue" /\ UNCHANGED <<peer, backlog, answers, status, failed, inherited, draining>>
      /\ io' = IF respq # <<>> THEN "collect" ELSE "done"
  BY DEF DrainQueue, othersThanLoop, netVars, taskVars, poolVars, ghostVars
<1>2. draining /\ Pool!UnfinishedTasks = {} /\ found = <<>>
  BY <1>1 DEF FullInv, CoreInv, Control, ControlInv, DrainInv, InHandInv
<1>3. UNCHANGED <<LinkOf, SentOf, ResetOf>> /\ UNCHANGED <<AnswersOf, AcceptedOf>>
  BY <1>1, SameLinks DEF AnswersOf, AcceptedOf
<1>4. CASE respq # <<>>
  <2>1. UNCHANGED ServicePhase
    BY <1>1, <1>4 DEF ServicePhase
  <2> QED BY <1>1, <1>3, <2>1, Stutters DEF servedVars
<1>5. CASE respq = <<>>
  <2>1. ServicePhase = "draining" /\ ServicePhase' = "stopped"
    BY <1>1, <1>2, <1>5 DEF ServicePhase
  <2>2. ASSUME NEW r \in AcceptedOf \ failed, r[1] \notin ResetOf \cup SlowClients \cup inherited
        PROVE  Pieces * r[2] <= Len(AnswersOf[r[1]])
    <3>1. r \in Requests /\ TookOn(r) /\ r[1] \in Clients
      BY <2>2 DEF AcceptedOf, TookOn, Requests
    <3>2. r[2] <= Received(r[1]) \/ peer[r[1]].st = "closed"
      BY <1>2, <1>5, <2>2, <3>1, AllDelivered DEF FullInv
    <3>3. r[2] <= Received(r[1])
      BY <2>2, <3>1, <3>2 DEF FullInv, ServeInv, ClosedInv, ResetOf
    <3>4. AnswersOf[r[1]] = answers[r[1]]
      BY <2>2, <3>1 DEF AnswersOf
    <3>5. PICK x \in Nat, n \in Nat : x = r[2] /\ n = Len(answers[r[1]])
      BY <3>1, IoAssumption DEF Requests, FullInv, CoreInv, NetTypes
    <3>6. x <= n \div Pieces
      BY <3>3, <3>5 DEF Received
    <3> QED BY <3>4, <3>5, <3>6, WholePieces
  <2>3. Service!End
    BY <1>1, <1>3, <2>1, <2>2
       DEF Service!End, Service!Answered, LinkOf, SentOf, ResetOf, AnswersOf, AcceptedOf
  <2> QED BY <2>3 DEF ServeStep, Service!ServiceNext
<1> QED BY <1>4, <1>5

LEMMA StopServe == ASSUME FullInv, TestRunning PROVE ServeStep
<1>1. io = "test" /\ UNCHANGED <<peer, backlog, answers, status, failed, inherited>>
      /\ io' = (IF running THEN "wait" ELSE "tasks") /\ draining' = ~running
  BY DEF TestRunning, othersThanLoop, netVars, taskVars, poolVars, ghostVars
<1>2. UNCHANGED <<LinkOf, SentOf, ResetOf>> /\ UNCHANGED <<AnswersOf, AcceptedOf>>
  BY <1>1, SameLinks DEF AnswersOf, AcceptedOf
<1>3. ServicePhase = "serving" /\ ServicePhase' = IF running THEN "serving" ELSE "draining"
  BY <1>1 DEF ServicePhase, FullInv, CoreInv, Control
<1>4. CASE running
  BY <1>1, <1>2, <1>3, <1>4, Stutters DEF servedVars
<1>5. CASE ~running
  <2>1. Service!Stop
    BY <1>1, <1>2, <1>3, <1>5
       DEF Service!Stop, LinkOf, SentOf, ResetOf, AnswersOf, AcceptedOf
  <2> QED BY <2>1 DEF ServeStep, Service!ServiceNext
<1> QED BY <1>4, <1>5

LEMMA DieServe == ASSUME FullInv, [Next]_vars, ReadMovedParser PROVE ServeStep
<1>1. io = "event" /\ ~draining /\ io' = "crashed" /\ Ev.src \in Fds /\ Open(Ev.src)
      /\ UNCHANGED <<peer, backlog, answers, status, failed, inherited, sock, batch>>
  BY DEF ReadMovedParser, othersThanLoop, netVars, taskVars, poolVars, ghostVars
<1>2. UNCHANGED <<LinkOf, SentOf, ResetOf>> /\ UNCHANGED <<AnswersOf, AcceptedOf>>
  BY <1>1, SameLinks DEF AnswersOf, AcceptedOf
<1>3. ServicePhase = "serving" /\ ServicePhase' = "dead"
  BY <1>1 DEF ServicePhase
<1>4. sock[Ev.src] \in inherited
  <2>1. CrashInv'
    BY FullStep DEF FullInv, LifeInv
  <2> QED BY <1>1, <2>1 DEF CrashInv, Ev
<1>5. PICK c \in Clients : c \in inherited /\ peer[c].st = "open"
  <2>1. inherited \subseteq Clients
    BY DEF FullInv, CoreInv, LoopTypes
  <2> QED BY <1>1, <1>4, <2>1 DEF FullInv, CoreInv, TableInv
<1>6. \E d \in inherited : LinkOf[d] = "open"
  BY <1>5 DEF LinkOf
<1>7. Service!Die
  BY <1>1, <1>2, <1>3, <1>6 DEF Service!Die, LinkOf, SentOf, ResetOf, AnswersOf, AcceptedOf
<1> QED BY <1>7 DEF ServeStep, Service!ServiceNext

LEMMA WorkersServe ==
    ASSUME FullInv, WorkerStart \/ \E r \in Requests : WorkerStep(r)
    PROVE  ServeStep
<1>0. status \in [Requests -> Pool!ServiceStatus] /\ order \in Seq(Requests)
  BY DEF FullInv, CoreInv, TaskTypes
<1>1. UNCHANGED <<peer, backlog, answers, inherited, io, draining>>
  BY DEF WorkerStart, WorkerStep, WorkerPush, WorkerSignal, WorkerThrows, WorkerSettle,
     othersThanTasks, netVars, loopVars, ghostVars
<1>2. UNCHANGED <<LinkOf, SentOf, ResetOf>> /\ UNCHANGED <<AnswersOf, ServicePhase>>
  BY <1>1, SameLinks DEF AnswersOf, ServicePhase
<1>3. ASSUME NEW r \in Requests, NEW s, status[r] \notin {"new", "refused"}, s \notin {"new", "refused"},
             status' = [status EXCEPT ![r] = s]
      PROVE  UNCHANGED AcceptedOf
  BY <1>0, <1>3 DEF AcceptedOf
<1>4. CASE WorkerStart
  <2>1. order # <<>> /\ status' = [status EXCEPT ![Head(order)] = "running"] /\ failed' = failed
    BY <1>4 DEF WorkerStart, Pool!Start, othersThanTasks, ghostVars
  <2>2. Head(order) = order[1] /\ 1 \in 1..Len(order) /\ order[1] \in Requests
    BY <1>0, <2>1, HeadTailProperties
  <2>3. PICK r \in Requests : r = Head(order) /\ status[r] \in {"pending", "late"}
    BY <2>2 DEF FullInv, CoreInv, TaskInv
  <2>4. UNCHANGED AcceptedOf
    <3>1. status' = [status EXCEPT ![r] = "running"] /\ status[r] \notin {"new", "refused"}
      BY <2>1, <2>3
    <3> QED BY <1>3, <3>1
  <2> QED BY <1>1, <1>2, <2>1, <2>4, Stutters DEF servedVars
<1>5. ASSUME NEW r \in Requests, WorkerPush(r) \/ WorkerSignal(r) \/ WorkerSettle(r) PROVE ServeStep
  <2>1. failed' = failed /\ \/ UNCHANGED status
                            \/ status[r] = "running" /\ status' = [status EXCEPT ![r] = "ran"]
                            \/ status[r] = "ran" /\ status' = [status EXCEPT ![r] = "done"]
    BY <1>5 DEF WorkerPush, WorkerSignal, WorkerSettle, Pool!Finish, Pool!Settle, othersThanTasks,
       poolVars, ghostVars
  <2>2. UNCHANGED AcceptedOf
    BY <1>3, <2>1 DEF AcceptedOf
  <2> QED BY <1>1, <1>2, <2>1, <2>2, Stutters DEF servedVars
<1>6. ASSUME NEW r \in Requests, WorkerThrows(r) PROVE ServeStep
  <2>1. /\ status[r] = "running" /\ status' = [status EXCEPT ![r] = "ran"]
        /\ failed' = failed \cup {r}
    BY <1>6 DEF WorkerThrows, Pool!Finish
  <2>2. UNCHANGED AcceptedOf
    BY <1>3, <2>1
  <2>3. r \in AcceptedOf \ failed
    BY <2>1 DEF AcceptedOf, FullInv, LifeInv, PastInv
  <2>4. Service!Throw(r)
    BY <1>1, <1>2, <2>1, <2>2, <2>3
       DEF Service!Throw, LinkOf, SentOf, ResetOf, AnswersOf, AcceptedOf
  <2> QED BY <2>3, <2>4 DEF ServeStep, Service!ServiceNext, AcceptedOf
<1> QED BY <1>4, <1>5, <1>6 DEF WorkerStep

LEMMA QuietServe == ASSUME FullInv, [Next]_vars, Quiet PROVE ServeStep
<1>0. UNCHANGED <<peer, backlog, answers>>
  BY QuietTable DEF tableVars, netVars
<1>1. ASSUME UNCHANGED <<status, failed, inherited, draining>>, UNCHANGED ServicePhase PROVE ServeStep
  <2>1. UNCHANGED servedVars
    BY <1>0, <1>1 DEF servedVars, AnswersOf, AcceptedOf
  <2> QED BY <1>0, <2>1, SameLinks, Stutters
<1>2. CASE OnConnect \/ AcceptEnds \/ UnknownFd \/ ReadEventFd \/ Collect \/ Answered \/ DrainTasks \/ DrainSpecial
  <2>1. UNCHANGED <<status, failed, inherited, draining>>
    BY <1>2 DEF OnConnect, AcceptEnds, UnknownFd, ReadEventFd, Collect, Answered, DrainTasks, DrainSpecial,
       othersThanLoop, taskVars, poolVars, ghostVars
  <2>2. io \notin {"done", "crashed"} /\ io' \notin {"done", "crashed"}
    BY <1>2 DEF OnConnect, AcceptEnds, UnknownFd, ReadEventFd, Collect, Answered, DrainTasks, DrainSpecial,
       AfterEvent, Handling
  <2> QED BY <1>1, <2>1, <2>2 DEF ServicePhase
<1>3. CASE StopRunning \/ MainStep \/ UNCHANGED vars
  <2>1. UNCHANGED <<failed, inherited, draining, io>>
    BY <1>3 DEF StopRunning, MainStep, StopResponseQueue, CloseDescriptors, StopPool, othersThanMain, loopVars,
       ghostVars, vars
  <2>2. UNCHANGED status
    BY <1>3 DEF StopRunning, MainStep, StopResponseQueue, CloseDescriptors, StopPool, Pool!Close, Pool!GoDown,
       poolVars, taskVars, vars
  <2> QED BY <1>1, <2>1, <2>2 DEF ServicePhase
<1> QED BY <1>2, <1>3, EndServe, StopServe, DieServe, WorkersServe DEF Quiet

LEMMA NextServe == ASSUME FullInv, [Next]_vars PROVE ServeStep
<1>1. CASE \E c \in Clients : ClientStep(c)
  BY <1>1, ClientServe DEF FullInv
<1> QED BY <1>1, TickServe, AcceptServe, TimerServe, HandlerServe, QuietServe, NextCases

LEMMA ServedInit == ASSUME Init PROVE Service!ServiceInit
<1>1. ServicePhase = "serving"
  BY DEF Init, ServicePhase
<1> QED BY <1>1 DEF Init, Service!ServiceInit, Pool!ServiceInit

\* When the drain loop ends, each request the pool accepted has been answered
\* whole, unless its connection was closed, its task threw or its client did not
\* take the response at once.
THEOREM DrainDeliversAll == Safety => []DrainDelivers
<1>1. CoreInv /\ ControlInv /\ AnswerInv => DrainDelivers
  <2> SUFFICES ASSUME CoreInv, ControlInv, AnswerInv, io = "done" PROVE DrainDelivers
    BY DEF DrainDelivers
  <2>1. /\ Pool!UnfinishedTasks = {} /\ unsignalled = {} /\ respq = <<>> /\ found = <<>>
    BY DEF CoreInv, ControlInv, DrainInv, InHandInv, TaskInv, TaskTypes, Pool!UnfinishedTasks
  <2> QED BY <2>1, AllDelivered DEF DrainDelivers, DrainComplete, TookOn
<1> QED BY <1>1, AnswerInvariant, PTL

\* The inductive invariant of the refinement: among the rest, whoever is left with
\* an accepted request unanswered has reset the connection, is slow, or was handed
\* another's event.
THEOREM ServeInvariant == Safety => []FullInv
<1>1. Init => ServeInv
  BY ServeInit
<1>2. FullInv /\ [Next]_vars => FullInv'
  BY FullStep
<1>3. CoreInv /\ ControlInv /\ LifeInv /\ AnswerInv /\ ServeInv => FullInv
  BY DEF FullInv
<1> QED BY <1>1, <1>2, <1>3, AnswerInvariant, PTL DEF Safety

\* What clients see of an I/O worker is what HttpService promises them: every step
\* of the loop, the workers and the clients is one step of HttpService, or none.
THEOREM RefinesHttpService == Safety => ImplementsHttpService
<1>1. Init => Service!ServiceInit
  BY ServedInit
<1>2. FullInv /\ [Next]_vars => [Service!ServiceNext]_(Service!serviceVars)
  BY NextServe DEF ServeStep
<1>3. Safety => Service!ServiceInit /\ [][Service!ServiceNext]_(Service!serviceVars)
  BY <1>1, <1>2, ServeInvariant, PTL DEF Safety
<1> QED BY <1>3 DEF ImplementsHttpService, Service!ServiceSafety
=============================================================================
