---------------------------- MODULE IoWorkerProofs ----------------------------
(***************************************************************************)
(* Proofs about IoWorker, for every set of clients and descriptors, every  *)
(* number of fragments and pieces and every bound.                         *)
(*                                                                         *)
(* CoreInv is the inductive invariant under everything else: the types,    *)
(* the connection table with the kernel's side of it, the control state of *)
(* the I/O thread and the tasks of the pool.                               *)
(***************************************************************************)
EXTENDS IoWorker, FiniteSetTheorems, FunctionTheorems, SequenceTheorems, TLAPS

Nodes == [fd : Fds, id : Nat]
PieceSet == Requests \X (1..Pieces)
RegStates == {"none", "off", "in", "out"}

PeerType ==
    [st : {"new", "backlog", "open", "closed"}, sent : Nat, unread : Nat,
     fin : BOOLEAN, rst : BOOLEAN, room : 0..Pieces]

FdEvents == [src : Fds, of : Clients, in : BOOLEAN, out : BOOLEAN, rdhup : BOOLEAN, hup : BOOLEAN]
Events == FdEvents \cup [src : SpecialSources]

NetTypes ==
    /\ peer \in [Clients -> PeerType]
    /\ answers \in [Clients -> Seq(PieceSet)]
    /\ backlog \in Seq(Clients) /\ edge \in BOOLEAN
    /\ sock \in [Fds -> Clients \cup {NoClient}] /\ reg \in [Fds -> RegStates]
    /\ now \in 0..MaxClock /\ tick \in BOOLEAN

ConnTypes ==
    /\ conns \in [Fds -> ConnType \cup {NoConn}]
    /\ timeouts \in Seq(Nodes) /\ nextId \in Nat /\ gauge \in Int

LoopTypes ==
    /\ io \in IoPlaces /\ draining \in BOOLEAN /\ batch \in Seq(Events)
    /\ found \in Seq(Items) /\ respq \in Seq(Items) /\ event \in BOOLEAN
    /\ running \in BOOLEAN /\ main \in {"serving", "flagged", "joining", "closing", "destroyed"}
    /\ inherited \subseteq Clients /\ halted \in BOOLEAN /\ failed \subseteq Requests

TaskTypes ==
    /\ status \in [Requests -> Pool!ServiceStatus] /\ order \in Seq(Requests)
    /\ phase \in {"open", "closed", "down"}
    /\ origin \in [Requests -> Nodes \cup {NoReq}] /\ unsignalled \subseteq Requests

\* Where the I/O thread can be, and that it has an event in hand when it handles one.
Control ==
    /\ io \in {"event", "accept", "crashed"} => batch # <<>>
    /\ io \in {"collect", "answer"} /\ ~draining => batch # <<>>
    /\ io \in {"test", "accept", "crashed"} => ~draining
    /\ io \in {"tasks", "queue", "done"} => draining

OpenFds == {fd \in Fds : Open(fd)}
Accepted == {c \in Clients : peer[c].st \in {"open", "closed"}}

\* The table agrees with the kernel: ConnectionTable but for the gauge, and that
\* no client is behind two descriptors.
TableInv ==
    /\ \A fd \in Fds : /\ Open(fd) <=> sock[fd] # NoClient
                       /\ Open(fd) <=> reg[fd] # "none"
                       /\ Open(fd) => conns[fd].id <= nextId /\ peer[sock[fd]].st = "open"
    /\ \A f, g \in Fds : Open(f) /\ Open(g) /\ f # g =>
                            conns[f].id # conns[g].id /\ sock[f] # sock[g]

\* The clients in the listen queue, each once.
BacklogInv ==
    /\ \A i \in 1..Len(backlog) : peer[backlog[i]].st = "backlog"
    /\ \A i, j \in 1..Len(backlog) : backlog[i] = backlog[j] => i = j

\* The metric and the connection counter count what they say they count.
CountInv == gauge = Cardinality(OpenFds) /\ nextId = Cardinality(Accepted)

\* A parser has read no more than its client has sent; activity is in the past.
ReadInv ==
    /\ \A c \in Clients : peer[c].unread <= peer[c].sent /\ peer[c].sent <= Frags * MaxRequests
    /\ \A fd \in Fds : Open(fd) => /\ conns[fd].got + peer[sock[fd]].unread <= peer[sock[fd]].sent
                                   /\ conns[fd].last <= now

\* Each open connection's node is in the timeout list.
ListedInv == \A fd \in Fds : Open(fd) => \E i \in 1..Len(timeouts) : timeouts[i] = Node(fd)

\* The tasks of the pool: what waits in order is waiting, what was accepted has
\* captured its connection, and only a running task can owe a signal.
TaskInv ==
    /\ \A i \in 1..Len(order) : status[order[i]] \in {"pending", "late"}
    /\ \A i, j \in 1..Len(order) : order[i] = order[j] => i = j
    /\ \A r \in Requests : status[r] \notin {"new", "refused"} =>
                               origin[r] \in Nodes /\ origin[r].id <= nextId
    /\ \A r \in unsignalled : status[r] = "running"

CoreInv ==
    /\ NetTypes /\ ConnTypes /\ LoopTypes /\ TaskTypes
    /\ Control /\ TableInv /\ BacklogInv /\ CountInv /\ ReadInv /\ ListedInv /\ TaskInv
-----------------------------------------------------------------------------
(* What the handlers leave in the record of a connection *)

Locals ==
    [conn : ConnType \cup {NoConn}, reg : RegStates, touched : BOOLEAN, read : BOOLEAN,
     wrote : Seq(PieceSet)]

\* A closed connection is no longer registered, and the other way round.
Local(l) == l \in Locals /\ (l.conn = NoConn <=> l.reg = "none")

LEMMA LocalConn ==
    ASSUME NEW l \in Locals, l.conn # NoConn
    PROVE  l.conn \in ConnType
  BY DEF Locals

LEMMA ConnNotNone == ASSUME NEW c \in ConnType PROVE c # NoConn
  BY ModelValuesAssumption

\* The record the handlers start from.
LEMMA HereFacts ==
    ASSUME NEW fd \in Fds, Open(fd), ConnTypes, NetTypes, TableInv
    PROVE  /\ Local(Here(fd)) /\ Here(fd).conn = conns[fd] /\ Here(fd).reg = reg[fd]
           /\ ~Here(fd).touched /\ ~Here(fd).read
           /\ Here(fd).wrote = <<>> /\ conns[fd] \in ConnType
           /\ sock[fd] \in Clients /\ peer[sock[fd]] \in PeerType
<1>1. conns[fd] \in ConnType
  BY DEF ConnTypes, Open
<1>2. <<>> \in Seq(PieceSet)
  BY EmptySeq
<1>3. Here(fd) \in Locals
  BY <1>1, <1>2 DEF Here, Locals, NetTypes
<1>4. sock[fd] \in Clients
  BY DEF NetTypes, TableInv
<1>5. reg[fd] # "none" /\ conns[fd] # NoConn
  BY DEF TableInv, Open
<1> QED BY <1>1, <1>2, <1>3, <1>4, <1>5 DEF Here, Local, NetTypes

LEMMA ClosedFacts ==
    ASSUME NEW l \in Locals
    PROVE  /\ Local(Closed(l)) /\ Closed(l).conn = NoConn /\ Closed(l).reg = "none"
           /\ Closed(l).wrote = l.wrote /\ Closed(l).read = l.read
  BY DEF Closed, Local, Locals, RegStates

LEMMA TouchFacts ==
    ASSUME NEW l \in Locals, l.conn # NoConn, NetTypes
    PROVE  /\ Touch(l) \in Locals /\ Touch(l).touched
           /\ Touch(l).conn = [l.conn EXCEPT !.last = now]
           /\ Touch(l).conn \in ConnType
           /\ Touch(l).reg = l.reg /\ Touch(l).read = l.read /\ Touch(l).wrote = l.wrote
<1>1. l.conn \in ConnType
  BY LocalConn
<1>2. now \in Nat
  BY IoAssumption DEF NetTypes
<1>3. Touch(l) = [l EXCEPT !.conn = [l.conn EXCEPT !.last = now], !.touched = TRUE]
  BY DEF Touch, Locals
<1>4. [l.conn EXCEPT !.last = now] \in ConnType
  BY <1>1, <1>2 DEF ConnType
<1> QED BY <1>3, <1>4 DEF Locals

\* What the parser of connection c has when it has read all that socket p has.
GotAfter(c, p) == IF c.got + p.unread > Frags THEN Frags ELSE c.got + p.unread

\* handle_socket_read: the parser has got more, or the connection is closed.
LEMMA SocketReadFacts ==
    ASSUME NEW l, Local(l), l.conn # NoConn, NEW p \in PeerType, NetTypes
    PROVE  LET t == SocketRead(l, p)
               g == GotAfter(l.conn, p)
           IN  /\ Local(t) /\ t.wrote = l.wrote
               /\ t.conn # NoConn =>
                    /\ t.read /\ t.touched /\ t.reg = l.reg /\ ~p.rst
                    /\ t.conn = [l.conn EXCEPT !.got = g, !.last = now, !.caw = @ \/ p.fin]
                    /\ p.fin => g = Frags
<1> DEFINE g == GotAfter(l.conn, p)
           u == Touch(l)
           t == [u EXCEPT !.conn = [u.conn EXCEPT !.got = g], !.read = TRUE]
<1>1. l \in Locals /\ l.conn \in ConnType
  BY LocalConn DEF Local
<1>2. u \in Locals /\ u.conn = [l.conn EXCEPT !.last = now] /\ u.conn \in ConnType
      /\ u.reg = l.reg /\ u.wrote = l.wrote /\ u.touched
  BY <1>1, TouchFacts
<1>3. g \in 0..Frags /\ u.conn.got = l.conn.got
  BY <1>1, <1>2, IoAssumption DEF ConnType, PeerType, GotAfter
<1> HIDE DEF u, g
<1>4. t.conn = [u.conn EXCEPT !.got = g] /\ t.conn \in ConnType /\ t \in Locals
      /\ t.reg = l.reg /\ t.wrote = l.wrote /\ t.read /\ t.touched /\ t.conn.got = g
      /\ t.conn.caw = l.conn.caw
  BY <1>1, <1>2, <1>3 DEF Locals, ConnType
<1>5. SocketRead(l, p) = IF p.rst \/ (p.fin /\ t.conn.got < Frags) THEN Closed(t)
                         ELSE [t EXCEPT !.conn = [t.conn EXCEPT !.caw = l.conn.caw \/ p.fin]]
  BY <1>1, <1>2, <1>3, <1>4 DEF SocketRead, u, g, GotAfter, Locals, ConnType
<1> HIDE DEF t
<1> DEFINE w == [t EXCEPT !.conn = [t.conn EXCEPT !.caw = l.conn.caw \/ p.fin]]
<1>6. CASE p.rst \/ (p.fin /\ t.conn.got < Frags)
  BY <1>4, <1>5, <1>6, ClosedFacts
<1>7. CASE ~(p.rst \/ (p.fin /\ t.conn.got < Frags))
  <2>1. SocketRead(l, p) = w
    BY <1>5, <1>7
  <2>2. w.conn \in ConnType /\ w \in Locals /\ w.reg = l.reg /\ w.wrote = l.wrote /\ w.read /\ w.touched
    BY <1>1, <1>4 DEF Locals, ConnType, PeerType
  <2>3. w.conn = [l.conn EXCEPT !.got = g, !.last = now, !.caw = @ \/ p.fin]
    <3>1. w.conn = [t.conn EXCEPT !.caw = l.conn.caw \/ p.fin]
      BY <1>4 DEF Locals
    <3>2. t.conn = [l.conn EXCEPT !.last = now, !.got = g]
      BY <1>2, <1>4
    <3> HIDE DEF w
    <3> QED BY <1>1, <3>1, <3>2 DEF ConnType
  <2>4. p.fin => g = Frags
    BY <1>3, <1>4, <1>7, IoAssumption DEF PeerType
  <2>5. w.conn # NoConn /\ l.reg # "none"
    BY <2>2, ConnNotNone DEF Local
  <2> HIDE DEF w
  <2>6. Local(w)
    BY <2>2, <2>5 DEF Local
  <2> QED BY <2>1, <2>2, <2>3, <2>4, <2>6, <1>7 DEF g
<1> QED BY <1>6, <1>7

\* What handle_epoll_event does last: the connection is closed, or marked to be.
LEMMA HangupFacts ==
    ASSUME NEW l, Local(l), NEW ev \in FdEvents
    PROVE  LET h == Hangup(l, ev)
           IN  /\ Local(h) /\ h.wrote = l.wrote /\ h.read = l.read
               /\ h.conn # NoConn => /\ l.conn # NoConn /\ ~ev.hup
                                     /\ h.conn = [l.conn EXCEPT !.caw = @ \/ ev.rdhup]
                                     /\ h.conn \in ConnType
                                     /\ h.reg = l.reg /\ h.touched = l.touched
<1>1. CASE l.conn = NoConn
  BY <1>1 DEF Hangup
<1>2. CASE l.conn # NoConn /\ ev.hup
  BY <1>2, ClosedFacts DEF Hangup, Local
<1>3. CASE l.conn # NoConn /\ ~ev.hup
  <2> DEFINE c == [l.conn EXCEPT !.caw = l.conn.caw \/ ev.rdhup]
             h == [l EXCEPT !.conn = c]
  <2>1. l \in Locals /\ l.conn \in ConnType
    BY <1>3, LocalConn DEF Local
  <2>2. c \in ConnType /\ c # NoConn
    BY <2>1, ConnNotNone DEF ConnType, FdEvents
  <2>3. Hangup(l, ev) = h
    BY <1>3, <2>1 DEF Hangup, Locals
  <2> HIDE DEF c
  <2>4. h \in Locals /\ h.conn = c /\ h.reg = l.reg /\ h.wrote = l.wrote /\ h.read = l.read
        /\ h.touched = l.touched
    BY <2>1, <2>2 DEF Locals
  <2>5. Local(h)
    BY <1>3, <2>2, <2>4 DEF Local
  <2> HIDE DEF h
  <2> QED BY <1>3, <2>2, <2>3, <2>4, <2>5 DEF c
<1> QED BY <1>1, <1>2, <1>3

LEMMA FreshFacts ==
    ASSUME NEW id \in Nat, NetTypes
    PROVE  /\ Fresh(id) \in ConnType /\ Fresh(id) # NoConn /\ Fresh(id).id = id /\ Fresh(id).got = 0
           /\ Fresh(id).moved = FALSE /\ Fresh(id).resp = NoReq /\ Fresh(id).pos = 0
           /\ Fresh(id).caw = FALSE /\ Fresh(id).proc = FALSE /\ Fresh(id).last = now
<1>1. now \in Nat /\ 0 \in 0..Frags /\ 0 \in 0..Pieces
  BY IoAssumption DEF NetTypes
<1>2. Fresh(id) \in ConnType
  BY <1>1 DEF Fresh, ConnType
<1> QED BY <1>2, ConnNotNone DEF Fresh

\* The next n pieces of the response that connection c is writing.
Burst(c, n) == [i \in 1..n |-> <<c.resp, c.pos + i>>]

LEMMA BurstFacts ==
    ASSUME NEW c \in ConnType, c.resp # NoReq, NEW n \in Nat, c.pos + n <= Pieces
    PROVE  Burst(c, n) \in Seq(PieceSet) /\ Len(Burst(c, n)) = n
<1>1. \A i \in 1..n : <<c.resp, c.pos + i>> \in PieceSet
  BY IoAssumption DEF ConnType, PieceSet
<1>2. Burst(c, n) \in [1..n -> PieceSet]
  BY <1>1 DEF Burst
<1> QED BY <1>2

\* do_write: the connection was reset and is closed; or the socket is full and
\* the rest is to be written when it can be; or the whole response has gone out,
\* and the connection is closed or fresh.
WroteNothing(l, t, p) == p.rst /\ t.conn = NoConn /\ t.wrote = <<>>
WrotePart(l, t, p) ==
    /\ ~p.rst /\ l.conn.pos + p.room < Pieces
    /\ t.wrote = Burst(l.conn, p.room) /\ Len(t.wrote) = p.room
    /\ t.conn = [l.conn EXCEPT !.last = now, !.pos = l.conn.pos + p.room]
    /\ t.conn # NoConn /\ t.reg = "out" /\ t.touched /\ t.read = l.read
WroteRest(l, t, p) ==
    /\ ~p.rst /\ l.conn.pos + p.room >= Pieces
    /\ t.wrote = Burst(l.conn, Pieces - l.conn.pos) /\ Len(t.wrote) = Pieces - l.conn.pos
    /\ \/ l.conn.caw /\ t.conn = NoConn
       \/ /\ ~l.conn.caw /\ t.conn = Fresh(l.conn.id) /\ t.conn # NoConn
          /\ t.reg = "in" /\ t.touched /\ t.read = l.read

LEMMA DoWriteFacts ==
    ASSUME NEW l, Local(l), l.conn # NoConn, l.conn.resp # NoReq, l.wrote = <<>>,
           NEW p \in PeerType, NetTypes
    PROVE  LET t == DoWrite(l, p)
           IN  /\ Local(t) /\ Len(t.wrote) \in 0..p.room
               /\ WroteNothing(l, t, p) \/ WrotePart(l, t, p) \/ WroteRest(l, t, p)
<1> DEFINE u == Touch(l)
           rest == Pieces - l.conn.pos
           n == IF p.room < rest THEN p.room ELSE rest
           c == [u.conn EXCEPT !.pos = u.conn.pos + n]
           w == [u EXCEPT !.wrote = Burst(u.conn, n), !.conn = c]
<1>1. l \in Locals /\ l.conn \in ConnType
  BY LocalConn DEF Local
<1>2. u \in Locals /\ u.conn = [l.conn EXCEPT !.last = now] /\ u.conn \in ConnType
      /\ u.reg = l.reg /\ u.wrote = <<>> /\ u.touched /\ u.read = l.read
  BY <1>1, TouchFacts
<1> HIDE DEF u
<1>3. rest \in Nat /\ n \in 0..p.room /\ l.conn.pos + n <= Pieces /\ n \in Nat
  BY <1>1, IoAssumption DEF ConnType, PeerType
<1>4. u.conn.pos = l.conn.pos /\ u.conn.resp = l.conn.resp /\ u.conn.id = l.conn.id /\ u.conn.caw = l.conn.caw
  BY <1>1, <1>2 DEF ConnType
<1>5. Burst(u.conn, n) = Burst(l.conn, n) /\ Burst(l.conn, n) \in Seq(PieceSet) /\ Len(Burst(l.conn, n)) = n
  BY <1>1, <1>3, <1>4, BurstFacts DEF Burst
<1>6. c \in ConnType /\ c = [l.conn EXCEPT !.last = now, !.pos = l.conn.pos + n] /\ c # NoConn
      /\ c.id = l.conn.id /\ c.caw = l.conn.caw
  <2>1. l.conn.pos + n \in 0..Pieces
    BY <1>1, <1>3, IoAssumption DEF ConnType
  <2>2. c \in ConnType
    BY <1>2, <1>4, <2>1 DEF ConnType
  <2> QED BY <1>1, <1>2, <1>4, <2>2, ConnNotNone DEF ConnType
<1> HIDE DEF c, n
<1>7. w \in Locals /\ w.conn = c /\ w.wrote = Burst(l.conn, n) /\ w.reg = l.reg /\ w.touched /\ w.read = l.read
  BY <1>2, <1>5, <1>6 DEF Locals
<1>8. Write(u, n) = w
  BY <1>2 DEF Write, w, c, Burst, Locals
<1> HIDE DEF w
<1>9. CASE p.rst
  <2>1. DoWrite(l, p) = Closed(u)
    BY <1>9 DEF DoWrite, u
  <2> QED BY <2>1, <1>2, <1>9, ClosedFacts DEF WroteNothing, PeerType
<1>10. CASE ~p.rst /\ p.room < rest
  <2>1. n = p.room
    BY <1>10 DEF n
  <2>2. DoWrite(l, p) = Rearm(w, "out")
    <3>1. Write(Touch(l), p.room) = w
      BY <1>8, <2>1 DEF u
    <3>2. p.room \in Int /\ Pieces - l.conn.pos \in Int
      BY <1>1, IoAssumption DEF ConnType, PeerType
    <3>3. DoWrite(l, p) = Rearm(Write(Touch(l), p.room), "out")
      BY <1>10, <3>2 DEF DoWrite
    <3> QED BY <3>1, <3>3
  <2>3. Rearm(w, "out") \in Locals /\ Rearm(w, "out").reg = "out" /\ Rearm(w, "out").conn = c
        /\ Rearm(w, "out").wrote = w.wrote /\ Rearm(w, "out").touched /\ Rearm(w, "out").read = l.read
    BY <1>7 DEF Locals, RegStates, Rearm
  <2>4. l.conn.pos + p.room < Pieces
    BY <1>1, <1>10, IoAssumption DEF ConnType, PeerType
  <2> QED BY <1>3, <1>5, <1>6, <1>7, <1>10, <2>1, <2>2, <2>3, <2>4 DEF WrotePart, Local
<1>11. CASE ~p.rst /\ p.room >= rest
  <2>1. n = rest
    BY <1>1, <1>11, IoAssumption DEF n, ConnType, PeerType
  <2>2. DoWrite(l, p) = Sent(w)
    BY <1>11, <1>8, <2>1 DEF DoWrite, u
  <2>3. l.conn.pos + p.room >= Pieces
    BY <1>1, <1>11, IoAssumption DEF ConnType, PeerType
  <2>4. CASE l.conn.caw
    <3>1. DoWrite(l, p) = Closed(w)
      BY <1>6, <1>7, <2>2, <2>4 DEF Sent
    <3> QED BY <1>3, <1>5, <1>7, <1>11, <2>1, <2>3, <2>4, <3>1, ClosedFacts DEF WroteRest
  <2>5. CASE ~l.conn.caw
    <3> DEFINE f == [w EXCEPT !.conn = Fresh(l.conn.id), !.reg = "in"]
    <3>1. DoWrite(l, p) = f
      BY <1>6, <1>7, <2>2, <2>5 DEF Sent, Rearm, Locals
    <3>2. l.conn.id \in Nat
      BY <1>1 DEF ConnType
    <3>3. Fresh(l.conn.id) \in ConnType /\ Fresh(l.conn.id) # NoConn
      BY <3>2, FreshFacts
    <3>4. f \in Locals /\ f.conn = Fresh(l.conn.id) /\ f.reg = "in" /\ f.wrote = w.wrote
          /\ f.touched /\ f.read = l.read
      BY <1>7, <3>3 DEF Locals, RegStates
    <3> HIDE DEF f
    <3>5. Local(f)
      BY <3>3, <3>4 DEF Local
    <3>6. WroteRest(l, f, p)
      BY <1>7, <1>11, <1>5, <2>1, <2>3, <2>5, <3>3, <3>4 DEF WroteRest
    <3> QED BY <1>3, <1>5, <1>7, <3>1, <3>4, <3>5, <3>6
  <2> QED BY <2>4, <2>5
<1>12. p.rst \in BOOLEAN /\ p.room \in Nat
  BY IoAssumption DEF PeerType
<1> QED BY <1>3, <1>9, <1>10, <1>11, <1>12
-----------------------------------------------------------------------------
(* The timeout list *)

LEMMA WithoutFacts ==
    ASSUME timeouts \in Seq(Nodes), NEW e, \E i \in 1..Len(timeouts) : timeouts[i] = e
    PROVE  /\ Without(e) \in Seq(Nodes)
           /\ Len(Without(e)) = Len(timeouts) - 1
           /\ \E k \in 1..Len(timeouts) :
                /\ timeouts[k] = e
                /\ \A i \in 1..(Len(timeouts) - 1) :
                       Without(e)[i] = IF i < k THEN timeouts[i] ELSE timeouts[i + 1]
<1> DEFINE k == CHOOSE j \in 1..Len(timeouts) : timeouts[j] = e
           a == SubSeq(timeouts, 1, k - 1)
           b == SubSeq(timeouts, k + 1, Len(timeouts))
<1>1. k \in 1..Len(timeouts) /\ timeouts[k] = e /\ Len(timeouts) \in Nat
  OBVIOUS
<1>2. Without(e) = a \o b
  BY DEF Without
<1> HIDE DEF k
<1>3. a \in Seq(Nodes) /\ Len(a) = k - 1 /\ \A i \in 1..(k - 1) : a[i] = timeouts[i]
  BY <1>1
<1>4. b \in Seq(Nodes) /\ Len(b) = Len(timeouts) - k
      /\ \A i \in 1..(Len(timeouts) - k) : b[i] = timeouts[k + i]
  BY <1>1
<1> HIDE DEF a, b
<1>5. a \o b \in Seq(Nodes) /\ Len(a \o b) = Len(timeouts) - 1
  <2>1. a \o b \in Seq(Nodes) /\ Len(a \o b) = Len(a) + Len(b)
    BY <1>3, <1>4, ConcatProperties
  <2> QED BY <1>1, <1>3, <1>4, <2>1
<1>6. ASSUME NEW i \in 1..(Len(timeouts) - 1)
      PROVE  (a \o b)[i] = IF i < k THEN timeouts[i] ELSE timeouts[i + 1]
  <2>1. i \in 1..(Len(a) + Len(b))
    BY <1>1, <1>3, <1>4
  <2>2. (a \o b)[i] = IF i <= Len(a) THEN a[i] ELSE b[i - Len(a)]
    BY <1>3, <1>4, <2>1, ConcatProperties
  <2> QED BY <1>1, <1>3, <1>4, <2>1, <2>2
<1> QED BY <1>1, <1>2, <1>5, <1>6

\* Whatever the handlers did, the nodes of the other connections stay listed, and
\* so does the node of this one unless it was closed.
LEMMA TimeoutsAfterFacts ==
    ASSUME ConnTypes, ListedInv, NEW fd \in Fds, Open(fd), NEW l \in Locals
    PROVE  /\ TimeoutsAfter(fd, l) \in Seq(Nodes)
           /\ \A e : (\E i \in 1..Len(timeouts) : timeouts[i] = e)
                     /\ (l.conn # NoConn \/ e # Node(fd)) =>
                  \E i \in 1..Len(TimeoutsAfter(fd, l)) : TimeoutsAfter(fd, l)[i] = e
<1> DEFINE n == Node(fd)
           s == Without(n)
<1>1. timeouts \in Seq(Nodes) /\ Len(timeouts) \in Nat /\ n \in Nodes
  BY DEF ConnTypes, Node, Nodes, ConnType, Open
<1>2. \E i \in 1..Len(timeouts) : timeouts[i] = n
  BY DEF ListedInv
<1>3. s \in Seq(Nodes) /\ Len(s) = Len(timeouts) - 1
  BY <1>1, <1>2, WithoutFacts
<1>4. PICK k \in 1..Len(timeouts) :
        timeouts[k] = n /\ \A i \in 1..(Len(timeouts) - 1) :
                               s[i] = IF i < k THEN timeouts[i] ELSE timeouts[i + 1]
  BY <1>1, <1>2, WithoutFacts
<1>5. ASSUME NEW i \in 1..Len(timeouts), timeouts[i] # n
      PROVE  \E j \in 1..Len(s) : s[j] = timeouts[i]
  <2>1. CASE i < k
    <3>1. i \in 1..(Len(timeouts) - 1) /\ i \in 1..Len(s)
      BY <1>1, <1>3, <1>4, <2>1
    <3>2. s[i] = timeouts[i]
      BY <1>4, <2>1, <3>1
    <3> QED BY <3>1, <3>2
  <2>2. CASE i > k
    <3>1. i - 1 \in 1..(Len(timeouts) - 1) /\ ~(i - 1 < k) /\ (i - 1) + 1 = i
      BY <1>1, <1>4, <2>2
    <3>2. s[i - 1] = timeouts[i]
      BY <1>4, <3>1
    <3> QED BY <1>3, <3>1, <3>2
  <2> QED BY <1>1, <1>4, <1>5, <2>1, <2>2
<1> HIDE DEF n, s
<1>6. CASE l.conn = NoConn
  BY <1>3, <1>5, <1>6 DEF TimeoutsAfter, n, s
<1>7. CASE l.conn # NoConn /\ l.touched
  <2>1. TimeoutsAfter(fd, l) = Append(s, n)
    BY <1>7 DEF TimeoutsAfter, n, s
  <2>2. Append(s, n) \in Seq(Nodes) /\ Len(Append(s, n)) = Len(s) + 1 /\ Append(s, n)[Len(s) + 1] = n
        /\ \A i \in 1..Len(s) : Append(s, n)[i] = s[i]
    BY <1>1, <1>3, AppendProperties
  <2>3. ASSUME NEW i \in 1..Len(timeouts)
        PROVE  \E j \in 1..Len(Append(s, n)) : Append(s, n)[j] = timeouts[i]
    <3>1. CASE timeouts[i] = n
      BY <1>1, <1>3, <2>2, <3>1
    <3>2. CASE timeouts[i] # n
      <4>1. PICK j \in 1..Len(s) : s[j] = timeouts[i]
        BY <1>5, <3>2
      <4> QED BY <1>1, <1>3, <2>2, <4>1
    <3> QED BY <3>1, <3>2
  <2> QED BY <2>1, <2>2, <2>3
<1>8. CASE l.conn # NoConn /\ ~l.touched
  BY <1>1, <1>8 DEF TimeoutsAfter
<1> QED BY <1>6, <1>7, <1>8 DEF Locals
-----------------------------------------------------------------------------
(* What any handler of an event or of a response does to the table *)

\* l is what a handler may leave of the open connection of fd.
Handled(fd, l) ==
    /\ Open(fd) /\ Local(l)
    /\ Len(l.wrote) <= peer[sock[fd]].room
    /\ l.conn # NoConn =>
         /\ l.conn.id = conns[fd].id
         /\ l.conn.got + (IF l.read THEN 0 ELSE peer[sock[fd]].unread) <= peer[sock[fd]].sent
         /\ l.conn.last = IF l.touched THEN now ELSE conns[fd].last

\* The client's side of the socket after Commit.
PeerAfter(fd, l) ==
    LET p == peer[sock[fd]]
    IN  [p EXCEPT !.unread = IF l.read THEN 0 ELSE p.unread,
                  !.st = IF l.conn = NoConn THEN "closed" ELSE p.st,
                  !.room = IF p.room = Pieces THEN p.room ELSE p.room - Len(l.wrote)]

LEMMA CommitPeer ==
    ASSUME NetTypes, ConnTypes, TableInv, NEW fd \in Fds, NEW l, Handled(fd, l), Commit(fd, l)
    PROVE  /\ sock[fd] \in Clients /\ PeerAfter(fd, l) \in PeerType
           /\ peer' = [peer EXCEPT ![sock[fd]] = PeerAfter(fd, l)]
           /\ peer'[sock[fd]] = PeerAfter(fd, l)
           /\ PeerAfter(fd, l).sent = peer[sock[fd]].sent
           /\ PeerAfter(fd, l).st = (IF l.conn = NoConn THEN "closed" ELSE "open")
           /\ PeerAfter(fd, l).unread = IF l.read THEN 0 ELSE peer[sock[fd]].unread
<1> DEFINE c == sock[fd]
           p == peer[c]
<1>1. c \in Clients /\ p \in PeerType /\ p.st = "open"
  BY HereFacts DEF Handled, TableInv
<1>2. l.read \in BOOLEAN /\ Len(l.wrote) \in Nat /\ Len(l.wrote) <= p.room
  BY DEF Handled, Local, Locals
<1>3. p.room # Pieces => p.room - Len(l.wrote) \in 0..Pieces
  <2> DEFINE r == p.room
             k == Len(l.wrote)
  <2>1. r \in 0..Pieces /\ k \in Nat /\ k <= r /\ Pieces \in Nat
    BY <1>1, <1>2, IoAssumption DEF PeerType
  <2> HIDE DEF r, k
  <2>2. r - k \in 0..Pieces
    BY <2>1
  <2> QED BY <2>2 DEF r, k
<1>4. p.room \in 0..Pieces /\ p.unread \in Nat
  BY <1>1 DEF PeerType
<1> HIDE DEF c
<1>5. PeerAfter(fd, l) \in PeerType
  <2> DEFINE u == IF l.read THEN 0 ELSE p.unread
             s == IF l.conn = NoConn THEN "closed" ELSE p.st
             r == IF p.room = Pieces THEN p.room ELSE p.room - Len(l.wrote)
  <2>1. u \in Nat /\ s \in {"new", "backlog", "open", "closed"} /\ r \in 0..Pieces
    BY <1>1, <1>3, <1>4
  <2>2. PeerAfter(fd, l) = [p EXCEPT !.unread = u, !.st = s, !.room = r]
    BY DEF PeerAfter, c
  <2> HIDE DEF u, s, r
  <2> QED BY <1>1, <2>1, <2>2 DEF PeerType
<1>6. peer' = [peer EXCEPT ![c] = PeerAfter(fd, l)]
  <2>1. peer' = [peer EXCEPT ![c].unread = IF l.read THEN 0 ELSE @,
                             ![c].st = IF l.conn = NoConn THEN "closed" ELSE @,
                             ![c].room = IF @ = Pieces THEN @ ELSE @ - Len(l.wrote)]
    BY DEF Commit, c
  <2>2. PeerAfter(fd, l) = [p EXCEPT !.unread = IF l.read THEN 0 ELSE p.unread,
                                     !.st = IF l.conn = NoConn THEN "closed" ELSE p.st,
                                     !.room = IF p.room = Pieces THEN p.room ELSE p.room - Len(l.wrote)]
    BY DEF PeerAfter, c
  <2>3. c \in DOMAIN peer
    BY <1>1 DEF NetTypes
  <2> QED BY <1>1, <2>1, <2>2, <2>3 DEF NetTypes, PeerType
<1>7. PeerAfter(fd, l).sent = p.sent /\ PeerAfter(fd, l).st = (IF l.conn = NoConn THEN "closed" ELSE "open")
      /\ PeerAfter(fd, l).unread = IF l.read THEN 0 ELSE p.unread
  BY <1>1 DEF PeerAfter, PeerType, c
<1> QED BY <1>1, <1>5, <1>6, <1>7 DEF NetTypes, c

TablePart == NetTypes /\ ConnTypes /\ TableInv /\ BacklogInv /\ CountInv /\ ReadInv /\ ListedInv

\* A handler's effect on its connection keeps the table, the counts and the list.
LEMMA CommitTable ==
    ASSUME TablePart, NEW fd \in Fds, NEW l, Handled(fd, l), Commit(fd, l), UNCHANGED clockVars
    PROVE  TablePart'
<1> DEFINE c == sock[fd]
           q == PeerAfter(fd, l)
<1> USE DEF TablePart
<1>1. c \in Clients /\ peer[c] \in PeerType /\ conns[fd] \in ConnType /\ q \in PeerType
      /\ peer' = [peer EXCEPT ![c] = q] /\ peer'[c] = q /\ q.sent = peer[c].sent
      /\ q.st = (IF l.conn = NoConn THEN "closed" ELSE "open")
      /\ q.unread = IF l.read THEN 0 ELSE peer[c].unread
  BY HereFacts, CommitPeer DEF Handled
<1>2. l \in Locals /\ (l.conn = NoConn <=> l.reg = "none")
      /\ l.conn \in ConnType \cup {NoConn} /\ l.reg \in RegStates /\ l.wrote \in Seq(PieceSet)
  BY DEF Handled, Local, Locals
<1> HIDE DEF c, q
<1>3. /\ conns' = [conns EXCEPT ![fd] = l.conn] /\ reg' = [reg EXCEPT ![fd] = l.reg]
      /\ sock' = IF l.conn = NoConn THEN [sock EXCEPT ![fd] = NoClient] ELSE sock
      /\ answers' = [answers EXCEPT ![c] = answers[c] \o l.wrote]
      /\ timeouts' = TimeoutsAfter(fd, l) /\ gauge' = GaugeAfterClose(l)
      /\ UNCHANGED <<backlog, edge, nextId, now, tick>>
  BY DEF Commit, clockVars, c
<1>4. NetTypes'
  <2>1. answers[c] \o l.wrote \in Seq(PieceSet)
    BY <1>1, <1>2, ConcatProperties DEF NetTypes
  <2> QED BY <1>1, <1>2, <1>3, <2>1 DEF NetTypes
<1>5. ConnTypes'
  <2>1. timeouts' \in Seq(Nodes)
    BY <1>2, <1>3, TimeoutsAfterFacts DEF Handled
  <2>2. gauge' \in Int
    BY <1>3 DEF GaugeAfterClose, ConnTypes
  <2> QED BY <1>2, <1>3, <2>1, <2>2 DEF ConnTypes
<1>6. \A g \in Fds : g # fd => /\ conns'[g] = conns[g] /\ reg'[g] = reg[g] /\ sock'[g] = sock[g]
  BY <1>3 DEF NetTypes, ConnTypes
<1>7. /\ conns'[fd] = l.conn /\ reg'[fd] = l.reg
      /\ sock'[fd] = IF l.conn = NoConn THEN NoClient ELSE c
  BY <1>3 DEF NetTypes, ConnTypes, c
<1>8. \A g \in Fds : g # fd /\ Open(g) => sock[g] \in Clients /\ sock[g] # c /\ peer'[sock[g]] = peer[sock[g]]
  BY <1>1 DEF TableInv, NetTypes, Handled, c
<1>9. TableInv'
  <2>1. ASSUME NEW g \in Fds
        PROVE  /\ Open(g)' <=> sock'[g] # NoClient
               /\ Open(g)' <=> reg'[g] # "none"
               /\ Open(g)' => conns'[g].id <= nextId' /\ peer'[sock'[g]].st = "open"
    <3>1. CASE g = fd
      <4>1. c # NoClient
        BY <1>1, ModelValuesAssumption
      <4> QED BY <3>1, <4>1, <1>1, <1>2, <1>3, <1>7 DEF TableInv, Open, Handled
    <3>2. CASE g # fd
      BY <3>2, <1>3, <1>6, <1>8 DEF TableInv, Open
    <3> QED BY <3>1, <3>2
  <2>2. ASSUME NEW f \in Fds, NEW g \in Fds, Open(f)', Open(g)', f # g
        PROVE  conns'[f].id # conns'[g].id /\ sock'[f] # sock'[g]
    <3>1. CASE f = fd
      BY <2>2, <3>1, <1>6, <1>7 DEF TableInv, Open, Handled, c
    <3>2. CASE g = fd
      BY <2>2, <3>2, <1>6, <1>7 DEF TableInv, Open, Handled, c
    <3>3. CASE f # fd /\ g # fd
      BY <2>2, <3>3, <1>6 DEF TableInv, Open
    <3> QED BY <3>1, <3>2, <3>3
  <2> QED BY <2>1, <2>2 DEF TableInv
<1>10. peer[c].st = "open"
  BY DEF TableInv, Handled, c
<1>11. BacklogInv'
  <2>1. \A i \in 1..Len(backlog) : backlog[i] \in Clients /\ backlog[i] # c
    BY <1>10 DEF BacklogInv, NetTypes
  <2>2. \A i \in 1..Len(backlog) : peer'[backlog[i]] = peer[backlog[i]]
    BY <1>1, <2>1 DEF NetTypes
  <2> QED BY <1>3, <2>2 DEF BacklogInv
<1>12. CountInv'
  <2>1. Accepted' = Accepted
    BY <1>1, <1>10 DEF Accepted, NetTypes
  <2>2. gauge' = Cardinality(OpenFds)'
    <3>1. OpenFds' = IF l.conn = NoConn THEN OpenFds \ {fd} ELSE OpenFds
      BY <1>6, <1>7 DEF OpenFds, Open, Handled
    <3>2. IsFiniteSet(OpenFds) /\ Cardinality(OpenFds) \in Nat
      BY IoAssumption, FS_Subset, FS_CardinalityType DEF OpenFds
    <3>3. Cardinality(OpenFds \ {fd}) = Cardinality(OpenFds) - 1
      BY <3>2, FS_RemoveElement DEF OpenFds, Handled
    <3> QED BY <1>3, <3>1, <3>2, <3>3 DEF CountInv, GaugeAfterClose
  <2> QED BY <1>3, <2>1, <2>2 DEF CountInv
<1>13. ReadInv'
  <2>1. \A d \in Clients : peer'[d].sent = peer[d].sent /\ (peer'[d].unread = peer[d].unread \/ peer'[d].unread = 0)
    BY <1>1 DEF NetTypes
  <2>3. \A d \in Clients : peer'[d].unread <= peer'[d].sent /\ peer'[d].sent <= Frags * MaxRequests
    BY <2>1 DEF ReadInv, NetTypes, PeerType
  <2>2. ASSUME NEW g \in Fds, Open(g)'
        PROVE  conns'[g].got + peer'[sock'[g]].unread <= peer'[sock'[g]].sent /\ conns'[g].last <= now'
    <3>1. CASE g = fd
      <4>1. l.conn # NoConn /\ sock'[g] = c /\ conns'[g] = l.conn
        BY <2>2, <3>1, <1>7 DEF Open
      <4>2. l.conn.got + q.unread <= q.sent
        BY <1>1, <4>1 DEF Handled, c
      <4>3. l.conn.last <= now
        <5>1. now \in Nat
          BY IoAssumption DEF NetTypes
        <5> QED BY <4>1, <5>1 DEF Handled, ReadInv
      <4> QED BY <1>1, <1>3, <4>1, <4>2, <4>3
    <3>2. CASE g # fd
      BY <2>2, <3>2, <1>3, <1>6, <1>8 DEF Open, ReadInv
    <3> QED BY <3>1, <3>2
  <2> QED BY <2>2, <2>3 DEF ReadInv
<1>14. ListedInv'
  <2> SUFFICES ASSUME NEW g \in Fds, Open(g)'
               PROVE  \E i \in 1..Len(timeouts') : timeouts'[i] = Node(g)'
    BY DEF ListedInv
  <2>1. Open(g) /\ Node(g)' = Node(g) /\ (g = fd => l.conn # NoConn)
    BY <1>6, <1>7 DEF Open, Node, Handled
  <2>2. \E i \in 1..Len(timeouts) : timeouts[i] = Node(g)
    BY <2>1 DEF ListedInv
  <2>3. l.conn # NoConn \/ Node(g) # Node(fd)
    BY <2>1 DEF Node
  <2>4. \E i \in 1..Len(TimeoutsAfter(fd, l)) : TimeoutsAfter(fd, l)[i] = Node(g)
    BY <1>2, <2>2, <2>3, TimeoutsAfterFacts DEF Handled
  <2> QED BY <1>3, <2>1, <2>4
<1> QED BY <1>4, <1>5, <1>9, <1>11, <1>12, <1>13, <1>14
-----------------------------------------------------------------------------
(* What each handler leaves of its connection *)

LEMMA ReadHere ==
    ASSUME TablePart, NEW fd \in Fds, Open(fd)
    PROVE  LET l == SocketRead(Here(fd), peer[sock[fd]])
               c == conns[fd]
               p == peer[sock[fd]]
           IN  /\ Local(l) /\ l.wrote = <<>>
               /\ l.conn # NoConn =>
                    /\ l.read /\ l.touched /\ ~p.rst /\ l.reg = reg[fd]
                    /\ l.conn = [c EXCEPT !.got = GotAfter(c, p), !.last = now, !.caw = @ \/ p.fin]
                    /\ p.fin => GotAfter(c, p) = Frags
<1> DEFINE e == Here(fd)
           c == conns[fd]
           p == peer[sock[fd]]
           l == SocketRead(e, p)
           g == GotAfter(c, p)
<1> HIDE DEF e, p, c, l, g
<1>1. Local(e) /\ e.conn = c /\ e.conn # NoConn /\ e.wrote = <<>> /\ e.reg = reg[fd] /\ p \in PeerType
      /\ l = SocketRead(e, p) /\ g = GotAfter(e.conn, p)
  BY HereFacts, ConnNotNone DEF TablePart, e, c, p, l, g
<1>2. /\ Local(l) /\ l.wrote = e.wrote
      /\ l.conn # NoConn =>
           /\ l.read /\ l.touched /\ ~p.rst /\ l.reg = e.reg
           /\ l.conn = [e.conn EXCEPT !.got = g, !.last = now, !.caw = @ \/ p.fin]
           /\ p.fin => g = Frags
  BY <1>1, SocketReadFacts DEF TablePart
<1>3. /\ Local(l) /\ l.wrote = <<>>
      /\ l.conn # NoConn =>
           /\ l.read /\ l.touched /\ ~p.rst /\ l.reg = reg[fd]
           /\ l.conn = [c EXCEPT !.got = g, !.last = now, !.caw = @ \/ p.fin]
           /\ p.fin => g = Frags
  BY <1>1, <1>2
<1> QED BY <1>3 DEF e, p, c, l, g

\* on_read when no request is complete.
ReadNoRequest(fd, ev) ==
    LET l == SocketRead(Here(fd), peer[sock[fd]])
        r == IF l.conn = NoConn THEN l ELSE Rearm(l, "in")
    IN  Hangup(r, ev)

LEMMA ReadOutcome ==
    ASSUME TablePart, NEW fd \in Fds, Open(fd), NEW ev \in FdEvents,
           ~Complete(SocketRead(Here(fd), peer[sock[fd]]))
    PROVE  LET h == ReadNoRequest(fd, ev)
               p == peer[sock[fd]]
           IN  /\ Handled(fd, h) /\ h.wrote = <<>>
               /\ h.conn # NoConn =>
                    /\ h.reg = "in" /\ h.touched /\ h.read /\ ~p.rst /\ ~p.fin /\ ~ev.hup
                    /\ h.conn = [conns[fd] EXCEPT !.got = GotAfter(conns[fd], p), !.last = now,
                                                  !.caw = @ \/ ev.rdhup]
                    /\ h.conn.got < Frags
<1> DEFINE c == conns[fd]
           p == peer[sock[fd]]
           l == SocketRead(Here(fd), p)
           r == IF l.conn = NoConn THEN l ELSE Rearm(l, "in")
           h == Hangup(r, ev)
           g == GotAfter(c, p)
<1> USE DEF TablePart
<1>1. Local(Here(fd)) /\ Here(fd).conn = c /\ Here(fd).wrote = <<>> /\ c \in ConnType
      /\ p \in PeerType /\ sock[fd] \in Clients /\ c # NoConn
  BY HereFacts, ConnNotNone
<1>2. /\ Local(l) /\ l.wrote = <<>>
      /\ l.conn # NoConn =>
           /\ l.read /\ l.touched /\ ~p.rst
           /\ l.conn = [c EXCEPT !.got = g, !.last = now, !.caw = @ \/ p.fin]
           /\ p.fin => g = Frags
  BY ReadHere
<1>3. g \in 0..Frags /\ g <= c.got + p.unread
  <2> DEFINE a == c.got
             b == p.unread
  <2>1. a \in 0..Frags /\ b \in Nat /\ Frags \in Nat
    BY <1>1, IoAssumption DEF ConnType, PeerType
  <2>2. g = IF a + b > Frags THEN Frags ELSE a + b
    BY DEF GotAfter
  <2> HIDE DEF a, b, g
  <2>3. g \in 0..Frags /\ g <= a + b
    BY <2>1, <2>2
  <2> QED BY <2>3 DEF a, b
<1>4. l.conn # NoConn => l.conn.got = g /\ g < Frags /\ ~p.fin
  <2>1. l.conn # NoConn => l.conn.got = g
    BY <1>1, <1>2 DEF ConnType
  <2>2. l.conn # NoConn => l.conn.got # Frags
    BY DEF Complete
  <2> QED BY <1>2, <1>3, <2>1, <2>2, IoAssumption
<1>5. /\ Local(r) /\ r.wrote = <<>> /\ r.conn = l.conn
      /\ r.conn # NoConn => r.reg = "in" /\ r.read /\ r.touched
  <2>1. CASE l.conn = NoConn
    BY <1>2, <2>1
  <2>2. CASE l.conn # NoConn
    <3> HIDE DEF l
    <3>1. r = Rearm(l, "in")
      BY <2>2
    <3>2. Rearm(l, "in") \in Locals /\ Rearm(l, "in").reg = "in" /\ Rearm(l, "in").conn = l.conn
          /\ Rearm(l, "in").wrote = l.wrote /\ Rearm(l, "in").read = l.read
          /\ Rearm(l, "in").touched = l.touched
      BY <1>2 DEF Rearm, Local, Locals, RegStates
    <3> QED BY <1>2, <2>2, <3>1, <3>2 DEF Local
  <2> QED BY <2>1, <2>2
<1> HIDE DEF r
<1>6. /\ Local(h) /\ h.wrote = r.wrote /\ h.read = r.read
      /\ h.conn # NoConn => /\ r.conn # NoConn /\ ~ev.hup
                            /\ h.conn = [r.conn EXCEPT !.caw = @ \/ ev.rdhup]
                            /\ h.conn \in ConnType /\ h.reg = r.reg /\ h.touched = r.touched
  BY <1>5, HangupFacts
<1> HIDE DEF h, l, g
<1>7. h.conn # NoConn => /\ h.reg = "in" /\ h.touched /\ h.read /\ ~p.rst /\ ~p.fin /\ ~ev.hup
                         /\ h.conn = [c EXCEPT !.got = g, !.last = now, !.caw = @ \/ ev.rdhup]
                         /\ h.conn.got = g /\ h.conn.id = c.id /\ h.conn.last = now /\ g < Frags
  <2> SUFFICES ASSUME h.conn # NoConn
               PROVE  /\ h.reg = "in" /\ h.touched /\ h.read /\ ~p.rst /\ ~p.fin /\ ~ev.hup
                      /\ h.conn = [c EXCEPT !.got = g, !.last = now, !.caw = @ \/ ev.rdhup]
                      /\ h.conn.got = g /\ h.conn.id = c.id /\ h.conn.last = now /\ g < Frags
      OBVIOUS
  <2>1. l.conn # NoConn /\ r.conn = l.conn /\ ~p.rst /\ ~p.fin
    BY <1>2, <1>4, <1>5, <1>6
  <2>2. c.caw \in BOOLEAN /\ p.fin \in BOOLEAN /\ ev.rdhup \in BOOLEAN
    BY <1>1 DEF ConnType, PeerType, FdEvents
  <2>3. l.conn = [c EXCEPT !.got = g, !.last = now, !.caw = c.caw]
    BY <1>1, <1>2, <2>1, <2>2 DEF ConnType
  <2>4. h.conn = [c EXCEPT !.got = g, !.last = now, !.caw = @ \/ ev.rdhup]
    <3>1. l.conn.caw = c.caw
      BY <1>1, <2>3 DEF ConnType
    <3>2. h.conn = [l.conn EXCEPT !.caw = c.caw \/ ev.rdhup]
      BY <1>6, <2>1, <3>1
    <3> QED BY <1>1, <2>3, <3>2 DEF ConnType
  <2>5. h.conn.got = g /\ h.conn.id = c.id /\ h.conn.last = now
    BY <1>1, <2>4 DEF ConnType
  <2> QED BY <1>4, <1>5, <1>6, <2>1, <2>4, <2>5
<1>8. Handled(fd, h)
  <2>1. Len(h.wrote) <= p.room
    BY <1>1, <1>5, <1>6, IoAssumption DEF PeerType
  <2>2. g <= p.sent
    <3> DEFINE a == c.got
               b == p.unread
    <3>1. a \in 0..Frags /\ b \in Nat /\ p.sent \in Nat /\ Frags \in Nat /\ g \in 0..Frags /\ g <= a + b
      BY <1>1, <1>3, IoAssumption DEF ConnType, PeerType
    <3>2. a + b <= p.sent
      BY DEF ReadInv
    <3> HIDE DEF a, b
    <3> QED BY <3>1, <3>2
  <2>3. h.conn # NoConn => h.conn.got + (IF h.read THEN 0 ELSE p.unread) <= p.sent
    BY <1>3, <1>7, <2>2, IoAssumption
  <2> QED BY <1>6, <1>7, <2>1, <2>3 DEF Handled
<1>9. h = ReadNoRequest(fd, ev)
  BY DEF ReadNoRequest, h, r, l
<1> HIDE DEF c, p
<1> QED BY <1>5, <1>6, <1>7, <1>8, <1>9 DEF c, p, g

\* The connection is closed.
LEMMA ClosedOutcome ==
    ASSUME TablePart, NEW fd \in Fds, Open(fd)
    PROVE  LET h == Closed(Touch(Here(fd)))
           IN  Handled(fd, h) /\ h.wrote = <<>> /\ h.conn = NoConn
<1>1. Local(Here(fd)) /\ Here(fd).conn # NoConn /\ Here(fd).wrote = <<>> /\ peer[sock[fd]] \in PeerType
  BY HereFacts, ConnNotNone DEF TablePart
<1>2. Touch(Here(fd)) \in Locals /\ Touch(Here(fd)).wrote = <<>>
  BY <1>1, TouchFacts DEF Local, TablePart
<1>3. peer[sock[fd]].room >= 0
  BY <1>1, IoAssumption DEF PeerType
<1> QED BY <1>2, <1>3, ClosedFacts DEF Handled

\* The four ways in which a complete request is answered or passed on: finalize
\* failed; answered here; refused by the pool or passed to it.
RequestKept(l) ==
    {[l EXCEPT !.conn.caw = TRUE], [l EXCEPT !.conn.moved = TRUE], MarkProcessing(l)}

LEMMA RequestOutcome ==
    ASSUME TablePart, NEW fd \in Fds, Open(fd), NEW ev \in FdEvents,
           Complete(SocketRead(Here(fd), peer[sock[fd]])),
           NEW k \in RequestKept(SocketRead(Here(fd), peer[sock[fd]]))
    PROVE  LET h == Hangup(k, ev)
               c == conns[fd]
               l == SocketRead(Here(fd), peer[sock[fd]])
           IN  /\ Handled(fd, h) /\ h.wrote = <<>>
               /\ GotAfter(c, peer[sock[fd]]) = Frags
               /\ h.conn # NoConn =>
                    /\ h.reg = reg[fd] /\ h.touched /\ h.read /\ ~ev.hup
                    /\ h.conn \in ConnType /\ h.conn.id = c.id /\ h.conn.got = Frags
                    /\ h.conn.last = now /\ h.conn.resp = c.resp /\ h.conn.pos = c.pos
                    /\ c.caw => h.conn.caw
                    /\ k = [l EXCEPT !.conn.caw = TRUE] =>
                           h.conn.caw /\ h.conn.moved = c.moved /\ h.conn.proc = c.proc
                    /\ k = [l EXCEPT !.conn.moved = TRUE] => h.conn.moved /\ h.conn.proc = c.proc
                    /\ k = MarkProcessing(l) => h.conn.moved /\ h.conn.proc
<1> DEFINE c == conns[fd]
           p == peer[sock[fd]]
           l == SocketRead(Here(fd), p)
           h == Hangup(k, ev)
           g == GotAfter(c, p)
<1> USE DEF TablePart
<1>1. c \in ConnType /\ p \in PeerType /\ sock[fd] \in Clients /\ c # NoConn
  BY HereFacts, ConnNotNone
<1>2. /\ Local(l) /\ l.wrote = <<>>
      /\ l.conn # NoConn =>
           /\ l.read /\ l.touched /\ ~p.rst /\ l.reg = reg[fd]
           /\ l.conn = [c EXCEPT !.got = g, !.last = now, !.caw = @ \/ p.fin]
           /\ p.fin => g = Frags
  BY ReadHere
<1>3. g \in 0..Frags /\ g <= c.got + p.unread
  BY <1>1, IoAssumption DEF GotAfter, ConnType, PeerType
<1>4. l.conn # NoConn /\ l.conn.got = Frags
  BY DEF Complete
<1> HIDE DEF l, g, c, p, h
<1>5. l \in Locals /\ l.conn \in ConnType /\ l.conn.got = g /\ l.conn.id = c.id /\ l.conn.last = now
      /\ l.conn.resp = c.resp /\ l.conn.pos = c.pos /\ l.conn.moved = c.moved /\ l.conn.proc = c.proc
      /\ l.conn.caw = (c.caw \/ p.fin) /\ l.reg = reg[fd] /\ l.touched /\ l.read
  <2>1. l \in Locals /\ l.conn \in ConnType
    BY <1>2, <1>4, LocalConn DEF Local
  <2> QED BY <1>1, <1>2, <1>4, <2>1 DEF ConnType
<1>6. /\ k \in Locals /\ k.conn \in ConnType /\ k.conn.got = g /\ k.conn.id = c.id /\ k.conn.last = now
      /\ k.conn.resp = c.resp /\ k.conn.pos = c.pos /\ (c.caw => k.conn.caw) /\ k.reg = reg[fd]
      /\ k.touched /\ k.read /\ k.wrote = <<>>
      /\ k = [l EXCEPT !.conn.caw = TRUE] => k.conn.caw /\ k.conn.moved = c.moved /\ k.conn.proc = c.proc
      /\ k = [l EXCEPT !.conn.moved = TRUE] => k.conn.moved /\ k.conn.proc = c.proc
      /\ k = MarkProcessing(l) => k.conn.moved /\ k.conn.proc
  <2>0. k \in RequestKept(l)
    BY DEF l, p
  <2> DEFINE Common == /\ k \in Locals /\ k.conn \in ConnType /\ k.conn.got = g /\ k.conn.id = c.id
                       /\ k.conn.last = now /\ k.conn.resp = c.resp /\ k.conn.pos = c.pos
                       /\ (c.caw => k.conn.caw) /\ k.reg = reg[fd]
                       /\ k.touched /\ k.read /\ k.wrote = <<>>
  <2>1. ASSUME k = [l EXCEPT !.conn.caw = TRUE]
        PROVE  Common /\ k.conn.caw /\ k.conn.moved = c.moved /\ k.conn.proc = c.proc
    <3> DEFINE d == [l.conn EXCEPT !.caw = TRUE]
    <3>1. k = [l EXCEPT !.conn = d]
      BY <2>1, <1>5 DEF Locals
    <3>2. /\ d \in ConnType /\ d.got = l.conn.got /\ d.id = l.conn.id /\ d.last = l.conn.last
          /\ d.resp = l.conn.resp /\ d.pos = l.conn.pos /\ d.moved = l.conn.moved /\ d.proc = l.conn.proc
          /\ d.caw
      BY <1>5 DEF ConnType
    <3> HIDE DEF d
    <3> QED BY <1>2, <1>5, <3>1, <3>2 DEF Locals
  <2>2. ASSUME k = [l EXCEPT !.conn.moved = TRUE]
        PROVE  Common /\ k.conn.moved /\ k.conn.proc = c.proc
    <3> DEFINE d == [l.conn EXCEPT !.moved = TRUE]
    <3>1. k = [l EXCEPT !.conn = d]
      BY <2>2, <1>5 DEF Locals
    <3>2. /\ d \in ConnType /\ d.got = l.conn.got /\ d.id = l.conn.id /\ d.last = l.conn.last
          /\ d.resp = l.conn.resp /\ d.pos = l.conn.pos /\ d.caw = l.conn.caw /\ d.proc = l.conn.proc
          /\ d.moved
      BY <1>5 DEF ConnType
    <3> HIDE DEF d
    <3> QED BY <1>2, <1>5, <3>1, <3>2 DEF Locals
  <2>3. ASSUME k = MarkProcessing(l)
        PROVE  Common /\ k.conn.moved /\ k.conn.proc
    <3> DEFINE d == [l.conn EXCEPT !.moved = TRUE, !.proc = TRUE]
    <3>1. k = [l EXCEPT !.conn = d]
      BY <2>3, <1>5 DEF Locals, MarkProcessing
    <3>2. /\ d \in ConnType /\ d.got = l.conn.got /\ d.id = l.conn.id /\ d.last = l.conn.last
          /\ d.resp = l.conn.resp /\ d.pos = l.conn.pos /\ d.caw = l.conn.caw /\ d.moved /\ d.proc
      BY <1>5 DEF ConnType
    <3> HIDE DEF d
    <3> QED BY <1>2, <1>5, <3>1, <3>2 DEF Locals
  <2>4. Common
    BY <2>0, <2>1, <2>2, <2>3 DEF RequestKept
  <2> QED BY <2>1, <2>2, <2>3, <2>4
<1>7. Local(k)
  BY <1>2, <1>4, <1>5, <1>6, ConnNotNone DEF Local
<1>8. /\ Local(h) /\ h.wrote = k.wrote /\ h.read = k.read
      /\ h.conn # NoConn => /\ k.conn # NoConn /\ ~ev.hup
                            /\ h.conn = [k.conn EXCEPT !.caw = @ \/ ev.rdhup]
                            /\ h.conn \in ConnType /\ h.reg = k.reg /\ h.touched = k.touched
  BY <1>7, HangupFacts DEF h
<1>9. h.conn # NoConn =>
        /\ h.conn.got = k.conn.got /\ h.conn.id = k.conn.id /\ h.conn.last = k.conn.last
        /\ h.conn.resp = k.conn.resp /\ h.conn.pos = k.conn.pos /\ h.conn.moved = k.conn.moved
        /\ h.conn.proc = k.conn.proc /\ (k.conn.caw => h.conn.caw)
  BY <1>6, <1>8 DEF ConnType
<1>10. g = Frags
  BY <1>4, <1>5
<1>11. Handled(fd, h)
  <2>1. Len(h.wrote) <= p.room
    BY <1>1, <1>6, <1>8, IoAssumption DEF PeerType
  <2>2. g <= p.sent
    BY <1>1, <1>3, IoAssumption DEF ReadInv, ConnType, PeerType, c, p
  <2>3. h.conn # NoConn => h.conn.got + (IF h.read THEN 0 ELSE p.unread) <= p.sent
    BY <1>3, <1>6, <1>8, <1>9, <2>2, IoAssumption
  <2> QED BY <1>6, <1>8, <1>9, <2>1, <2>3 DEF Handled, c, p
<1>12. /\ Handled(fd, h) /\ h.wrote = <<>> /\ g = Frags
       /\ h.conn # NoConn =>
             /\ h.reg = reg[fd] /\ h.touched /\ h.read /\ ~ev.hup
             /\ h.conn \in ConnType /\ h.conn.id = c.id /\ h.conn.got = Frags
             /\ h.conn.last = now /\ h.conn.resp = c.resp /\ h.conn.pos = c.pos
             /\ c.caw => h.conn.caw
             /\ k = [l EXCEPT !.conn.caw = TRUE] =>
                    h.conn.caw /\ h.conn.moved = c.moved /\ h.conn.proc = c.proc
             /\ k = [l EXCEPT !.conn.moved = TRUE] => h.conn.moved /\ h.conn.proc = c.proc
             /\ k = MarkProcessing(l) => h.conn.moved /\ h.conn.proc
  BY <1>6, <1>8, <1>9, <1>10, <1>11
<1> QED BY <1>12 DEF h, l, c, p, g

\* The record Answer starts from: the response r is the one to be written.
Answering(fd, r) == [Here(fd) EXCEPT !.conn.proc = FALSE, !.conn.resp = r, !.conn.pos = 0]

LEMMA AnsweringFacts ==
    ASSUME TablePart, NEW fd \in Fds, Open(fd), NEW r \in Requests
    PROVE  LET l == Answering(fd, r)
           IN  /\ Local(l) /\ l.wrote = <<>> /\ l.reg = reg[fd] /\ ~l.touched /\ ~l.read
               /\ l.conn = [conns[fd] EXCEPT !.proc = FALSE, !.resp = r, !.pos = 0]
               /\ l.conn \in ConnType /\ l.conn # NoConn /\ l.conn.resp = r /\ l.conn.resp # NoReq
               /\ l.conn.id = conns[fd].id /\ l.conn.got = conns[fd].got
               /\ l.conn.pos = 0 /\ l.conn.proc = FALSE
<1> DEFINE e == Here(fd)
           d == [conns[fd] EXCEPT !.proc = FALSE, !.resp = r, !.pos = 0]
<1>1. Local(e) /\ e.conn = conns[fd] /\ e.reg = reg[fd] /\ e.wrote = <<>> /\ conns[fd] \in ConnType
      /\ ~e.touched /\ ~e.read
  BY HereFacts DEF TablePart
<1>2. d \in ConnType /\ d.resp = r /\ d.id = conns[fd].id /\ d.got = conns[fd].got
      /\ d.pos = 0 /\ d.proc = FALSE
  <2>1. 0 \in 0..Pieces /\ r \in Requests \cup {NoReq}
    BY IoAssumption
  <2> HIDE DEF e
  <2>2. conns[fd] \in ConnType
    BY <1>1
  <2> QED BY <2>1, <2>2 DEF ConnType
<1>3. d # NoConn /\ r # NoReq /\ reg[fd] # "none"
  BY <1>2, ConnNotNone, ModelValuesAssumption DEF TablePart, TableInv
<1> HIDE DEF e
<1>4. Answering(fd, r) = [e EXCEPT !.conn = d]
  BY <1>1 DEF Answering, e, Local, Locals
<1> HIDE DEF d
<1>5. [e EXCEPT !.conn = d] \in Locals
  BY <1>1, <1>2 DEF Local, Locals
<1> QED BY <1>1, <1>2, <1>3, <1>4, <1>5 DEF Local, Locals, d

\* do_write on the connection of fd, for the response in l.
LEMMA WriteHandled ==
    ASSUME TablePart, NEW fd \in Fds, Open(fd), NEW l, Local(l), l.conn # NoConn,
           l.conn.resp # NoReq, l.wrote = <<>>, ~l.read,
           l.conn.id = conns[fd].id, l.conn.got = conns[fd].got
    PROVE  LET t == DoWrite(l, peer[sock[fd]])
               p == peer[sock[fd]]
           IN  /\ Handled(fd, t)
               /\ WroteNothing(l, t, p) \/ WrotePart(l, t, p) \/ WroteRest(l, t, p)
               /\ t.conn # NoConn => t.touched /\ ~t.read
<1> DEFINE p == peer[sock[fd]]
           t == DoWrite(l, p)
<1> HIDE DEF p, t
<1>1. p \in PeerType /\ l.conn \in ConnType /\ conns[fd] \in ConnType
  BY HereFacts, LocalConn DEF TablePart, Local, p
<1>2. /\ Local(t) /\ Len(t.wrote) \in 0..p.room
      /\ WroteNothing(l, t, p) \/ WrotePart(l, t, p) \/ WroteRest(l, t, p)
  BY <1>1, DoWriteFacts DEF TablePart, t
<1>3. conns[fd].got + p.unread <= p.sent
  BY DEF TablePart, ReadInv, p
<1>4. t.conn # NoConn => /\ t.touched /\ ~t.read /\ t.conn.id = l.conn.id /\ t.conn.last = now
                         /\ t.conn.got = l.conn.got \/ t.conn.got = 0
  <2>1. CASE WroteNothing(l, t, p)
    BY <2>1 DEF WroteNothing
  <2>2. CASE WrotePart(l, t, p)
    BY <1>1, <2>2 DEF WrotePart, ConnType
  <2>3. CASE WroteRest(l, t, p)
    <3>1. l.conn.id \in Nat
      BY <1>1 DEF ConnType
    <3> QED BY <2>3, <3>1, FreshFacts DEF WroteRest, TablePart
  <2> QED BY <1>2, <2>1, <2>2, <2>3
<1>5. t.conn # NoConn => t.conn.got + (IF t.read THEN 0 ELSE p.unread) <= p.sent
  BY <1>1, <1>3, <1>4, IoAssumption DEF ConnType, PeerType
<1>6. Handled(fd, t)
  BY <1>1, <1>2, <1>4, <1>5, IoAssumption DEF Handled, p, PeerType
<1> QED BY <1>2, <1>4, <1>6 DEF t, p

\* on_write, or an event that reports a hangup alone.
WriteOrHangup(fd, out, ev) ==
    Hangup(IF out THEN DoWrite(Here(fd), peer[sock[fd]]) ELSE Here(fd), ev)

LEMMA WriteOutcome ==
    ASSUME TablePart, NEW fd \in Fds, Open(fd), NEW out \in BOOLEAN, NEW ev \in FdEvents
    PROVE  LET h == WriteOrHangup(fd, out, ev)
               e == Here(fd)
               l == DoWrite(e, peer[sock[fd]])
               p == peer[sock[fd]]
               c == conns[fd]
           IN  /\ Handled(fd, h)
               /\ h.conn # NoConn => ~ev.hup /\ ~h.read /\ h.conn \in ConnType
               /\ out /\ c.resp # NoReq =>
                    /\ h.wrote = l.wrote
                    /\ WroteNothing(e, l, p) \/ WrotePart(e, l, p) \/ WroteRest(e, l, p)
                    /\ h.conn # NoConn => l.conn # NoConn /\ h.reg = l.reg
                                          /\ h.conn = [l.conn EXCEPT !.caw = @ \/ ev.rdhup]
               /\ ~out \/ c.resp = NoReq =>
                    /\ h.wrote = <<>>
                    /\ h.conn # NoConn => h.reg = reg[fd]
                                          /\ h.conn = [c EXCEPT !.caw = @ \/ ev.rdhup]
<1> DEFINE h == WriteOrHangup(fd, out, ev)
           e == Here(fd)
           p == peer[sock[fd]]
           l == DoWrite(e, p)
           c == conns[fd]
           b == IF out THEN l ELSE e
<1> HIDE DEF h, e, l, p, c, b
<1>1. /\ Local(e) /\ e.conn = c /\ e.wrote = <<>> /\ ~e.touched /\ ~e.read /\ e.reg = reg[fd]
      /\ c \in ConnType /\ c # NoConn /\ p \in PeerType
  BY HereFacts, ConnNotNone DEF TablePart, e, c, p
<1>2. h = Hangup(b, ev)
  BY DEF h, b, l, e, p, WriteOrHangup
<1>3. CASE out /\ c.resp # NoReq
  <2>1. /\ Handled(fd, l)
        /\ WroteNothing(e, l, p) \/ WrotePart(e, l, p) \/ WroteRest(e, l, p)
        /\ l.conn # NoConn => l.touched /\ ~l.read
    BY <1>1, <1>3, WriteHandled DEF l, p, c
  <2>2. b = l /\ Local(l)
    BY <1>3, <2>1 DEF b, Handled
  <2>3. /\ Local(h) /\ h.wrote = l.wrote /\ h.read = l.read
        /\ h.conn # NoConn => /\ l.conn # NoConn /\ ~ev.hup
                              /\ h.conn = [l.conn EXCEPT !.caw = @ \/ ev.rdhup]
                              /\ h.conn \in ConnType /\ h.reg = l.reg /\ h.touched = l.touched
    BY <1>2, <2>2, HangupFacts
  <2>4. h.conn # NoConn => /\ h.conn.got = l.conn.got /\ h.conn.id = l.conn.id /\ h.conn.last = l.conn.last
    <3>1. l.conn # NoConn => l.conn \in ConnType
      BY <2>2, LocalConn DEF Local
    <3> QED BY <2>3, <3>1 DEF ConnType
  <2>5. Handled(fd, h)
    BY <2>1, <2>3, <2>4 DEF Handled
  <2> QED BY <1>3, <2>1, <2>3, <2>5 DEF h, l, e, c, p
<1>4. CASE ~(out /\ c.resp # NoReq)
  <2>1. b = e
    BY <1>1, <1>4 DEF b, l, DoWrite
  <2>2. /\ Local(h) /\ h.wrote = e.wrote /\ h.read = e.read
        /\ h.conn # NoConn => /\ e.conn # NoConn /\ ~ev.hup
                              /\ h.conn = [e.conn EXCEPT !.caw = @ \/ ev.rdhup]
                              /\ h.conn \in ConnType /\ h.reg = e.reg /\ h.touched = e.touched
    BY <1>1, <1>2, <2>1, HangupFacts
  <2>3. h.conn # NoConn => /\ h.conn = [c EXCEPT !.caw = @ \/ ev.rdhup]
                           /\ h.conn.got = c.got /\ h.conn.id = c.id /\ h.conn.last = c.last
    BY <1>1, <2>2 DEF ConnType
  <2>4. c.got + p.unread <= p.sent
    BY DEF TablePart, ReadInv, c, p
  <2>5. Handled(fd, h)
    BY <1>1, <2>2, <2>3, <2>4, IoAssumption DEF Handled, PeerType, p, c
  <2>6. /\ h.wrote = <<>>
        /\ h.conn # NoConn => /\ h.reg = reg[fd] /\ ~ev.hup /\ ~h.read /\ h.conn \in ConnType
                              /\ h.conn = [c EXCEPT !.caw = @ \/ ev.rdhup]
    BY <1>1, <2>2, <2>3
  <2> QED BY <1>4, <2>5, <2>6 DEF h, c
<1> QED BY <1>3, <1>4
-----------------------------------------------------------------------------
(* The steps of the I/O thread that handle a connection *)

LEMMA EvFacts ==
    ASSUME LoopTypes, Control, io = "event"
    PROVE  /\ Ev \in Events /\ Tail(batch) \in Seq(Events)
           /\ Ev.src \in Fds => Ev \in FdEvents
           /\ Ev.src \in SpecialSources => Ev.src \notin Fds
<1>1. batch # <<>> /\ batch \in Seq(Events)
  BY DEF LoopTypes, Control
<1>2. Ev \in Events /\ Tail(batch) \in Seq(Events)
  BY <1>1, HeadTailProperties DEF Ev
<1> QED BY <1>2, ModelValuesAssumption DEF Events, FdEvents

\* The handlers, with what each leaves of the connection it is called for.
OnReadFor(fd, l) ==
    /\ OnRead /\ fd = Ev.src /\ Ev \in FdEvents /\ Ev.in /\ Open(fd) /\ ~conns[fd].moved
    /\ ~Complete(SocketRead(Here(fd), peer[sock[fd]]))
    /\ l = ReadNoRequest(fd, Ev)
ReadTooLargeFor(fd, l) ==
    ReadTooLarge /\ fd = Ev.src /\ Ev \in FdEvents /\ Open(fd) /\ l = Closed(Touch(Here(fd)))
OnRequestFor(fd, l) ==
    /\ OnRequest /\ fd = Ev.src /\ Ev \in FdEvents /\ Ev.in /\ Open(fd) /\ ~conns[fd].moved
    /\ Complete(SocketRead(Here(fd), peer[sock[fd]]))
    /\ \E k \in RequestKept(SocketRead(Here(fd), peer[sock[fd]])) : l = Hangup(k, Ev)
OnWriteFor(fd, l) ==
    /\ OnWrite /\ fd = Ev.src /\ Ev \in FdEvents /\ ~Ev.in /\ Open(fd)
    /\ l = WriteOrHangup(fd, Ev.out, Ev)
AnswerFor(fd, l) ==
    /\ Answer /\ Head(found) \in Items /\ Belongs(Head(found)) /\ fd = Head(found).fd
    /\ Open(fd) /\ l = DoWrite(Answering(fd, Head(found).req), peer[sock[fd]])
DrainEventFor(fd, l) ==
    /\ DrainEvent /\ fd = Ev.src /\ Ev \in FdEvents /\ Open(fd)
    /\ l = WriteOrHangup(fd, Ev.out, [Ev EXCEPT !.hup = @ \/ Ev.in])

HandlerFor(fd, l) ==
    \/ OnReadFor(fd, l) \/ ReadTooLargeFor(fd, l) \/ OnRequestFor(fd, l) \/ OnWriteFor(fd, l)
    \/ AnswerFor(fd, l) \/ DrainEventFor(fd, l)

tableVars == <<netVars, clockVars, connVars>>

Handler == OnRead \/ ReadTooLarge \/ OnRequest \/ OnWrite \/ Answer \/ DrainEvent

\* Every step that handles a connection is the commit of what a handler left of
\* it; the response of a connection that is gone changes nothing in the table.
LEMMA HandlerStep ==
    ASSUME CoreInv, Handler
    PROVE  \/ \E fd \in Fds : \E l : HandlerFor(fd, l) /\ Handled(fd, l) /\ Commit(fd, l)
                                   /\ UNCHANGED clockVars
           \/ Answer /\ ~Belongs(Head(found)) /\ UNCHANGED tableVars
<1> USE DEF CoreInv
<1>0. TablePart
  BY DEF TablePart
<1>1. CASE OnRead
  <2> DEFINE fd == Ev.src
             l == SocketRead(Here(fd), peer[sock[fd]])
             h == ReadNoRequest(fd, Ev)
  <2>1. io = "event" /\ fd \in Fds /\ Open(fd) /\ Ev.in /\ ~conns[fd].moved /\ ~Complete(l)
        /\ Commit(fd, h) /\ UNCHANGED clockVars
    BY <1>1 DEF OnRead, ReadNoRequest
  <2>2. Ev \in FdEvents
    BY <2>1, EvFacts
  <2>3. Handled(fd, h)
    BY <1>0, <2>1, <2>2, ReadOutcome
  <2>4. OnReadFor(fd, h)
    BY <1>1, <2>1, <2>2 DEF OnReadFor
  <2> HIDE DEF fd, h
  <2> QED BY <2>1, <2>3, <2>4 DEF HandlerFor
<1>2. CASE ReadTooLarge
  <2> DEFINE fd == Ev.src
             h == Closed(Touch(Here(fd)))
  <2>1. io = "event" /\ fd \in Fds /\ Open(fd) /\ Commit(fd, h) /\ UNCHANGED clockVars
    BY <1>2 DEF ReadTooLarge
  <2>2. Ev \in FdEvents
    BY <2>1, EvFacts
  <2>3. Handled(fd, h)
    BY <1>0, <2>1, <2>2, ClosedOutcome
  <2>4. ReadTooLargeFor(fd, h)
    BY <1>2, <2>1, <2>2 DEF ReadTooLargeFor
  <2> HIDE DEF fd, h
  <2> QED BY <2>1, <2>3, <2>4 DEF HandlerFor
<1>3. CASE OnRequest
  <2> DEFINE fd == Ev.src
             l == SocketRead(Here(fd), peer[sock[fd]])
  <2>1. io = "event" /\ fd \in Fds /\ Open(fd) /\ Ev.in /\ ~conns[fd].moved /\ Complete(l)
        /\ UNCHANGED clockVars
    BY <1>3 DEF OnRequest
  <2>2. \E k \in RequestKept(l) : Commit(fd, Hangup(k, Ev))
    BY <1>3 DEF OnRequest, RequestKept
  <2>3. PICK k \in RequestKept(l) : Commit(fd, Hangup(k, Ev))
    BY <2>2
  <2>4. Ev \in FdEvents
    BY <2>1, EvFacts
  <2>5. Handled(fd, Hangup(k, Ev))
    BY <1>0, <2>1, <2>4, RequestOutcome
  <2>6. OnRequestFor(fd, Hangup(k, Ev))
    BY <1>3, <2>1, <2>4 DEF OnRequestFor
  <2> HIDE DEF fd
  <2> QED BY <2>1, <2>3, <2>5, <2>6 DEF HandlerFor
<1>4. CASE OnWrite
  <2> DEFINE fd == Ev.src
             h == WriteOrHangup(fd, Ev.out, Ev)
  <2>1. io = "event" /\ fd \in Fds /\ Open(fd) /\ ~Ev.in /\ Commit(fd, h) /\ UNCHANGED clockVars
    BY <1>4 DEF OnWrite, WriteOrHangup
  <2>2. Ev \in FdEvents /\ Ev.out \in BOOLEAN
    BY <2>1, EvFacts DEF FdEvents
  <2>3. Handled(fd, h)
    BY <1>0, <2>1, <2>2, WriteOutcome
  <2>4. OnWriteFor(fd, h)
    BY <1>4, <2>1, <2>2 DEF OnWriteFor
  <2> HIDE DEF fd, h
  <2> QED BY <2>1, <2>3, <2>4 DEF HandlerFor
<1>5. CASE Answer
  <2> DEFINE item == Head(found)
             fd == item.fd
             l == Answering(fd, item.req)
             h == DoWrite(l, peer[sock[fd]])
  <2>1. item \in Items /\ fd \in Fds /\ item.req \in Requests
    <3>1. found # <<>> /\ found \in Seq(Items)
      BY <1>5 DEF Answer, LoopTypes
    <3>2. item \in Items
      BY <3>1, HeadTailProperties
    <3> QED BY <3>2 DEF Items
  <2>2. CASE Belongs(item)
    <3>1. Open(fd) /\ Commit(fd, h) /\ UNCHANGED clockVars
      BY <1>5, <2>2 DEF Answer, Answering, Belongs
    <3>2. Handled(fd, h)
      <4> HIDE DEF item, fd
      <4>1. /\ Local(l) /\ l.wrote = <<>> /\ ~l.read /\ l.conn # NoConn /\ l.conn.resp # NoReq
            /\ l.conn.id = conns[fd].id /\ l.conn.got = conns[fd].got
        BY <1>0, <2>1, <3>1, AnsweringFacts
      <4> HIDE DEF l
      <4> QED BY <1>0, <2>1, <3>1, <4>1, WriteHandled
    <3>3. AnswerFor(fd, h)
      BY <1>5, <2>1, <2>2, <3>1 DEF AnswerFor
    <3> HIDE DEF fd, h
    <3> QED BY <2>1, <3>1, <3>2, <3>3 DEF HandlerFor
  <2>3. CASE ~Belongs(item)
    BY <1>5, <2>3 DEF Answer, tableVars
  <2> QED BY <2>2, <2>3
<1>6. CASE DrainEvent
  <2> DEFINE fd == Ev.src
             ev == [Ev EXCEPT !.hup = @ \/ Ev.in]
             h == WriteOrHangup(fd, Ev.out, ev)
  <2>1. io = "event" /\ fd \in Fds /\ Open(fd) /\ Commit(fd, h) /\ UNCHANGED clockVars
    BY <1>6 DEF DrainEvent, WriteOrHangup
  <2>2. Ev \in FdEvents /\ Ev.out \in BOOLEAN /\ ev \in FdEvents
    BY <2>1, EvFacts DEF FdEvents
  <2>3. Handled(fd, h)
    BY <1>0, <2>1, <2>2, WriteOutcome
  <2>4. DrainEventFor(fd, h)
    BY <1>6, <2>1, <2>2 DEF DrainEventFor
  <2> HIDE DEF fd, h
  <2> QED BY <2>1, <2>3, <2>4 DEF HandlerFor
<1> QED BY <1>1, <1>2, <1>3, <1>4, <1>5, <1>6 DEF Handler
-----------------------------------------------------------------------------
(* The other steps that change the table *)

LEMMA ClientTable ==
    ASSUME CoreInv, NEW c \in Clients, ClientStep(c)
    PROVE  TablePart'
<1> USE DEF CoreInv, TablePart
<1>1. UNCHANGED <<answers, sock, reg, now, tick, conns, timeouts, nextId, gauge>>
  BY DEF ClientStep, Connect, Send, HangUp, Congest, Relieve, othersThanPeer, clockVars, connVars
<1>2. peer[c] \in PeerType /\ c \in DOMAIN peer
  BY DEF NetTypes
<1>3. ConnTypes'
  BY <1>1 DEF ConnTypes
<1>4. ListedInv'
  BY <1>1 DEF ListedInv, Open, Node
<1>5. CASE Connect(c)
  <2>1. /\ peer[c].st = "new" /\ backlog' = Append(backlog, c) /\ edge' = TRUE
        /\ peer' = [peer EXCEPT ![c] = [peer[c] EXCEPT !.st = "backlog"]]
    BY <1>5, <1>2 DEF Connect
  <2>2. [peer[c] EXCEPT !.st = "backlog"] \in PeerType
    BY <1>2 DEF PeerType
  <2>3. \A d \in Clients : /\ peer'[d].sent = peer[d].sent /\ peer'[d].unread = peer[d].unread
                           /\ d # c => peer'[d].st = peer[d].st
    BY <2>1, <1>2 DEF NetTypes, PeerType
  <2>4. peer'[c].st = "backlog"
    BY <2>1, <1>2 DEF NetTypes, PeerType
  <2>5. /\ backlog \in Seq(Clients) /\ Len(backlog) \in Nat
        /\ backlog' \in Seq(Clients) /\ Len(backlog') = Len(backlog) + 1 /\ backlog'[Len(backlog) + 1] = c
        /\ \A i \in 1..Len(backlog) : backlog'[i] = backlog[i] /\ backlog[i] \in Clients
    BY <2>1, AppendProperties, ElementOfSeq DEF NetTypes
  <2>6. NetTypes'
    BY <1>1, <2>1, <2>2, <2>5 DEF NetTypes
  <2>7. \A i \in 1..Len(backlog) : backlog[i] # c
    BY <2>1 DEF BacklogInv
  <2>8. BacklogInv'
    <3>1. \A i \in 1..Len(backlog') : i \in 1..Len(backlog) \/ i = Len(backlog) + 1
      BY <2>5
    <3> QED BY <2>3, <2>4, <2>5, <2>7, <3>1 DEF BacklogInv
  <2>9. TableInv'
    BY <1>1, <2>1, <2>3, <1>2 DEF TableInv, Open, NetTypes
  <2>10. Accepted' = Accepted
    BY <2>1, <2>3, <2>4 DEF Accepted
  <2>11. CountInv'
    BY <1>1, <2>10 DEF CountInv, OpenFds, Open
  <2>12. ReadInv'
    BY <1>1, <2>3 DEF ReadInv, Open, TableInv, NetTypes
  <2> QED BY <1>3, <1>4, <2>6, <2>8, <2>9, <2>11, <2>12
<1>6. CASE Send(c) \/ HangUp(c) \/ Congest(c) \/ Relieve(c)
  <2>1. UNCHANGED <<backlog, edge>>
    BY <1>6 DEF Send, HangUp, Congest, Relieve
  <2>2. \E q \in PeerType : /\ peer' = [peer EXCEPT ![c] = q] /\ q.st = peer[c].st
                            /\ q.sent - q.unread = peer[c].sent - peer[c].unread
                            /\ q.sent <= Frags * MaxRequests
    <3>0. peer[c].sent <= Frags * MaxRequests /\ Frags * MaxRequests \in Int
      BY IoAssumption DEF ReadInv
    <3>1. CASE Send(c)
      <4> DEFINE q == [peer[c] EXCEPT !.sent = peer[c].sent + 1, !.unread = peer[c].unread + 1]
      <4>1. peer' = [peer EXCEPT ![c] = q] /\ peer[c].sent < Frags * MaxRequests
        BY <1>2, <3>1 DEF Send, NetTypes, PeerType
      <4>2. q \in PeerType /\ q.st = peer[c].st /\ q.sent = peer[c].sent + 1 /\ q.unread = peer[c].unread + 1
        <5>1. peer[c].sent + 1 \in Nat /\ peer[c].unread + 1 \in Nat
          BY <1>2 DEF PeerType
        <5> DEFINE a == peer[c].sent + 1
                   b == peer[c].unread + 1
        <5> HIDE DEF a, b
        <5>2. a \in Nat /\ b \in Nat /\ q = [peer[c] EXCEPT !.sent = a, !.unread = b]
          BY <5>1 DEF a, b
        <5>3. q \in PeerType /\ q.st = peer[c].st /\ q.sent = a /\ q.unread = b
          BY <1>2, <5>2 DEF PeerType
        <5> QED BY <5>3 DEF a, b
      <4>3. q.sent <= Frags * MaxRequests /\ q.sent - q.unread = peer[c].sent - peer[c].unread
        BY <1>2, <3>0, <4>1, <4>2 DEF PeerType
      <4> HIDE DEF q
      <4> QED BY <4>1, <4>2, <4>3
    <3>2. CASE HangUp(c)
      <4>1. \E b \in BOOLEAN : peer' = [peer EXCEPT ![c] = [peer[c] EXCEPT !.fin = TRUE, !.rst = b]]
        <5> DEFINE o == peer[c]
        <5>1. o \in PeerType /\ c \in DOMAIN peer
          BY <1>2 DEF NetTypes
        <5>2. CASE peer' = [peer EXCEPT ![c].fin = TRUE]
          <6>1. [o EXCEPT !.fin = TRUE] = [o EXCEPT !.fin = TRUE, !.rst = o.rst] /\ o.rst \in BOOLEAN
            <7> HIDE DEF o
            <7> QED BY <5>1 DEF PeerType
          <6>2. peer' = [peer EXCEPT ![c] = [o EXCEPT !.fin = TRUE]]
            BY <5>2
          <6> QED BY <6>1, <6>2
        <5>3. CASE peer' = [peer EXCEPT ![c].fin = TRUE, ![c].rst = TRUE]
          <6>1. peer' = [peer EXCEPT ![c] = [o EXCEPT !.fin = TRUE, !.rst = TRUE]]
            BY <5>1, <5>3
          <6> QED BY <6>1
        <5> HIDE DEF o, CoreInv, TablePart
        <5> QED BY <3>2, <5>2, <5>3 DEF HangUp
      <4>2. PICK b \in BOOLEAN : peer' = [peer EXCEPT ![c] = [peer[c] EXCEPT !.fin = TRUE, !.rst = b]]
        BY <4>1
      <4> DEFINE q == [peer[c] EXCEPT !.fin = TRUE, !.rst = b]
      <4>3. q \in PeerType /\ q.st = peer[c].st /\ q.sent = peer[c].sent /\ q.unread = peer[c].unread
        BY <1>2 DEF PeerType
      <4> HIDE DEF q
      <4> QED BY <3>0, <4>2, <4>3 DEF q
    <3>3. CASE Congest(c) \/ Relieve(c)
      <4>1. PICK n \in 0..Pieces : peer' = [peer EXCEPT ![c] = [peer[c] EXCEPT !.room = n]]
        BY <1>2, <3>3, IoAssumption DEF Congest, Relieve, NetTypes, PeerType
      <4> DEFINE q == [peer[c] EXCEPT !.room = n]
      <4>2. q \in PeerType /\ q.st = peer[c].st /\ q.sent = peer[c].sent /\ q.unread = peer[c].unread
        BY <1>2 DEF PeerType
      <4> HIDE DEF q
      <4> QED BY <3>0, <4>1, <4>2 DEF q
    <3> QED BY <1>6, <3>1, <3>2, <3>3
  <2>3. PICK q \in PeerType : /\ peer' = [peer EXCEPT ![c] = q] /\ q.st = peer[c].st
                             /\ q.sent - q.unread = peer[c].sent - peer[c].unread
                             /\ q.sent <= Frags * MaxRequests
    BY <2>2
  <2>4. \A d \in Clients : peer'[d] = IF d = c THEN q ELSE peer[d]
    BY <2>3 DEF NetTypes
  <2>5. \A d \in Clients : peer'[d].st = peer[d].st
    BY <2>3, <2>4
  <2>6. NetTypes'
    BY <1>1, <2>1, <2>3 DEF NetTypes
  <2>7. TableInv'
    BY <1>1, <2>5 DEF TableInv, Open, NetTypes
  <2>8. BacklogInv'
    <3>1. \A i \in 1..Len(backlog) : backlog[i] \in Clients
      BY DEF NetTypes
    <3> QED BY <2>1, <2>5, <3>1 DEF BacklogInv
  <2>9. Accepted' = Accepted
    BY <2>5 DEF Accepted
  <2>10. CountInv'
    BY <1>1, <2>9 DEF CountInv, OpenFds, Open
  <2>11. ReadInv'
    <3>0. q.unread <= q.sent
      BY <1>2, <2>3 DEF ReadInv, PeerType
    <3>1. \A d \in Clients : peer'[d].unread <= peer'[d].sent /\ peer'[d].sent <= Frags * MaxRequests
      BY <2>3, <2>4, <3>0 DEF ReadInv
    <3>2. ASSUME NEW fd \in Fds, Open(fd)
          PROVE  conns[fd].got + peer'[sock[fd]].unread <= peer'[sock[fd]].sent /\ conns[fd].last <= now
      <4>1. conns[fd] \in ConnType /\ sock[fd] \in Clients
        BY <3>2, HereFacts
      <4>2. conns[fd].got + peer[sock[fd]].unread <= peer[sock[fd]].sent /\ conns[fd].last <= now
        BY <3>2 DEF ReadInv
      <4>3. CASE sock[fd] = c
        BY <1>2, <2>3, <2>4, <4>1, <4>2, <4>3, IoAssumption DEF ConnType, PeerType
      <4>4. CASE sock[fd] # c
        BY <2>4, <4>1, <4>2, <4>4
      <4> QED BY <4>3, <4>4
    <3> QED BY <1>1, <3>1, <3>2 DEF ReadInv, Open
  <2> QED BY <1>3, <1>4, <2>6, <2>7, <2>8, <2>10, <2>11
<1> QED BY <1>5, <1>6 DEF ClientStep

LEMMA TickTable == ASSUME CoreInv, Tick PROVE TablePart'
<1> USE DEF CoreInv, TablePart
<1>1. now < MaxClock /\ now' = now + 1 /\ tick' = TRUE /\ UNCHANGED <<netVars, connVars>>
  BY DEF Tick
<1> USE DEF netVars, connVars
<1>2. NetTypes' /\ ConnTypes'
  BY <1>1, IoAssumption DEF NetTypes, ConnTypes
<1>3. TableInv' /\ BacklogInv' /\ ListedInv'
  BY <1>1 DEF TableInv, BacklogInv, ListedInv, Open, Node
<1>4. CountInv'
  BY <1>1 DEF CountInv, OpenFds, Accepted, Open
<1>5. ReadInv'
  <2>1. \A fd \in Fds : Open(fd) => conns[fd].last \in Nat
    BY HereFacts DEF ConnType
  <2> QED BY <1>1, <2>1, IoAssumption DEF ReadInv, Open, NetTypes
<1> QED BY <1>2, <1>3, <1>4, <1>5

LEMMA EpollWaitTable == ASSUME CoreInv, EpollWait PROVE TablePart'
<1> USE DEF CoreInv, TablePart
<1>1. edge' = FALSE /\ reg' = [fd \in Fds |-> IF fd \in ReadyFds THEN "off" ELSE reg[fd]]
      /\ UNCHANGED <<peer, answers, backlog, sock, now, tick, conns, timeouts, nextId, gauge>>
  BY DEF EpollWait, Disarm, clockVars, connVars
<1>2. NetTypes' /\ ConnTypes'
  BY <1>1 DEF NetTypes, ConnTypes, RegStates
<1>3. \A fd \in Fds : fd \in ReadyFds => reg[fd] \in {"in", "out"}
  BY DEF ReadyFds, Armed
<1>4. TableInv' /\ BacklogInv' /\ ListedInv' /\ ReadInv'
  BY <1>1, <1>3 DEF TableInv, BacklogInv, ListedInv, ReadInv, Open, Node
<1>5. CountInv'
  BY <1>1 DEF CountInv, OpenFds, Accepted, Open
<1> QED BY <1>2, <1>4, <1>5
LEMMA AcceptTable == ASSUME CoreInv, Accept PROVE TablePart'
<1> USE DEF CoreInv, TablePart
<1> DEFINE c == Head(backlog)
           id == nextId + 1
<1>1. PICK fd \in FreeFds :
        /\ timeouts' = Append(timeouts, [fd |-> fd, id |-> id])
        /\ \/ /\ conns' = [conns EXCEPT ![fd] = Fresh(id)]
              /\ reg' = [reg EXCEPT ![fd] = "in"]
              /\ sock' = [sock EXCEPT ![fd] = c]
              /\ peer' = [peer EXCEPT ![c].st = "open"]
              /\ gauge' = gauge + 1
           \/ /\ peer' = [peer EXCEPT ![c].st = "closed"]
              /\ UNCHANGED <<conns, reg, sock, gauge>>
  BY DEF Accept
<1>2. backlog # <<>> /\ backlog' = Tail(backlog) /\ nextId' = id
      /\ UNCHANGED <<answers, edge, now, tick>>
  BY DEF Accept, clockVars
<1>3. /\ c \in Clients /\ backlog' \in Seq(Clients) /\ Len(backlog) \in Nat /\ Len(backlog) >= 1
      /\ Len(backlog') = Len(backlog) - 1 /\ c = backlog[1]
      /\ \A i \in 1..Len(backlog') : backlog'[i] = backlog[i + 1] /\ i + 1 \in 1..Len(backlog)
  BY <1>2, HeadTailProperties, EmptySeq DEF NetTypes
<1>4. fd \in Fds /\ sock[fd] = NoClient /\ ~Open(fd) /\ reg[fd] = "none" /\ id \in Nat /\ id > nextId
  BY DEF FreeFds, TableInv, ConnTypes
<1>5. peer[c] \in PeerType /\ peer[c].st = "backlog"
  BY <1>3 DEF NetTypes, BacklogInv
<1> HIDE DEF c
<1> DEFINE Moved(s) == peer' = [peer EXCEPT ![c] = [peer[c] EXCEPT !.st = s]]
           Registered == /\ conns' = [conns EXCEPT ![fd] = Fresh(id)] /\ reg' = [reg EXCEPT ![fd] = "in"]
                         /\ sock' = [sock EXCEPT ![fd] = c] /\ gauge' = gauge + 1
           Unregistered == UNCHANGED <<conns, reg, sock, gauge>>
<1>6. (Moved("open") /\ Registered) \/ (Moved("closed") /\ Unregistered)
  <2>1. \A s : [peer EXCEPT ![c].st = s] = [peer EXCEPT ![c] = [peer[c] EXCEPT !.st = s]]
    BY <1>3, <1>5 DEF NetTypes, PeerType
  <2> QED BY <1>1, <2>1 DEF c
<1>7. PICK s \in {"open", "closed"} : Moved(s) /\ (s = "open" => Registered) /\ (s = "closed" => Unregistered)
  BY <1>6, "open" # "closed"
<1>8. [peer[c] EXCEPT !.st = s] \in PeerType
  BY <1>5 DEF PeerType
<1>9. /\ \A d \in Clients : d # c => peer'[d] = peer[d]
      /\ peer'[c].st = s /\ peer'[c].sent = peer[c].sent /\ peer'[c].unread = peer[c].unread
  BY <1>3, <1>5, <1>7 DEF NetTypes, PeerType
<1>10. Fresh(id) \in ConnType /\ Fresh(id) # NoConn /\ Fresh(id).id = id /\ Fresh(id).got = 0 /\ Fresh(id).last = now
  BY <1>4, FreshFacts
<1> DEFINE n == [fd |-> fd, id |-> id]
<1>11. n \in Nodes
  BY <1>4 DEF Nodes
<1> HIDE DEF id, n
<1>12. /\ timeouts' \in Seq(Nodes) /\ Len(timeouts') = Len(timeouts) + 1 /\ Len(timeouts) \in Nat
       /\ timeouts'[Len(timeouts) + 1] = n /\ \A i \in 1..Len(timeouts) : timeouts'[i] = timeouts[i]
  BY <1>1, <1>11, AppendProperties DEF ConnTypes, n
<1>13. NetTypes'
  BY <1>1, <1>2, <1>3, <1>7, <1>8 DEF NetTypes, RegStates
<1>14. ConnTypes'
  <2>1. gauge' \in Int
    BY <1>1 DEF ConnTypes
  <2> QED BY <1>1, <1>2, <1>4, <1>10, <1>12, <2>1 DEF ConnTypes
<1>15. \A d \in Fds : Open(d) => sock[d] # c /\ sock[d] \in Clients
  <2> SUFFICES ASSUME NEW d \in Fds, Open(d) PROVE sock[d] # c /\ sock[d] \in Clients
    OBVIOUS
  <2>1. peer[sock[d]].st = "open" /\ sock[d] \in Clients
    BY HereFacts DEF TableInv
  <2> QED BY <1>5, <2>1
<1>16. BacklogInv'
  <2>1. \A i \in 1..Len(backlog') : backlog'[i] # c /\ backlog'[i] \in Clients /\ peer[backlog'[i]].st = "backlog"
    <3> SUFFICES ASSUME NEW i \in 1..Len(backlog')
                 PROVE  backlog'[i] # c /\ backlog'[i] \in Clients /\ peer[backlog'[i]].st = "backlog"
      OBVIOUS
    <3>1. i + 1 \in 1..Len(backlog) /\ 1 \in 1..Len(backlog) /\ i + 1 # 1 /\ backlog'[i] = backlog[i + 1]
      BY <1>3
    <3> QED BY <1>3, <3>1 DEF BacklogInv, NetTypes
  <2>2. ASSUME NEW i \in 1..Len(backlog'), NEW j \in 1..Len(backlog'), backlog'[i] = backlog'[j]
        PROVE  i = j
    <3>1. i + 1 = j + 1
      BY <1>3, <2>2 DEF BacklogInv
    <3> QED BY <3>1
  <2> QED BY <1>9, <2>1, <2>2 DEF BacklogInv
<1>17. CountInv' <=> gauge' = Cardinality(OpenFds')
  <2>1. Accepted' = Accepted \cup {c} /\ c \notin Accepted
    BY <1>3, <1>5, <1>9 DEF Accepted
  <2>2. IsFiniteSet(Accepted)
    BY IoAssumption, FS_Subset DEF Accepted
  <2>3. Cardinality(Accepted') = Cardinality(Accepted) + 1
    BY <2>1, <2>2, FS_AddElement
  <2> QED BY <1>2, <2>3 DEF CountInv, id
<1>18. CASE s = "closed"
  <2>0. UNCHANGED <<conns, reg, sock, gauge>>
    BY <1>7, <1>18
  <2>1. TableInv'
    <3>1. \A g \in Fds : Open(g) => conns[g].id \in Nat
      BY HereFacts DEF ConnType
    <3> QED BY <1>2, <1>4, <1>9, <1>15, <2>0, <3>1 DEF TableInv, Open, ConnTypes
  <2>2. OpenFds' = OpenFds
    BY <2>0 DEF OpenFds, Open
  <2>3. ReadInv'
    BY <1>2, <1>9, <1>15, <2>0 DEF ReadInv, Open
  <2>4. ListedInv'
    BY <1>12, <2>0 DEF ListedInv, Open, Node
  <2>5. CountInv'
    BY <1>17, <2>0, <2>2 DEF CountInv
  <2> QED BY <1>13, <1>14, <1>16, <2>1, <2>3, <2>4, <2>5
<1>19. CASE s = "open"
  <2>0. Registered
    BY <1>7, <1>19
  <2>1. /\ conns'[fd] = Fresh(id) /\ reg'[fd] = "in" /\ sock'[fd] = c /\ Open(fd)'
        /\ \A g \in Fds : g # fd => /\ conns'[g] = conns[g] /\ reg'[g] = reg[g] /\ sock'[g] = sock[g]
                                    /\ Open(g)' <=> Open(g)
    BY <1>4, <1>10, <2>0 DEF NetTypes, ConnTypes, Open
  <2>2. c # NoClient
    BY <1>3, ModelValuesAssumption
  <2>3. \A g \in Fds : Open(g) => conns[g].id <= nextId /\ conns[g].id \in Nat
    BY HereFacts DEF TableInv, ConnType
  <2>4. TableInv'
    <3>1. ASSUME NEW g \in Fds
          PROVE  /\ Open(g)' <=> sock'[g] # NoClient
                 /\ Open(g)' <=> reg'[g] # "none"
                 /\ Open(g)' => conns'[g].id <= nextId' /\ peer'[sock'[g]].st = "open"
      <4>1. CASE g = fd
        <5>1. Fresh(id).id <= nextId' /\ peer'[c].st = "open"
          BY <1>2, <1>4, <1>9, <1>10, <1>19
        <5> QED BY <2>1, <2>2, <4>1, <5>1
      <4>2. CASE g # fd
        BY <1>2, <1>4, <1>9, <1>15, <2>1, <2>3, <4>2 DEF TableInv, ConnTypes
      <4> QED BY <4>1, <4>2
    <3>2. ASSUME NEW f \in Fds, NEW g \in Fds, Open(f)', Open(g)', f # g
          PROVE  conns'[f].id # conns'[g].id /\ sock'[f] # sock'[g]
      <4>1. CASE f = fd
        <5>1. Open(g) /\ conns[g].id <= nextId /\ conns[g].id \in Nat /\ sock[g] # c
          BY <1>15, <2>1, <2>3, <3>2, <4>1
        <5> QED BY <1>4, <1>10, <2>1, <3>2, <4>1, <5>1 DEF ConnTypes
      <4>2. CASE g = fd
        <5>1. Open(f) /\ conns[f].id <= nextId /\ conns[f].id \in Nat /\ sock[f] # c
          BY <1>15, <2>1, <2>3, <3>2, <4>2
        <5> QED BY <1>4, <1>10, <2>1, <3>2, <4>2, <5>1 DEF ConnTypes
      <4>3. CASE f # fd /\ g # fd
        BY <2>1, <3>2, <4>3 DEF TableInv
      <4> QED BY <4>1, <4>2, <4>3
    <3> QED BY <3>1, <3>2 DEF TableInv
  <2>5. Cardinality(OpenFds') = gauge'
    <3>1. OpenFds' = OpenFds \cup {fd} /\ fd \notin OpenFds
      BY <1>4, <2>1 DEF OpenFds
    <3>2. IsFiniteSet(OpenFds)
      BY IoAssumption, FS_Subset DEF OpenFds
    <3> QED BY <2>0, <3>1, <3>2, FS_AddElement DEF CountInv
  <2>6. ReadInv'
    <3>1. peer[c].unread <= peer[c].sent /\ peer[c].sent <= Frags * MaxRequests
      BY <1>3 DEF ReadInv
    <3>2. \A d \in Clients : peer'[d].unread <= peer'[d].sent /\ peer'[d].sent <= Frags * MaxRequests
      BY <1>9, <3>1 DEF ReadInv
    <3>3. ASSUME NEW g \in Fds, Open(g)'
          PROVE  conns'[g].got + peer'[sock'[g]].unread <= peer'[sock'[g]].sent /\ conns'[g].last <= now'
      <4>1. CASE g = fd
        <5>1. 0 + peer[c].unread <= peer[c].sent /\ now <= now
          BY <1>5, <3>1, IoAssumption DEF PeerType, NetTypes
        <5> QED BY <1>2, <1>9, <1>10, <2>1, <4>1, <5>1
      <4>2. CASE g # fd
        BY <1>2, <1>9, <1>15, <2>1, <3>3, <4>2 DEF ReadInv
      <4> QED BY <4>1, <4>2
    <3> QED BY <3>2, <3>3 DEF ReadInv
  <2>7. ListedInv'
    BY <1>10, <1>12, <2>1 DEF ListedInv, Node, n
  <2> QED BY <1>13, <1>14, <1>16, <1>17, <2>4, <2>5, <2>6, <2>7
<1> QED BY <1>18, <1>19
\* f says where each entry that was kept was in the timeout list.
WasAt(f, kept) ==
    /\ \A i, j \in 1..Len(timeouts') : i < j => f[i] < f[j]
    /\ \A i \in 1..Len(timeouts') : timeouts'[i] = timeouts[f[i]]
    /\ \A k \in kept : \E i \in 1..Len(timeouts') : f[i] = k

\* The timeout list without the entries that are not kept, in the same order.
LEMMA LeaveOnlyFacts ==
    ASSUME timeouts \in Seq(Nodes), NEW kept, kept \subseteq 1..Len(timeouts), LeaveOnly(kept)
    PROVE  /\ timeouts' \in Seq(Nodes)
           /\ \E f \in [1..Len(timeouts') -> kept] : WasAt(f, kept)
<1> DEFINE n == Cardinality(kept)
<1>1. IsFiniteSet(kept) /\ n \in Nat /\ Len(timeouts) \in Nat
  <2>1. Len(timeouts) \in Nat
    OBVIOUS
  <2>2. IsFiniteSet(1..Len(timeouts))
    BY <2>1, FS_Interval
  <2>3. IsFiniteSet(kept)
    BY <2>2, FS_Subset
  <2> QED BY <2>1, <2>3, FS_CardinalityType
<1>2. IsFiniteSet(1..n) /\ Cardinality(1..n) = n
  BY <1>1, FS_Interval
<1>3. PICK f \in [1..n -> kept] :
        /\ \A i, j \in 1..n : i < j => f[i] < f[j]
        /\ timeouts' = [i \in 1..n |-> timeouts[f[i]]]
  BY DEF LeaveOnly
<1> HIDE DEF n
<1>4. \A i \in 1..n : f[i] \in 1..Len(timeouts) /\ timeouts[f[i]] \in Nodes
  BY <1>3, ElementOfSeq
<1>5. timeouts' \in [1..n -> Nodes]
  BY <1>3, <1>4
<1>6. timeouts' \in Seq(Nodes) /\ Len(timeouts') = n
  BY <1>1, <1>5
<1>7. f \in Injection(1..n, kept)
  <2>1. ASSUME NEW i \in 1..n, NEW j \in 1..n, f[i] = f[j] PROVE i = j
    <3>1. i < j \/ j < i \/ i = j
      BY <1>1
    <3> QED BY <1>3, <1>4, <2>1, <3>1
  <2> QED BY <1>3, <2>1, Fun_IsInj
<1>8. f \in Surjection(1..n, kept)
  BY <1>1, <1>2, <1>7, FS_Injection DEF n
<1>9. \A k \in kept : \E i \in 1..n : f[i] = k
  BY <1>8 DEF Surjection
<1>10. f \in [1..Len(timeouts') -> kept] /\ WasAt(f, kept)
  BY <1>3, <1>6, <1>9 DEF WasAt
<1> QED BY <1>6, <1>10

\* No entry that is kept is lost.
LEMMA KeptEntries ==
    ASSUME timeouts \in Seq(Nodes), NEW kept, kept \subseteq 1..Len(timeouts), LeaveOnly(kept),
           NEW k \in kept
    PROVE  \E i \in 1..Len(timeouts') : timeouts'[i] = timeouts[k]
<1>1. PICK f \in [1..Len(timeouts') -> kept] : WasAt(f, kept)
  BY LeaveOnlyFacts
<1>2. PICK i \in 1..Len(timeouts') : f[i] = k
  BY <1>1 DEF WasAt
<1> QED BY <1>1, <1>2 DEF WasAt

LEMMA TimerTable == ASSUME CoreInv, OnTimerTick PROVE TablePart'
<1> USE DEF CoreInv, TablePart
<1>1. /\ tick' = FALSE /\ LeaveOnly(Left)
      /\ conns' = [fd \in Fds |-> IF fd \in Expired THEN NoConn ELSE conns[fd]]
      /\ reg' = [fd \in Fds |-> IF fd \in Expired THEN "none" ELSE reg[fd]]
      /\ sock' = [fd \in Fds |-> IF fd \in Expired THEN NoClient ELSE sock[fd]]
      /\ peer' = [c \in Clients |-> IF \E fd \in Expired : sock[fd] = c
                                    THEN [peer[c] EXCEPT !.st = "closed"] ELSE peer[c]]
      /\ gauge' = gauge - Cardinality(Expired)
      /\ UNCHANGED <<answers, backlog, edge, now, nextId>>
  BY DEF OnTimerTick, GaugeAfterTimeouts
<1>2. Expired \subseteq OpenFds
  BY DEF Expired, OpenFds
<1>3. \A g \in Fds : Open(g) => sock[g] \in Clients /\ peer[sock[g]].st = "open" /\ conns[g] \in ConnType
  BY HereFacts DEF TableInv
<1>4. Left \subseteq 1..Len(timeouts) /\ timeouts \in Seq(Nodes)
  BY DEF Left, ConnTypes
<1>5. timeouts' \in Seq(Nodes)
  BY <1>1, <1>4, LeaveOnlyFacts
<1>6. IsFiniteSet(OpenFds) /\ IsFiniteSet(Expired) /\ Cardinality(Expired) \in Nat
  BY <1>2, IoAssumption, FS_Subset, FS_CardinalityType DEF OpenFds
<1>7. \A c \in Clients : /\ peer'[c] \in PeerType /\ peer'[c].sent = peer[c].sent
                         /\ peer'[c].unread = peer[c].unread
                         /\ peer'[c].st = IF \E fd \in Expired : sock[fd] = c THEN "closed" ELSE peer[c].st
  <2> SUFFICES ASSUME NEW c \in Clients
               PROVE  /\ peer'[c] \in PeerType /\ peer'[c].sent = peer[c].sent
                      /\ peer'[c].unread = peer[c].unread
                      /\ peer'[c].st = IF \E fd \in Expired : sock[fd] = c THEN "closed" ELSE peer[c].st
    OBVIOUS
  <2> DEFINE e == \E fd \in Expired : sock[fd] = c
             o == peer[c]
  <2>1. o \in PeerType
    BY DEF NetTypes
  <2>2. peer'[c] = IF e THEN [o EXCEPT !.st = "closed"] ELSE o
    BY <1>1
  <2> HIDE DEF e, o, CoreInv, TablePart
  <2>3. [o EXCEPT !.st = "closed"] \in PeerType
    BY <2>1 DEF PeerType
  <2>4. /\ peer'[c] \in PeerType /\ peer'[c].sent = o.sent /\ peer'[c].unread = o.unread
        /\ peer'[c].st = IF e THEN "closed" ELSE o.st
    BY <2>1, <2>2, <2>3 DEF PeerType
  <2> QED BY <2>4 DEF e, o
<1>8. NetTypes'
  BY <1>1, <1>7 DEF NetTypes, RegStates
<1>9. ConnTypes'
  BY <1>1, <1>5, <1>6 DEF ConnTypes
<1>10. \A g \in Fds : /\ (Open(g)' <=> (Open(g) /\ g \notin Expired))
                     /\ (g \notin Expired => conns'[g] = conns[g] /\ reg'[g] = reg[g] /\ sock'[g] = sock[g])
                     /\ (g \in Expired => reg'[g] = "none" /\ sock'[g] = NoClient)
  BY <1>1 DEF Open
<1>11. \A g \in Fds : Open(g)' => peer'[sock[g]].st = "open"
  <2> SUFFICES ASSUME NEW g \in Fds, Open(g)' PROVE peer'[sock[g]].st = "open"
    OBVIOUS
  <2>1. Open(g) /\ g \notin Expired /\ sock[g] \in Clients
    BY <1>3, <1>10
  <2>2. \A fd \in Expired : sock[fd] # sock[g]
    BY <1>2, <2>1 DEF TableInv, OpenFds
  <2> QED BY <1>3, <1>7, <2>1, <2>2
<1>12. TableInv'
  BY <1>1, <1>10, <1>11 DEF TableInv
<1>13. BacklogInv'
  <2>0. \A i \in 1..Len(backlog) : backlog[i] \in Clients /\ peer[backlog[i]].st = "backlog"
    BY DEF BacklogInv, NetTypes
  <2>1. \A i \in 1..Len(backlog) : backlog[i] \in Clients /\ \A fd \in Expired : sock[fd] # backlog[i]
    <3> HIDE DEF CoreInv, TablePart
    <3>1. \A fd \in Expired : peer[sock[fd]].st = "open"
      BY <1>2, <1>3 DEF OpenFds
    <3> QED BY <2>0, <3>1
  <2> QED BY <1>1, <1>7, <2>1 DEF BacklogInv
<1>14. CountInv'
  <2>1. Accepted' = Accepted
    BY <1>2, <1>3, <1>7 DEF Accepted, OpenFds
  <2>2. OpenFds' = OpenFds \ Expired
    BY <1>10 DEF OpenFds
  <2>3. Cardinality(OpenFds \ Expired) = Cardinality(OpenFds) - Cardinality(OpenFds \cap Expired)
    BY <1>6, FS_Difference
  <2>4. OpenFds \cap Expired = Expired
    BY <1>2
  <2> QED BY <1>1, <2>1, <2>2, <2>3, <2>4 DEF CountInv
<1>15. ReadInv'
  <2>1. \A d \in Clients : peer'[d].unread <= peer'[d].sent /\ peer'[d].sent <= Frags * MaxRequests
    BY <1>7 DEF ReadInv
  <2>2. \A g \in Fds : Open(g)' => /\ conns'[g].got + peer'[sock'[g]].unread <= peer'[sock'[g]].sent
                                  /\ conns'[g].last <= now'
    BY <1>1, <1>3, <1>7, <1>10 DEF ReadInv
  <2> QED BY <2>1, <2>2 DEF ReadInv
<1>16. ListedInv'
  <2> SUFFICES ASSUME NEW g \in Fds, Open(g)'
               PROVE  \E i \in 1..Len(timeouts') : timeouts'[i] = Node(g)'
    BY DEF ListedInv
  <2>1. Open(g) /\ g \notin Expired /\ Node(g)' = Node(g) /\ Node(g).fd = g
    BY <1>10 DEF Node
  <2>2. PICK k \in 1..Len(timeouts) : timeouts[k] = Node(g)
    BY <2>1 DEF ListedInv
  <2>3. k \in Left
    BY <2>1, <2>2 DEF Left
  <2>4. LeaveOnly(Left)
    BY <1>1
  <2> HIDE DEF Left, CoreInv, TablePart
  <2>5. \E i \in 1..Len(timeouts') : timeouts'[i] = timeouts[k]
    BY <1>4, <2>3, <2>4, KeptEntries
  <2> QED BY <2>1, <2>2, <2>5
<1> QED BY <1>8, <1>9, <1>12, <1>13, <1>14, <1>15, <1>16

\* The steps that leave the table alone.
Quiet ==
    \/ TestRunning \/ OnConnect \/ AcceptEnds \/ UnknownFd \/ ReadMovedParser \/ ReadEventFd
    \/ Collect \/ Answered \/ DrainTasks \/ DrainQueue \/ DrainSpecial
    \/ WorkerStart \/ (\E r \in Requests : WorkerStep(r)) \/ StopRunning \/ MainStep
    \/ UNCHANGED vars

LEMMA NextCases ==
    ASSUME [Next]_vars
    PROVE  \/ \E c \in Clients : ClientStep(c)
           \/ Tick \/ EpollWait \/ Accept \/ OnTimerTick \/ Handler \/ Quiet
  BY DEF Next, IoStep, Handler, Quiet, Terminated

LEMMA QuietTable == ASSUME Quiet PROVE UNCHANGED tableVars
<1>1. CASE TestRunning \/ OnConnect \/ AcceptEnds \/ UnknownFd \/ ReadMovedParser \/ ReadEventFd
  BY <1>1 DEF TestRunning, OnConnect, AcceptEnds, UnknownFd, ReadMovedParser, ReadEventFd,
       othersThanLoop, tableVars
<1>2. CASE Collect \/ Answered \/ DrainTasks \/ DrainQueue \/ DrainSpecial
  BY <1>2 DEF Collect, Answered, DrainTasks, DrainQueue, DrainSpecial, othersThanLoop, tableVars
<1>3. CASE WorkerStart \/ \E r \in Requests : WorkerStep(r)
  BY <1>3 DEF WorkerStart, WorkerStep, WorkerPush, WorkerSignal, WorkerThrows, WorkerSettle,
       othersThanTasks, tableVars
<1>4. CASE StopRunning \/ MainStep
  BY <1>4 DEF StopRunning, MainStep, StopResponseQueue, CloseDescriptors, StopPool,
       othersThanMain, tableVars
<1>5. CASE UNCHANGED vars
  BY <1>5 DEF vars, tableVars
<1> QED BY <1>1, <1>2, <1>3, <1>4, <1>5 DEF Quiet

LEMMA TableStep == ASSUME CoreInv, [Next]_vars PROVE TablePart'
<1>1. TablePart
  BY DEF CoreInv, TablePart
<1>2. CASE \E c \in Clients : ClientStep(c)
  BY <1>2, ClientTable
<1>3. CASE Tick \/ EpollWait \/ Accept \/ OnTimerTick
  BY <1>3, TickTable, EpollWaitTable, AcceptTable, TimerTable
<1>4. ASSUME UNCHANGED tableVars PROVE TablePart'
  BY <1>1, <1>4 DEF tableVars, netVars, clockVars, connVars, TablePart, NetTypes, ConnTypes,
     TableInv, BacklogInv, CountInv, ReadInv, ListedInv, OpenFds, Accepted, Open, Node
<1>5. CASE Handler
  BY <1>1, <1>4, <1>5, HandlerStep, CommitTable
<1>6. CASE Quiet
  BY <1>4, <1>6, QuietTable
<1> QED BY <1>2, <1>3, <1>5, <1>6, NextCases
-----------------------------------------------------------------------------
(* Whole numbers of requests and of responses *)

LEMMA DivFacts ==
    ASSUME NEW a \in Nat, NEW b \in Nat \ {0}
    PROVE  a \div b \in Nat /\ b * (a \div b) <= a /\ a < b * (a \div b) + b
  OBVIOUS

LEMMA MulGrows ==
    ASSUME NEW b \in Nat \ {0}, NEW m \in Nat, NEW q \in Nat
    PROVE  /\ m < q => b * m + b <= b * q
           /\ m <= q => b * m <= b * q
  OBVIOUS

LEMMA DivBetween ==
    ASSUME NEW a \in Nat, NEW b \in Nat \ {0}, NEW m \in Nat, a <= b * m
    PROVE  /\ a \div b <= m
           /\ b <= a => a \div b >= 1
<1> DEFINE q == a \div b
<1>1. q \in Nat /\ b * q <= a /\ a < b * q + b
  BY DivFacts
<1>2. m < q => b * m + b <= b * q
  BY <1>1, MulGrows
<1>3. q < 1 => q = 0 /\ b * q = 0
  BY <1>1
<1>4. b * m \in Nat /\ b * q \in Nat
  BY <1>1
<1> HIDE DEF q
<1>5. q <= m /\ (b <= a => q >= 1)
  BY <1>1, <1>2, <1>3, <1>4
<1> QED BY <1>5 DEF q
-----------------------------------------------------------------------------
(* The loop: batches, responses, control *)

LEMMA AfterEventFacts ==
    ASSUME NEW rest \in Seq(Events), draining \in BOOLEAN, AfterEvent(rest)
    PROVE  /\ batch' = rest /\ batch' \in Seq(Events) /\ io' \in {"event", "tasks", "test"}
           /\ io' = "event" <=> rest # <<>>
           /\ io' = "test" => ~draining
           /\ io' = "tasks" => draining
  BY DEF AfterEvent

LEMMA FdEventFacts ==
    ASSUME TablePart, NEW fd \in Fds, Armed(fd)
    PROVE  FdEvent(fd) \in FdEvents /\ Open(fd) /\ sock[fd] \in Clients /\ peer[sock[fd]] \in PeerType
<1>1. Open(fd)
  BY DEF Armed, TablePart, TableInv
<1>2. sock[fd] \in Clients /\ peer[sock[fd]] \in PeerType
  BY <1>1, HereFacts DEF TablePart
<1>3. peer[sock[fd]].fin \in BOOLEAN /\ peer[sock[fd]].rst \in BOOLEAN
  BY <1>2 DEF PeerType
<1> QED BY <1>1, <1>2, <1>3 DEF FdEvent, FdEvents

LEMMA ReadyFacts ==
    ASSUME TablePart
    PROVE  ReadyEvents \subseteq Events /\ IsFiniteSet(ReadyEvents)
<1> DEFINE spec == {x \in SpecialSources :
                \/ x = "listen" /\ edge /\ backlog # <<>>
                \/ x = "timer" /\ tick
                \/ x = "eventfd" /\ event}
           A == {FdEvent(fd) : fd \in ReadyFds}
           B == {[src |-> s] : s \in spec}
<1>1. ReadyEvents = A \cup B
  BY DEF ReadyEvents
<1>2. A \subseteq FdEvents
  BY FdEventFacts DEF ReadyFds
<1>3. B \subseteq [src : SpecialSources]
  OBVIOUS
<1>4. IsFiniteSet(A)
  <2>1. IsFiniteSet(ReadyFds)
    BY IoAssumption, FS_Subset DEF ReadyFds
  <2> DEFINE f == [fd \in ReadyFds |-> FdEvent(fd)]
  <2>2. f \in Surjection(ReadyFds, A)
    BY DEF Surjection
  <2> HIDE DEF f, A
  <2> QED BY <2>1, <2>2, FS_Surjection
<1>5. IsFiniteSet(B)
  <2>1. IsFiniteSet({"listen"}) /\ IsFiniteSet({"timer"}) /\ IsFiniteSet({"eventfd"})
    BY FS_Singleton
  <2>2. IsFiniteSet(SpecialSources)
    <3>1. SpecialSources = ({"listen"} \cup {"timer"}) \cup {"eventfd"}
      BY DEF SpecialSources
    <3>2. IsFiniteSet({"listen"} \cup {"timer"})
      BY <2>1, FS_Union
    <3> QED BY <2>1, <3>1, <3>2, FS_Union
  <2>3. IsFiniteSet(spec)
    BY <2>2, FS_Subset
  <2> HIDE DEF spec
  <2> DEFINE f == [s \in spec |-> [src |-> s]]
  <2>4. f \in Surjection(spec, B)
    BY DEF Surjection
  <2> HIDE DEF f, B
  <2> QED BY <2>3, <2>4, FS_Surjection
<1>6. IsFiniteSet(A \cup B)
  BY <1>4, <1>5, FS_Union
<1> QED BY <1>1, <1>2, <1>3, <1>6 DEF Events

LEMMA OrdersFacts ==
    ASSUME TablePart, NEW b \in Orders(ReadyEvents)
    PROVE  /\ b \in Seq(Events) /\ Len(b) = Cardinality(ReadyEvents)
           /\ \A i \in 1..Len(b) : b[i] \in ReadyEvents
           /\ \A i, j \in 1..Len(b) : b[i] = b[j] => i = j
           /\ \A e \in ReadyEvents : \E i \in 1..Len(b) : b[i] = e
<1>1. Cardinality(ReadyEvents) \in Nat /\ ReadyEvents \subseteq Events
  BY ReadyFacts, FS_CardinalityType
<1>2. b \in [1..Cardinality(ReadyEvents) -> ReadyEvents]
  BY DEF Orders
<1>3. b \in Seq(ReadyEvents) /\ Len(b) = Cardinality(ReadyEvents)
  BY <1>1, <1>2
<1>4. b \in Seq(Events)
  BY <1>1, <1>2
<1>5. \A i \in 1..Len(b) : b[i] \in ReadyEvents
  BY <1>2, <1>3
<1> DEFINE n == Cardinality(ReadyEvents)
<1>6. IsFiniteSet(1..n) /\ Cardinality(1..n) = n /\ IsFiniteSet(ReadyEvents)
  BY <1>1, FS_Interval, ReadyFacts
<1>7. b \in Injection(1..n, ReadyEvents)
  <2> HIDE DEF n
  <2> QED BY <1>2, Fun_IsInj DEF Orders, n
<1>8. b \in Surjection(1..n, ReadyEvents)
  BY <1>6, <1>7, FS_Injection
<1>9. \A e \in ReadyEvents : \E i \in 1..n : b[i] = e
  BY <1>8 DEF Surjection
<1> QED BY <1>2, <1>3, <1>4, <1>5, <1>9 DEF Orders

\* The request that has just become complete is one of its client's.
RequestOf(fd) == <<sock[fd], peer[sock[fd]].sent \div Frags>>

LEMMA RequestOfFacts ==
    ASSUME TablePart, NEW fd \in Fds, Open(fd), Complete(SocketRead(Here(fd), peer[sock[fd]]))
    PROVE  RequestOf(fd) \in Requests
<1> DEFINE c == sock[fd]
           p == peer[c]
           l == SocketRead(Here(fd), p)
<1>1. c \in Clients /\ p \in PeerType /\ conns[fd] \in ConnType
  BY HereFacts DEF TablePart
<1>2. l.conn # NoConn /\ l.conn.got = Frags
  BY DEF Complete
<1>3. l.conn.got = GotAfter(conns[fd], p)
  <2> HIDE DEF p, l
  <2>1. l.conn # NoConn => l.conn = [conns[fd] EXCEPT !.got = GotAfter(conns[fd], p), !.last = now,
                                                       !.caw = @ \/ p.fin]
    BY ReadHere DEF l, p
  <2> QED BY <1>1, <1>2, <2>1 DEF ConnType
<1> HIDE DEF l
<1>4. conns[fd].got + p.unread <= p.sent /\ p.sent <= Frags * MaxRequests
  BY <1>1 DEF TablePart, ReadInv
<1>5. Frags <= p.sent /\ p.sent \in Nat
  BY <1>1, <1>2, <1>3, <1>4, IoAssumption DEF GotAfter, ConnType, PeerType
<1> HIDE DEF p
<1>6. p.sent \div Frags <= MaxRequests /\ p.sent \div Frags >= 1 /\ p.sent \div Frags \in Nat
  BY <1>4, <1>5, DivBetween, DivFacts, IoAssumption
<1> HIDE DEF c
<1>7. RequestOf(fd) = <<c, p.sent \div Frags>>
  BY DEF RequestOf, p, c
<1> QED BY <1>1, <1>6, <1>7, IoAssumption DEF Requests

LEMMA RespondFacts ==
    ASSUME TablePart, LoopTypes, NEW fd \in Fds, Open(fd), NEW r \in Requests, Respond(fd, r)
    PROVE  /\ event' = TRUE /\ respq' \in Seq(Items) /\ Len(respq') = Len(respq) + 1
           /\ respq'[Len(respq) + 1] = [fd |-> fd, id |-> conns[fd].id, req |-> r]
           /\ \A i \in 1..Len(respq) : respq'[i] = respq[i]
<1>1. [fd |-> fd, id |-> conns[fd].id, req |-> r] \in Items
  BY HereFacts DEF TablePart, Items, ConnType
<1> QED BY <1>1, AppendProperties DEF Respond, LoopTypes

\* What OnRequest does to the pool and to the queue of responses.
LEMMA OnRequestCases ==
    ASSUME TablePart, OnRequest
    PROVE  LET fd == Ev.src
               r == RequestOf(fd)
           IN  /\ fd \in Fds /\ Open(fd) /\ r \in Requests
               /\ \/ Respond(fd, r) /\ UNCHANGED taskVars
                  \/ Respond(fd, r) /\ Pool!Refuse(r) /\ UNCHANGED <<origin, unsignalled>>
                  \/ /\ Pool!Accept(r) /\ origin' = [origin EXCEPT ![r] = Node(fd)]
                     /\ UNCHANGED <<respq, event, unsignalled>>
<1> DEFINE fd == Ev.src
           r == RequestOf(fd)
<1>1. fd \in Fds /\ Open(fd) /\ Complete(SocketRead(Here(fd), peer[sock[fd]]))
  BY DEF OnRequest
<1>2. r \in Requests
  BY <1>1, RequestOfFacts
<1>3. \/ Respond(fd, r) /\ UNCHANGED taskVars
      \/ Respond(fd, r) /\ Pool!Refuse(r) /\ UNCHANGED <<origin, unsignalled>>
      \/ /\ Pool!Accept(r) /\ origin' = [origin EXCEPT ![r] = Node(fd)]
         /\ UNCHANGED <<respq, event, unsignalled>>
  BY DEF OnRequest, RequestOf
<1> QED BY <1>1, <1>2, <1>3

\* Where a handler's step leaves the loop.
LEMMA HandlerLoop ==
    ASSUME CoreInv, Handler
    PROVE  /\ LoopTypes' /\ Control'
           /\ UNCHANGED <<draining, halted, mainVars>>
<1> USE DEF CoreInv
<1>0. TablePart
  BY DEF TablePart
<1>1. ASSUME NEW fd \in Fds, Open(fd), NoteInherited(fd)
      PROVE  inherited' \subseteq Clients
  BY <1>0, <1>1, HereFacts DEF NoteInherited, LoopTypes, TablePart
<1>2. ASSUME io = "event", AfterEvent(Tail(batch)), UNCHANGED draining
      PROVE  batch' \in Seq(Events) /\ io' \in IoPlaces /\ Control'
  <2>1. Tail(batch) \in Seq(Events)
    BY <1>2, EvFacts
  <2>2. /\ batch' = Tail(batch) /\ batch' \in Seq(Events) /\ io' \in {"event", "tasks", "test"}
        /\ io' = "event" <=> Tail(batch) # <<>>
        /\ io' = "test" => ~draining
        /\ io' = "tasks" => draining
    BY <1>2, <2>1, AfterEventFacts DEF LoopTypes
  <2> QED BY <1>2, <2>2 DEF Control, IoPlaces
<1>3. CASE OnRead \/ ReadTooLarge \/ OnWrite \/ DrainEvent
  <2>1. /\ io = "event" /\ Ev.src \in Fds /\ Open(Ev.src) /\ NoteInherited(Ev.src)
        /\ AfterEvent(Tail(batch))
        /\ UNCHANGED <<draining, found, respq, event, mainVars, halted, failed>>
    BY <1>3 DEF OnRead, ReadTooLarge, OnWrite, DrainEvent
  <2>2. inherited' \subseteq Clients
    BY <1>1, <2>1
  <2> QED BY <1>2, <2>1, <2>2 DEF LoopTypes, mainVars
<1>4. CASE OnRequest
  <2>1. /\ io = "event" /\ Ev.src \in Fds /\ Open(Ev.src) /\ NoteInherited(Ev.src)
        /\ AfterEvent(Tail(batch))
        /\ UNCHANGED <<draining, found, mainVars, halted, failed>>
    BY <1>4 DEF OnRequest
  <2>2. inherited' \subseteq Clients
    BY <1>1, <2>1
  <2>3. respq' \in Seq(Items) /\ event' \in BOOLEAN
    BY <1>0, <1>4, OnRequestCases, RespondFacts DEF LoopTypes
  <2> QED BY <1>2, <2>1, <2>2, <2>3 DEF LoopTypes, mainVars
<1>5. CASE Answer
  <2>1. found # <<>> /\ found' = Tail(found) /\ UNCHANGED <<io, draining, batch, respq, event, mainVars, ghostVars>>
    BY <1>5 DEF Answer
  <2>2. found' \in Seq(Items)
    BY <2>1, HeadTailProperties DEF LoopTypes
  <2> QED BY <2>1, <2>2 DEF LoopTypes, mainVars, ghostVars, Control
<1> QED BY <1>3, <1>4, <1>5 DEF Handler

LEMMA LoopStep == ASSUME CoreInv, [Next]_vars PROVE LoopTypes' /\ Control'
<1> USE DEF CoreInv
<1>0. TablePart
  BY DEF TablePart
<1>1. ASSUME UNCHANGED <<loopVars, respq, event, mainVars, ghostVars>> PROVE LoopTypes' /\ Control'
  BY <1>1 DEF loopVars, mainVars, ghostVars, LoopTypes, Control
<1>2. ASSUME io \in {"event", "accept"}, AfterEvent(Tail(batch)), UNCHANGED draining
      PROVE  batch' \in Seq(Events) /\ io' \in IoPlaces /\ Control'
  <2>1. Tail(batch) \in Seq(Events)
    BY <1>2, HeadTailProperties DEF LoopTypes, Control
  <2>2. /\ batch' = Tail(batch) /\ batch' \in Seq(Events) /\ io' \in {"event", "tasks", "test"}
        /\ io' = "event" <=> Tail(batch) # <<>>
        /\ io' = "test" => ~draining
        /\ io' = "tasks" => draining
    BY <1>2, <2>1, AfterEventFacts DEF LoopTypes
  <2> QED BY <1>2, <2>2 DEF Control, IoPlaces
<1>3. ASSUME NEW c \in Clients, ClientStep(c) PROVE LoopTypes' /\ Control'
  BY <1>1, <1>3 DEF ClientStep, Connect, Send, HangUp, Congest, Relieve, othersThanPeer
<1>4. CASE Tick \/ Accept
  BY <1>1, <1>4 DEF Tick, Accept
<1>5. CASE EpollWait
  <2>1. io = "wait" /\ UNCHANGED <<draining, found, respq, event, mainVars, ghostVars>>
    BY <1>5 DEF EpollWait
  <2>2. PICK b \in Orders(ReadyEvents) : AfterEvent(b)
    BY <1>5 DEF EpollWait
  <2>3. b \in Seq(Events)
    BY <1>0, OrdersFacts
  <2>4. /\ batch' = b /\ batch' \in Seq(Events) /\ io' \in {"event", "tasks", "test"}
        /\ io' = "event" <=> b # <<>>
        /\ io' = "test" => ~draining
        /\ io' = "tasks" => draining
    BY <2>2, <2>3, AfterEventFacts DEF LoopTypes
  <2> QED BY <2>1, <2>4 DEF LoopTypes, Control, IoPlaces, mainVars, ghostVars
<1>6. CASE OnTimerTick
  <2>1. io = "event" /\ AfterEvent(Tail(batch)) /\ UNCHANGED <<draining, found, respq, event, mainVars, ghostVars>>
    BY <1>6 DEF OnTimerTick, Handling
  <2> QED BY <1>2, <2>1 DEF LoopTypes, mainVars, ghostVars
<1>7. CASE Handler
  BY <1>7, HandlerLoop
<1>8. CASE Quiet
  <2>1. CASE TestRunning \/ OnConnect \/ ReadMovedParser \/ ReadEventFd
    <3>1. /\ io' \in IoPlaces /\ event' \in BOOLEAN /\ draining' \in BOOLEAN /\ Control'
          /\ UNCHANGED <<batch, found, respq, mainVars, ghostVars>>
      <4>1. CASE TestRunning
        BY <4>1 DEF TestRunning, othersThanLoop, LoopTypes, Control, IoPlaces, mainVars
      <4>2. CASE OnConnect
        BY <4>2 DEF OnConnect, Handling, othersThanLoop, LoopTypes, Control, IoPlaces
      <4>3. CASE ReadMovedParser
        BY <4>3 DEF ReadMovedParser, othersThanLoop, LoopTypes, Control, IoPlaces
      <4>4. CASE ReadEventFd
        BY <4>4 DEF ReadEventFd, Handling, LoopTypes, Control, IoPlaces
      <4> QED BY <2>1, <4>1, <4>2, <4>3, <4>4
    <3> QED BY <3>1 DEF LoopTypes, mainVars, ghostVars
  <2>2. CASE UnknownFd \/ DrainSpecial
    <3>1. io = "event" /\ AfterEvent(Tail(batch)) /\ UNCHANGED <<draining, found, respq, event, mainVars, ghostVars>>
      BY <2>2 DEF UnknownFd, DrainSpecial, othersThanLoop
    <3> QED BY <1>2, <3>1 DEF LoopTypes, mainVars, ghostVars
  <2>3. CASE AcceptEnds
    <3>1. /\ io = "accept" /\ AfterEvent(Tail(batch)) /\ halted' \in BOOLEAN
          /\ UNCHANGED <<draining, found, respq, event, mainVars, inherited, failed>>
      BY <2>3 DEF AcceptEnds
    <3> QED BY <1>2, <3>1 DEF LoopTypes, mainVars
  <2>4. CASE Collect
    <3>1. <<>> \in Seq(Items)
      BY EmptySeq
    <3> QED BY <2>4, <3>1 DEF Collect, LoopTypes, Control, IoPlaces, mainVars, ghostVars
  <2>5. CASE Answered
    <3>1. io = "answer" /\ UNCHANGED <<draining, found, respq, event, mainVars, ghostVars>>
      BY <2>5 DEF Answered, othersThanLoop
    <3>2. CASE draining
      BY <2>5, <3>1, <3>2 DEF Answered, LoopTypes, Control, IoPlaces, mainVars, ghostVars
    <3>3. CASE ~draining
      <4>1. AfterEvent(Tail(batch)) /\ Tail(batch) \in Seq(Events)
        BY <2>5, <3>1, <3>3, HeadTailProperties DEF Answered, LoopTypes, Control
      <4>2. /\ batch' = Tail(batch) /\ batch' \in Seq(Events) /\ io' \in {"event", "tasks", "test"}
            /\ io' = "event" <=> Tail(batch) # <<>>
            /\ io' = "test" => ~draining
            /\ io' = "tasks" => draining
        BY <4>1, AfterEventFacts DEF LoopTypes
      <4> QED BY <3>1, <4>2 DEF LoopTypes, Control, IoPlaces, mainVars, ghostVars
    <3> QED BY <3>2, <3>3 DEF LoopTypes
  <2>6. CASE DrainTasks \/ DrainQueue
    BY <2>6 DEF DrainTasks, DrainQueue, othersThanLoop, LoopTypes, Control, IoPlaces, mainVars, ghostVars
  <2>7. CASE WorkerStart
    BY <1>1, <2>7 DEF WorkerStart, othersThanTasks
  <2>8. ASSUME NEW r \in Requests, WorkerStep(r) PROVE LoopTypes' /\ Control'
    <3>1. CASE WorkerPush(r)
      <4>1. origin[r] \in Nodes /\ UNCHANGED <<event, loopVars, mainVars, ghostVars>>
        BY <3>1 DEF WorkerPush, TaskInv, othersThanTasks
      <4>2. [fd |-> origin[r].fd, id |-> origin[r].id, req |-> r] \in Items
        BY <4>1 DEF Nodes, Items
      <4>3. respq' \in Seq(Items)
        BY <3>1, <4>2, AppendProperties DEF WorkerPush, LoopTypes
      <4> QED BY <4>1, <4>3 DEF LoopTypes, Control, loopVars, mainVars, ghostVars
    <3>2. CASE WorkerSignal(r) \/ WorkerThrows(r) \/ WorkerSettle(r)
      <4>1. /\ event' \in BOOLEAN /\ failed' \subseteq Requests
            /\ UNCHANGED <<respq, loopVars, mainVars, inherited, halted>>
        <5>1. CASE WorkerSignal(r) \/ WorkerSettle(r)
          BY <5>1 DEF WorkerSignal, WorkerSettle, othersThanTasks, LoopTypes, ghostVars
        <5>2. CASE WorkerThrows(r)
          BY <2>8, <5>2 DEF WorkerThrows, LoopTypes
        <5> QED BY <3>2, <5>1, <5>2
      <4> QED BY <4>1 DEF LoopTypes, Control, loopVars, mainVars
    <3> QED BY <2>8, <3>1, <3>2 DEF WorkerStep
  <2>9. CASE StopRunning \/ MainStep
    <3>1. /\ event' \in BOOLEAN /\ running' \in BOOLEAN
          /\ main' \in {"serving", "flagged", "joining", "closing", "destroyed"}
          /\ UNCHANGED <<respq, loopVars, ghostVars>>
      <4>1. CASE StopRunning \/ StopResponseQueue
        BY <4>1 DEF StopRunning, StopResponseQueue, othersThanMain, LoopTypes
      <4>2. CASE CloseDescriptors \/ StopPool
        BY <4>2 DEF CloseDescriptors, StopPool, othersThanMain, LoopTypes
      <4> QED BY <2>9, <4>1, <4>2 DEF MainStep
    <3> QED BY <3>1 DEF LoopTypes, Control, loopVars, ghostVars
  <2>10. CASE UNCHANGED vars
    BY <1>1, <2>10 DEF vars
  <2> QED BY <1>8, <2>1, <2>2, <2>3, <2>4, <2>5, <2>6, <2>7, <2>8, <2>9, <2>10 DEF Quiet
<1> QED BY <1>3, <1>4, <1>5, <1>6, <1>7, <1>8, NextCases
-----------------------------------------------------------------------------
(* The tasks *)

LEMMA NextIdGrows == ASSUME CoreInv, [Next]_vars PROVE nextId' \in Nat /\ nextId <= nextId'
<1>1. nextId \in Nat
  BY DEF CoreInv, ConnTypes
<1>2. CASE \E c \in Clients : ClientStep(c)
  BY <1>1, <1>2 DEF ClientStep, Connect, Send, HangUp, Congest, Relieve, othersThanPeer, connVars
<1>3. CASE Tick \/ EpollWait \/ Accept \/ OnTimerTick
  BY <1>1, <1>3 DEF Tick, EpollWait, Accept, OnTimerTick, connVars
<1>4. CASE Handler
  <2>1. nextId' = nextId
    <3>1. CASE \E fd \in Fds : \E l : HandlerFor(fd, l) /\ Handled(fd, l) /\ Commit(fd, l)
      BY <3>1 DEF Commit
    <3>2. CASE UNCHANGED tableVars
      BY <3>2 DEF tableVars, connVars
    <3> QED BY <1>4, <3>1, <3>2, HandlerStep
  <2> QED BY <1>1, <2>1
<1>5. CASE Quiet
  BY <1>1, <1>5, QuietTable DEF tableVars, connVars
<1> QED BY <1>2, <1>3, <1>4, <1>5, NextCases

\* The steps that leave the tasks alone, and the connections they captured.
TaskStep ==
    \/ OnRequest \/ WorkerStart \/ (\E r \in Requests : WorkerStep(r)) \/ CloseDescriptors \/ StopPool

LEMMA TaskCases == ASSUME [Next]_vars PROVE TaskStep \/ UNCHANGED taskVars
<1>1. CASE \E c \in Clients : ClientStep(c)
  BY <1>1 DEF ClientStep, Connect, Send, HangUp, Congest, Relieve, othersThanPeer
<1>2. CASE Tick \/ EpollWait \/ Accept \/ OnTimerTick
  BY <1>2 DEF Tick, EpollWait, Accept, OnTimerTick
<1>3. CASE Handler
  BY <1>3 DEF Handler, OnRead, ReadTooLarge, OnWrite, Answer, DrainEvent, TaskStep
<1>4. CASE Quiet
  BY <1>4 DEF Quiet, TestRunning, OnConnect, AcceptEnds, UnknownFd, ReadMovedParser, ReadEventFd,
     Collect, Answered, DrainTasks, DrainQueue, DrainSpecial, othersThanLoop, StopRunning, MainStep,
     StopResponseQueue, othersThanMain, vars, TaskStep, taskVars
<1> QED BY <1>1, <1>2, <1>3, <1>4, NextCases

LEMMA TasksKept == ASSUME CoreInv, [Next]_vars PROVE TaskTypes' /\ TaskInv'
<1> USE DEF CoreInv
<1>0. TablePart /\ nextId \in Nat /\ nextId' \in Nat /\ nextId <= nextId'
  BY NextIdGrows DEF TablePart, ConnTypes
<1>1. ASSUME UNCHANGED <<status, order, origin, unsignalled>>, phase' \in {"open", "closed", "down"}
      PROVE  TaskTypes' /\ TaskInv'
  BY <1>0, <1>1 DEF TaskTypes, TaskInv, Nodes
<1>2. \A r \in Requests : status[r] \notin {"new", "refused"} => origin[r].id <= nextId'
  BY <1>0 DEF TaskInv, Nodes
<1>3. ASSUME NEW r \in Requests, NEW s \in Pool!ServiceStatus, status[r] \in {"running", "ran", "new"},
             status[r] = "new" => s = "refused",
             status' = [status EXCEPT ![r] = s], UNCHANGED <<order, phase, origin>>,
             unsignalled' = unsignalled \ {r}
      PROVE  TaskTypes' /\ TaskInv'
  BY <1>2, <1>3 DEF TaskTypes, TaskInv
<1>4. CASE OnRequest
  <2> DEFINE fd == Ev.src
             r == RequestOf(fd)
  <2>1. fd \in Fds /\ Open(fd) /\ r \in Requests
        /\ \/ UNCHANGED taskVars
           \/ Pool!Refuse(r) /\ UNCHANGED <<origin, unsignalled>>
           \/ /\ Pool!Accept(r) /\ origin' = [origin EXCEPT ![r] = Node(fd)]
              /\ UNCHANGED unsignalled
    BY <1>0, <1>4, OnRequestCases
  <2> HIDE DEF r
  <2>2. CASE UNCHANGED taskVars
    BY <1>1, <2>2 DEF taskVars, poolVars, TaskTypes
  <2>3. CASE Pool!Refuse(r) /\ UNCHANGED <<origin, unsignalled>>
    <3>1. r \notin unsignalled
      BY <2>1, <2>3 DEF TaskInv, Pool!Refuse
    <3> QED BY <1>3, <2>1, <2>3, <3>1 DEF Pool!Refuse, Pool!ServiceStatus
  <2>4. CASE /\ Pool!Accept(r) /\ origin' = [origin EXCEPT ![r] = Node(fd)]
             /\ UNCHANGED unsignalled
    <3> DEFINE s == IF phase = "open" THEN "pending" ELSE "late"
    <3>1. status[r] = "new" /\ status' = [status EXCEPT ![r] = s] /\ order' = Append(order, r)
          /\ UNCHANGED phase
      BY <2>4 DEF Pool!Accept
    <3>2. Node(fd) \in Nodes /\ Node(fd).id <= nextId'
      BY <1>0, <2>1, HereFacts DEF Node, Nodes, TablePart, TableInv, ConnType
    <3>3. /\ order' \in Seq(Requests) /\ Len(order) \in Nat /\ Len(order') = Len(order) + 1
          /\ order'[Len(order) + 1] = r
          /\ \A i \in 1..Len(order) : order'[i] = order[i] /\ order[i] \in Requests
      BY <2>1, <3>1, AppendProperties, ElementOfSeq DEF TaskTypes
    <3>4. \A i \in 1..Len(order) : order[i] # r /\ status'[order[i]] = status[order[i]]
      BY <3>1, <3>3 DEF TaskInv, TaskTypes
    <3>5. TaskTypes'
      BY <2>1, <2>4, <3>1, <3>2, <3>3 DEF TaskTypes, Pool!ServiceStatus
    <3>6. \A i \in 1..Len(order') : status'[order'[i]] \in {"pending", "late"}
      BY <2>1, <3>1, <3>3, <3>4 DEF TaskInv, TaskTypes
    <3>7. ASSUME NEW i \in 1..Len(order'), NEW j \in 1..Len(order'), order'[i] = order'[j]
          PROVE  i = j
      BY <3>3, <3>4, <3>7 DEF TaskInv
    <3>8. \A q \in Requests : status'[q] \notin {"new", "refused"} =>
                               origin'[q] \in Nodes /\ origin'[q].id <= nextId'
      BY <1>2, <2>1, <2>4, <3>1, <3>2 DEF TaskInv, TaskTypes
    <3>9. \A q \in unsignalled' : status'[q] = "running"
      BY <2>4, <3>1 DEF TaskInv, TaskTypes
    <3> QED BY <3>5, <3>6, <3>7, <3>8, <3>9 DEF TaskInv
  <2> QED BY <2>1, <2>2, <2>3, <2>4
<1>5. CASE WorkerStart
  <2> DEFINE r == Head(order)
  <2>1. order # <<>> /\ status' = [status EXCEPT ![r] = "running"] /\ order' = Tail(order)
        /\ UNCHANGED <<phase, origin, unsignalled>>
    BY <1>5 DEF WorkerStart, Pool!Start
  <2>2. /\ r \in Requests /\ r = order[1] /\ Len(order) \in Nat /\ Len(order) >= 1
        /\ order' \in Seq(Requests) /\ Len(order') = Len(order) - 1
        /\ \A i \in 1..Len(order') : order'[i] = order[i + 1]
    BY <2>1, HeadTailProperties DEF TaskTypes
  <2>3. status[r] \in {"pending", "late"}
    BY <2>2 DEF TaskInv
  <2>4. \A i \in 1..Len(order') : i + 1 \in 1..Len(order) /\ 1 \in 1..Len(order) /\ i + 1 # 1
    BY <2>2
  <2>5. \A i \in 1..Len(order') : order'[i] # r /\ order'[i] \in Requests
    BY <2>2, <2>4, ElementOfSeq DEF TaskInv, TaskTypes
  <2> HIDE DEF r
  <2>6. TaskTypes'
    BY <2>1, <2>2 DEF TaskTypes, Pool!ServiceStatus
  <2>7. \A i \in 1..Len(order') : status'[order'[i]] \in {"pending", "late"}
    BY <2>1, <2>2, <2>4, <2>5 DEF TaskInv, TaskTypes
  <2>8. ASSUME NEW i \in 1..Len(order'), NEW j \in 1..Len(order'), order'[i] = order'[j]
        PROVE  i = j
    <3>1. i + 1 = j + 1
      BY <2>2, <2>4, <2>8 DEF TaskInv
    <3> QED BY <3>1
  <2>9. \A q \in Requests : status'[q] \notin {"new", "refused"} =>
                             origin'[q] \in Nodes /\ origin'[q].id <= nextId'
    BY <1>2, <2>1, <2>2, <2>3 DEF TaskInv, TaskTypes
  <2>10. \A q \in unsignalled' : status'[q] = "running"
    BY <2>1 DEF TaskInv, TaskTypes
  <2> QED BY <2>6, <2>7, <2>8, <2>9, <2>10 DEF TaskInv
<1>6. ASSUME NEW r \in Requests, WorkerStep(r) PROVE TaskTypes' /\ TaskInv'
  <2>1. CASE WorkerPush(r)
    BY <1>2, <2>1 DEF WorkerPush, poolVars, TaskTypes, TaskInv
  <2>2. CASE WorkerSignal(r)
    BY <1>3, <2>2 DEF WorkerSignal, Pool!Finish, Pool!ServiceStatus
  <2>3. CASE WorkerThrows(r)
    <3>1. unsignalled' = unsignalled \ {r}
      BY <2>3 DEF WorkerThrows
    <3> QED BY <1>3, <2>3, <3>1 DEF WorkerThrows, Pool!Finish, Pool!ServiceStatus
  <2>4. CASE WorkerSettle(r)
    <3>1. unsignalled' = unsignalled \ {r}
      BY <2>4 DEF WorkerSettle, TaskInv, Pool!Settle
    <3> QED BY <1>3, <2>4, <3>1 DEF WorkerSettle, Pool!Settle, Pool!ServiceStatus
  <2> QED BY <1>6, <2>1, <2>2, <2>3, <2>4 DEF WorkerStep
<1>7. CASE CloseDescriptors \/ StopPool
  BY <1>1, <1>7 DEF CloseDescriptors, StopPool, Pool!Close, Pool!GoDown, othersThanMain
<1>8. CASE UNCHANGED taskVars
  BY <1>1, <1>8 DEF taskVars, poolVars, TaskTypes
<1> QED BY <1>4, <1>5, <1>6, <1>7, <1>8, TaskCases DEF TaskStep
-----------------------------------------------------------------------------
(* The inductive invariant *)

LEMMA CoreInit == ASSUME Init PROVE CoreInv
<1> USE DEF Init
<1>1. NetTypes
  <2>1. [st |-> "new", sent |-> 0, unread |-> 0, fin |-> FALSE, rst |-> FALSE, room |-> Pieces] \in PeerType
    BY IoAssumption DEF PeerType
  <2>2. <<>> \in Seq(PieceSet) /\ <<>> \in Seq(Clients)
    BY EmptySeq
  <2>3. peer \in [Clients -> PeerType] /\ answers \in [Clients -> Seq(PieceSet)]
    BY <2>1, <2>2
  <2>4. sock \in [Fds -> Clients \cup {NoClient}] /\ reg \in [Fds -> RegStates]
    BY DEF RegStates
  <2>5. backlog = <<>> /\ edge = FALSE /\ tick = FALSE /\ now = 0
    OBVIOUS
  <2>6. 0 \in 0..MaxClock
    BY IoAssumption
  <2> HIDE DEF Init
  <2> QED BY <2>2, <2>3, <2>4, <2>5, <2>6 DEF NetTypes
<1>2. ConnTypes
  BY EmptySeq DEF ConnTypes
<1>3. LoopTypes
  BY EmptySeq DEF LoopTypes, IoPlaces
<1>4. TaskTypes
  BY EmptySeq DEF TaskTypes, Pool!ServiceInit, Pool!ServiceStatus
<1>5. \A fd \in Fds : ~Open(fd)
  BY DEF Open
<1>6. Control /\ TableInv /\ BacklogInv /\ ListedInv
  BY <1>5 DEF Control, TableInv, BacklogInv, ListedInv
<1>7. CountInv
  <2>1. OpenFds = {} /\ Accepted = {}
    BY <1>5 DEF OpenFds, Accepted
  <2> QED BY <2>1, FS_EmptySet DEF CountInv
<1>8. ReadInv
  BY <1>5, IoAssumption DEF ReadInv
<1>9. TaskInv
  BY DEF TaskInv, Pool!ServiceInit
<1> QED BY <1>1, <1>2, <1>3, <1>4, <1>6, <1>7, <1>8, <1>9 DEF CoreInv

LEMMA CoreStep == ASSUME CoreInv, [Next]_vars PROVE CoreInv'
  BY TableStep, LoopStep, TasksKept DEF CoreInv, TablePart

\* The first inductive invariant: the types, and what relates the connection
\* table, the kernel's sockets, the gauge, the timeout list and the task service.
THEOREM CoreInvariant == Safety => []CoreInv
  BY CoreInit, CoreStep, PTL DEF Safety

\* Every variable has its type; in particular the connection counter counts
\* accepts, one per client, and the metric never leaves the range of the table.
THEOREM TypeCorrect == Safety => []TypeOK
<1>1. CoreInv => TypeOK
  <2> SUFFICES ASSUME CoreInv PROVE TypeOK
    OBVIOUS
  <2> USE DEF CoreInv
  <2>1. /\ DOMAIN peer = Clients /\ DOMAIN answers = Clients
        /\ \A c \in Clients : peer[c].st \in {"new", "backlog", "open", "closed"}
                              /\ peer[c].room \in 0..Pieces
                              /\ answers[c] \in Seq(Requests \X (1..Pieces))
    BY DEF NetTypes, PeerType, PieceSet
  <2>2. nextId \in 0..Cardinality(Clients)
    <3>1. Accepted \subseteq Clients
      BY DEF Accepted
    <3>2. Cardinality(Accepted) <= Cardinality(Clients) /\ Cardinality(Clients) \in Nat
      BY <3>1, IoAssumption, FS_Subset, FS_CardinalityType
    <3> QED BY <3>2 DEF CountInv, ConnTypes
  <2>3. gauge \in 0..Cardinality(Fds)
    <3>1. OpenFds \subseteq Fds
      BY DEF OpenFds
    <3>2. Cardinality(OpenFds) <= Cardinality(Fds) /\ Cardinality(Fds) \in Nat /\ Cardinality(OpenFds) \in Nat
      BY <3>1, IoAssumption, FS_Subset, FS_CardinalityType
    <3> QED BY <3>2 DEF CountInv
  <2>4. /\ backlog \in Seq(Clients) /\ sock \in [Fds -> Clients \cup {NoClient}]
        /\ reg \in [Fds -> {"none", "off", "in", "out"}] /\ now \in 0..MaxClock
    BY DEF NetTypes, RegStates
  <2>5. conns \in [Fds -> ConnType \cup {NoConn}] /\ timeouts \in Seq([fd : Fds, id : Nat])
    BY DEF ConnTypes, Nodes
  <2>6. {tick, edge, draining, event, running, halted} \subseteq BOOLEAN
    BY DEF NetTypes, LoopTypes
  <2>7. /\ io \in IoPlaces /\ respq \in Seq(Items) /\ found \in Seq(Items)
        /\ unsignalled \cup failed \subseteq Requests /\ inherited \subseteq Clients
        /\ main \in {"serving", "flagged", "joining", "closing", "destroyed"}
    BY DEF LoopTypes, TaskTypes
  <2> HIDE DEF CoreInv
  <2> QED BY <2>1, <2>2, <2>3, <2>4, <2>5, <2>6, <2>7 DEF TypeOK
<1> QED BY <1>1, CoreInvariant, PTL

\* A descriptor has a connection exactly while it is a socket registered with
\* epoll, connection ids are unique, and the gauge of active connections counts
\* the table, whichever of the paths that close a connection was taken.
THEOREM TableCorrect == Safety => []ConnectionTable
<1>1. CoreInv => ConnectionTable
  BY DEF CoreInv, ConnectionTable, TableInv, CountInv, OpenFds
<1> QED BY <1>1, CoreInvariant, PTL
-----------------------------------------------------------------------------
(* What the loop owes to responses, to clients in the listen queue and to the *)
(* drain.                                                                     *)

\* There are events in hand only while they are handled, and responses only
\* while they are answered.
InHandInv ==
    /\ io \in {"test", "wait", "tasks", "queue", "done"} \/ (draining /\ io \in {"collect", "answer"})
           => batch = <<>>
    /\ found # <<>> => io = "answer"

\* The event in hand at place i of the batch has still to be handled.
ListenAhead == \E i \in 1..Len(batch) : batch[i].src = "listen" /\ (i = 1 => io = "event")

\* The clients in the listen queue have somebody to accept them.
ServedInv ==
    backlog # <<>> /\ ~draining /\ io # "crashed" => edge \/ halted \/ io = "accept" \/ ListenAhead

\* What the two reads of the drain loop's condition have found stays so.
DrainInv ==
    /\ io \in {"queue", "done"} => Pool!UnfinishedTasks = {}
    /\ io = "done" => respq = <<>>

ControlInv == InHandInv /\ ServedInv /\ DrainInv /\ NoUnseenResponse

LEMMA NextEventFacts ==
    ASSUME CoreInv, io \in {"event", "accept", "collect", "answer"}, batch # <<>>,
           AfterEvent(Tail(batch)), UNCHANGED draining
    PROVE  /\ io' \in {"event", "test", "tasks"} /\ (io' = "event" <=> batch' # <<>>)
           /\ (io' = "test" => ~draining) /\ (io' = "tasks" => draining)
           /\ ListenAhead /\ (io = "event" => Ev.src # "listen") => ListenAhead'
<1>1. /\ batch \in Seq(Events) /\ Len(batch) \in Nat /\ Tail(batch) \in Seq(Events) /\ Ev = batch[1]
      /\ Len(Tail(batch)) = Len(batch) - 1
      /\ \A i \in 1..Len(Tail(batch)) : Tail(batch)[i] = batch[i + 1]
  BY HeadTailProperties DEF CoreInv, LoopTypes, Ev
<1>2. /\ batch' = Tail(batch) /\ io' \in {"event", "tasks", "test"}
      /\ io' = "event" <=> Tail(batch) # <<>>
      /\ io' = "test" => ~draining
      /\ io' = "tasks" => draining
  BY <1>1, AfterEventFacts DEF CoreInv, LoopTypes
<1>3. ASSUME ListenAhead, io = "event" => Ev.src # "listen" PROVE ListenAhead'
  <2>1. PICK i \in 1..Len(batch) : batch[i].src = "listen" /\ (i = 1 => io = "event")
    BY <1>3 DEF ListenAhead
  <2>2. i # 1
    BY <1>1, <1>3, <2>1
  <2>3. i - 1 \in 1..Len(Tail(batch)) /\ (i - 1) + 1 = i
    BY <1>1, <2>1, <2>2
  <2>4. Tail(batch)[i - 1].src = "listen"
    BY <1>1, <2>1, <2>3
  <2>5. Tail(batch) # <<>>
    <3>1. Len(Tail(batch)) # 0
      BY <1>1, <2>3
    <3> QED BY <3>1, EmptySeq
  <2> QED BY <1>2, <2>3, <2>4, <2>5 DEF ListenAhead
<1> QED BY <1>2, <1>3

LEMMA HandlerControl ==
    ASSUME CoreInv, ControlInv, Handler
    PROVE  ControlInv'
<1> USE DEF CoreInv
<1>1. UNCHANGED <<backlog, edge, halted, draining>>
  <2>1. UNCHANGED <<backlog, edge>>
    <3>1. CASE \E fd \in Fds : \E l : HandlerFor(fd, l) /\ Handled(fd, l) /\ Commit(fd, l)
      BY <3>1 DEF Commit
    <3>2. CASE UNCHANGED tableVars
      BY <3>2 DEF tableVars, netVars
    <3> QED BY <3>1, <3>2, HandlerStep
  <2> QED BY <2>1, HandlerLoop
<1>2. CASE OnRead \/ ReadTooLarge \/ OnWrite \/ DrainEvent \/ OnRequest
  <2>1. /\ io = "event" /\ batch # <<>> /\ AfterEvent(Tail(batch)) /\ Ev.src \in Fds
        /\ UNCHANGED <<draining, found>>
    BY <1>2 DEF OnRead, ReadTooLarge, OnWrite, DrainEvent, OnRequest, Control
  <2>2. Ev.src # "listen"
    BY <2>1, ModelValuesAssumption DEF SpecialSources
  <2>3. /\ io' \in {"event", "test", "tasks"} /\ (io' = "event" <=> batch' # <<>>)
        /\ ListenAhead => ListenAhead'
    BY <2>1, <2>2, NextEventFacts
  <2>4. event' = TRUE \/ UNCHANGED <<respq, event, unsignalled>>
    <3>1. CASE OnRequest
      <4>1. TablePart
        BY DEF TablePart
      <4> QED BY <3>1, <4>1, OnRequestCases DEF Respond
    <3>2. CASE OnRead \/ ReadTooLarge \/ OnWrite \/ DrainEvent
      BY <3>2 DEF OnRead, ReadTooLarge, OnWrite, DrainEvent, taskVars
    <3> QED BY <1>2, <3>1, <3>2
  <2>5. NoUnseenResponse'
    BY <1>1, <2>1, <2>4 DEF ControlInv, NoUnseenResponse
  <2>6. InHandInv' /\ DrainInv'
    BY <2>1, <2>3 DEF ControlInv, InHandInv, DrainInv
  <2>7. ServedInv'
    BY <1>1, <2>1, <2>3 DEF ControlInv, ServedInv
  <2> QED BY <2>5, <2>6, <2>7 DEF ControlInv
<1>3. CASE Answer
  <2>1. /\ io = "answer" /\ UNCHANGED <<io, draining, batch, respq, event, status, unsignalled>>
    BY <1>3 DEF Answer, taskVars, poolVars
  <2> QED BY <1>1, <2>1 DEF ControlInv, InHandInv, ServedInv, ListenAhead, DrainInv, NoUnseenResponse
<1> QED BY <1>2, <1>3 DEF Handler

LEMMA EpollWaitControl ==
    ASSUME CoreInv, ControlInv, EpollWait
    PROVE  ControlInv'
<1> USE DEF CoreInv
<1>1. io = "wait" /\ UNCHANGED <<draining, found, respq, event, unsignalled, status, backlog, halted>>
      /\ edge' = FALSE
  BY DEF EpollWait, taskVars, poolVars, ghostVars
<1>2. PICK b \in Orders(ReadyEvents) : AfterEvent(b)
  BY DEF EpollWait
<1>3. TablePart
  BY DEF TablePart
<1>4. /\ b \in Seq(Events) /\ \A e \in ReadyEvents : \E i \in 1..Len(b) : b[i] = e
  BY <1>3, OrdersFacts
<1>5. /\ batch' = b /\ io' \in {"event", "tasks", "test"}
      /\ io' = "event" <=> b # <<>>
      /\ io' = "test" => ~draining
      /\ io' = "tasks" => draining
  BY <1>2, <1>4, AfterEventFacts DEF LoopTypes
<1>6. ServedInv'
  <2> SUFFICES ASSUME backlog # <<>>, ~draining, ~halted PROVE ListenAhead'
    BY <1>1 DEF ServedInv
  <2>1. edge
    <3>1. ~ListenAhead
      <4>1. batch = <<>>
        BY <1>1 DEF ControlInv, InHandInv
      <4> QED BY <4>1 DEF ListenAhead
    <3> QED BY <1>1, <3>1 DEF ControlInv, ServedInv
  <2>2. [src |-> "listen"] \in ReadyEvents
    BY <2>1 DEF ReadyEvents, SpecialSources
  <2>3. PICK i \in 1..Len(b) : b[i] = [src |-> "listen"]
    BY <1>4, <2>2
  <2>4. b # <<>>
    BY <2>3
  <2> QED BY <1>5, <2>3, <2>4 DEF ListenAhead
<1>7. InHandInv' /\ DrainInv'
  BY <1>1, <1>5 DEF ControlInv, InHandInv, DrainInv
<1>8. NoUnseenResponse'
  BY <1>1 DEF ControlInv, NoUnseenResponse
<1> QED BY <1>6, <1>7, <1>8 DEF ControlInv

\* The other steps, by what they leave alone.
LEMMA ControlFrames ==
    ASSUME ControlInv
    PROVE  /\ UNCHANGED <<backlog, edge, halted, loopVars, respq, event, unsignalled, status>>
                  => ControlInv'
           /\ UNCHANGED <<halted, loopVars, respq, event, unsignalled, status>> /\ edge' = TRUE
                  => ControlInv'
  BY DEF ControlInv, InHandInv, ServedInv, ListenAhead, DrainInv, NoUnseenResponse, loopVars,
     Pool!UnfinishedTasks

LEMMA QuietControl ==
    ASSUME CoreInv, ControlInv, Quiet
    PROVE  ControlInv'
<1> USE DEF CoreInv
<1>1. CASE UnknownFd \/ DrainSpecial
  <2>1. /\ io = "event" /\ batch # <<>> /\ AfterEvent(Tail(batch)) /\ (Ev.src # "listen" \/ draining)
        /\ UNCHANGED <<backlog, edge, halted, draining, found, respq, event, unsignalled, status>>
    BY <1>1, ModelValuesAssumption DEF UnknownFd, DrainSpecial, Control, SpecialSources, othersThanLoop,
       netVars, taskVars, poolVars, ghostVars
  <2>2. /\ io' \in {"event", "test", "tasks"} /\ (io' = "event" <=> batch' # <<>>)
        /\ ListenAhead /\ Ev.src # "listen" => ListenAhead'
    BY <1>1, <2>1, NextEventFacts DEF UnknownFd, DrainSpecial, Control
  <2> QED BY <1>1, <2>1, <2>2 DEF ControlInv, InHandInv, ServedInv, DrainInv, NoUnseenResponse,
                                  UnknownFd, DrainSpecial
<1>2. CASE TestRunning
  BY <1>2 DEF TestRunning, othersThanLoop, netVars, taskVars, poolVars, ghostVars,
     Control, ControlInv, InHandInv, ServedInv, ListenAhead, DrainInv, NoUnseenResponse
<1>3. CASE OnConnect
  BY <1>3 DEF OnConnect, Handling, othersThanLoop, netVars, taskVars, poolVars, ghostVars,
     Control, ControlInv, InHandInv, ServedInv, DrainInv, NoUnseenResponse
<1>4. CASE AcceptEnds
  <2>1. /\ io = "accept" /\ batch # <<>> /\ AfterEvent(Tail(batch)) /\ (backlog # <<>> => halted')
        /\ UNCHANGED <<backlog, draining, found, respq, event, unsignalled, status>>
    BY <1>4 DEF AcceptEnds, Control, netVars, taskVars, poolVars
  <2>2. /\ io' \in {"event", "test", "tasks"} /\ (io' = "event" <=> batch' # <<>>)
    BY <2>1, NextEventFacts
  <2> QED BY <2>1, <2>2 DEF ControlInv, InHandInv, ServedInv, DrainInv, NoUnseenResponse
<1>5. CASE ReadMovedParser
  BY <1>5 DEF ReadMovedParser, othersThanLoop, netVars, taskVars, poolVars, ghostVars,
     Control, ControlInv, InHandInv, ServedInv, DrainInv, NoUnseenResponse
<1>6. CASE ReadEventFd
  <2>1. /\ io = "event" /\ ~draining /\ Ev.src # "listen" /\ io' = "collect" /\ event' = FALSE
        /\ UNCHANGED <<backlog, edge, halted, draining, batch, found, respq, unsignalled, status>>
    BY <1>6 DEF ReadEventFd, Handling, netVars, taskVars, poolVars, ghostVars
  <2>2. batch # <<>> => Ev = batch[1]
    BY HeadTailProperties DEF LoopTypes, Ev
  <2>3. ListenAhead => ListenAhead'
    BY <2>1, <2>2 DEF ListenAhead
  <2> QED BY <2>1, <2>3 DEF ControlInv, InHandInv, ServedInv, DrainInv, NoUnseenResponse
<1>7. CASE Collect
  BY <1>7 DEF Collect, netVars, taskVars, poolVars, ghostVars,
     Control, ControlInv, InHandInv, ServedInv, ListenAhead, DrainInv, NoUnseenResponse
<1>8. CASE Answered
  <2>1. io = "answer" /\ found = <<>>
        /\ UNCHANGED <<backlog, edge, halted, draining, found, respq, event, unsignalled, status>>
    BY <1>8 DEF Answered, othersThanLoop, netVars, taskVars, poolVars, ghostVars
  <2>2. CASE draining
    BY <1>8, <2>1, <2>2 DEF Answered, ControlInv, InHandInv, ServedInv, DrainInv, NoUnseenResponse
  <2>3. CASE ~draining
    <3>1. batch # <<>> /\ AfterEvent(Tail(batch))
      BY <1>8, <2>1, <2>3 DEF Answered, Control
    <3>2. /\ io' \in {"event", "test", "tasks"} /\ (io' = "event" <=> batch' # <<>>)
          /\ ListenAhead => ListenAhead'
      BY <2>1, <3>1, NextEventFacts
    <3> QED BY <2>1, <3>2 DEF ControlInv, InHandInv, ServedInv, DrainInv, NoUnseenResponse
  <2> QED BY <2>2, <2>3 DEF LoopTypes
<1>9. CASE DrainTasks \/ DrainQueue
  BY <1>9 DEF DrainTasks, DrainQueue, othersThanLoop, netVars, taskVars, poolVars, ghostVars,
     Control, ControlInv, InHandInv, ServedInv, DrainInv, NoUnseenResponse, Pool!UnfinishedTasks
<1>10. CASE WorkerStart
  <2>1. \E r \in Requests : status[r] \in {"pending", "late"}
    <3>1. order # <<>> /\ order \in Seq(Requests)
      BY <1>10 DEF WorkerStart, Pool!Start, TaskTypes
    <3>2. 1 \in 1..Len(order) /\ order[1] \in Requests
      BY <3>1, HeadTailProperties
    <3> QED BY <3>2 DEF TaskInv
  <2>2. UNCHANGED <<backlog, edge, halted, loopVars, respq, event, unsignalled>>
    BY <1>10 DEF WorkerStart, othersThanTasks, netVars, ghostVars
  <2> QED BY <2>1, <2>2 DEF ControlInv, InHandInv, ServedInv, ListenAhead, DrainInv,
      NoUnseenResponse, loopVars, Pool!UnfinishedTasks
<1>11. ASSUME NEW r \in Requests, WorkerStep(r) PROVE ControlInv'
  <2>1. /\ UNCHANGED <<backlog, edge, halted, loopVars>>
        /\ \/ unsignalled' # {} /\ UNCHANGED <<event, status>>
           \/ event' = TRUE /\ UNCHANGED respq
           \/ UNCHANGED <<respq, event, unsignalled>>
        /\ status[r] \in {"running", "ran"}
    <3>1. CASE WorkerPush(r)
      BY <3>1 DEF WorkerPush, othersThanTasks, netVars, ghostVars, poolVars
    <3>2. CASE WorkerSignal(r)
      BY <3>2 DEF WorkerSignal, othersThanTasks, netVars, ghostVars, Pool!Finish
    <3>3. CASE WorkerThrows(r)
      BY <3>3 DEF WorkerThrows, netVars, Pool!Finish
    <3>4. CASE WorkerSettle(r)
      BY <3>4 DEF WorkerSettle, othersThanTasks, netVars, ghostVars, Pool!Settle
    <3> QED BY <1>11, <3>1, <3>2, <3>3, <3>4 DEF WorkerStep
  <2>2. Pool!UnfinishedTasks # {}
    BY <2>1 DEF Pool!UnfinishedTasks
  <2> QED BY <2>1, <2>2 DEF ControlInv, InHandInv, ServedInv, ListenAhead, DrainInv, NoUnseenResponse,
                            loopVars
<1>12. CASE StopRunning \/ MainStep
  <2>1. UNCHANGED <<backlog, edge, halted, loopVars, respq, unsignalled, status>>
        /\ (event' = event \/ event' = TRUE)
    BY <1>12 DEF StopRunning, MainStep, StopResponseQueue, CloseDescriptors, StopPool, othersThanMain,
       netVars, ghostVars, poolVars, Pool!Close, Pool!GoDown
  <2> QED BY <2>1 DEF ControlInv, InHandInv, ServedInv, ListenAhead, DrainInv, NoUnseenResponse,
      loopVars, Pool!UnfinishedTasks
<1>13. CASE UNCHANGED vars
  BY <1>13, ControlFrames DEF vars, netVars, ghostVars, taskVars, poolVars
<1> QED BY <1>1, <1>2, <1>3, <1>4, <1>5, <1>6, <1>7, <1>8, <1>9, <1>10, <1>11, <1>12, <1>13 DEF Quiet

LEMMA ControlStep == ASSUME CoreInv, ControlInv, [Next]_vars PROVE ControlInv'
<1>1. ASSUME NEW c \in Clients, ClientStep(c) PROVE ControlInv'
  <2>1. UNCHANGED <<halted, loopVars, respq, event, unsignalled, status>>
        /\ (edge' = TRUE \/ UNCHANGED <<backlog, edge>>)
    BY <1>1 DEF ClientStep, Connect, Send, HangUp, Congest, Relieve, othersThanPeer, taskVars,
       poolVars, ghostVars
  <2> QED BY <2>1, ControlFrames
<1>2. CASE Tick
  BY <1>2, ControlFrames DEF Tick, netVars, taskVars, poolVars, ghostVars
<1>3. CASE Accept
  BY <1>3 DEF Accept, loopVars, taskVars, poolVars, ghostVars, ControlInv, InHandInv, ServedInv,
     DrainInv, NoUnseenResponse, Pool!UnfinishedTasks
<1>4. CASE OnTimerTick
  <2>1. /\ io = "event" /\ batch # <<>> /\ AfterEvent(Tail(batch)) /\ Ev.src # "listen"
        /\ UNCHANGED <<backlog, edge, halted, draining, found, respq, event, unsignalled, status>>
    BY <1>4 DEF OnTimerTick, Handling, CoreInv, Control, taskVars, poolVars, ghostVars
  <2>2. /\ io' \in {"event", "test", "tasks"} /\ (io' = "event" <=> batch' # <<>>)
        /\ ListenAhead => ListenAhead'
    BY <2>1, NextEventFacts
  <2> QED BY <2>1, <2>2 DEF ControlInv, InHandInv, ServedInv, DrainInv, NoUnseenResponse
<1> QED BY <1>1, <1>2, <1>3, <1>4, EpollWaitControl, HandlerControl, QuietControl, NextCases

\* The second: where the I/O thread is, and who is to wake it for what is left.
THEOREM ControlInvariant == Safety => [](CoreInv /\ ControlInv)
<1>1. Init => ControlInv
  BY DEF Init, ControlInv, InHandInv, ServedInv, DrainInv, NoUnseenResponse
<1> QED BY <1>1, CoreInit, CoreStep, ControlStep, PTL DEF Safety

\* A response in the queue is never overlooked, whichever way pushes, eventfd
\* writes, the eventfd read and the drain of the queue interleave.
THEOREM ResponsesSeen == Safety => []NoUnseenResponse
<1>1. ControlInv => NoUnseenResponse
  BY DEF ControlInv
<1> QED BY <1>1, ControlInvariant, PTL

\* The edge-triggered listener is never left with clients nobody will accept,
\* unless accept4 stopped at the descriptor limit or the server is stopping.
THEOREM BacklogServed == Safety => []NoForgottenBacklog
<1>1. ControlInv => NoForgottenBacklog
  BY DEF ControlInv, ServedInv, InHandInv, ListenAhead, NoForgottenBacklog
<1> QED BY <1>1, ControlInvariant, PTL

\* When the drain loop ends no accepted task is unfinished, no response is queued
\* and no worker is about to write the eventfd that the destructor closes next.
THEOREM DrainLeavesNothing == Safety => []DrainComplete
<1>1. CoreInv /\ ControlInv => DrainComplete
  BY DEF CoreInv, ControlInv, DrainInv, InHandInv, TaskInv, TaskTypes, DrainComplete,
     Pool!UnfinishedTasks
<1> QED BY <1>1, ControlInvariant, PTL
-----------------------------------------------------------------------------
(* The pool *)

LEMMA PoolStep == ASSUME CoreInv, [Next]_vars PROVE Pool!ServiceNext \/ UNCHANGED Pool!svcVars
<1>1. CASE UNCHANGED taskVars
  BY <1>1 DEF taskVars, poolVars, Pool!svcVars
<1>2. CASE OnRequest
  <2>1. Ev.src \in Fds /\ RequestOf(Ev.src) \in Requests
    BY <1>2, OnRequestCases DEF CoreInv, TablePart
  <2>2. UNCHANGED taskVars \/ Pool!Refuse(RequestOf(Ev.src)) \/ Pool!Accept(RequestOf(Ev.src))
    BY <1>2 DEF OnRequest, RequestOf
  <2> QED BY <1>1, <2>1, <2>2 DEF Pool!ServiceNext
<1>3. CASE WorkerStart \/ CloseDescriptors \/ StopPool
  BY <1>3 DEF WorkerStart, CloseDescriptors, StopPool, Pool!ServiceNext
<1>4. ASSUME NEW r \in Requests, WorkerStep(r) PROVE Pool!ServiceNext \/ UNCHANGED Pool!svcVars
  <2>1. UNCHANGED poolVars \/ Pool!Finish(r) \/ Pool!Settle(r)
    BY <1>4 DEF WorkerStep, WorkerPush, WorkerSignal, WorkerThrows, WorkerSettle
  <2> QED BY <2>1 DEF poolVars, Pool!svcVars, Pool!ServiceNext
<1> QED BY <1>1, <1>2, <1>3, <1>4, TaskCases DEF TaskStep

\* The loop, the workers and the destructors use the pool as TaskService says it
\* can be used: it is the service that ThreadPool was shown to implement.
THEOREM PoolUsed == Safety => Pool!ServiceSafety
<1>1. Init => Pool!ServiceInit
  BY DEF Init
<1>2. CoreInv /\ [Next]_vars => [Pool!ServiceNext]_(Pool!svcVars)
  BY PoolStep
<1>3. Safety => Pool!ServiceInit /\ [][Pool!ServiceNext]_(Pool!svcVars)
  BY <1>1, <1>2, CoreInvariant, PTL DEF Safety
<1> QED BY <1>3 DEF Pool!ServiceSafety
=============================================================================
