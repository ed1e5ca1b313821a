------------------------- MODULE RequestStreamProofs -------------------------
(***************************************************************************)
(* Proofs about RequestStream, for every chunk size, every limit and every *)
(* set of framed streams. The room in the buffer: it depends on the size   *)
(* being positive and on the doubling being more than what update_pos has  *)
(* just counted, so the types and the room are one inductive invariant,    *)
(* RoomInv. The requests: StreamInv adds that what was taken is told by    *)
(* the places in the stream where it was cut, that the parsers follow each *)
(* other without a gap, and that a cached method is that of the buffer's   *)
(* first line. That parsers and client stay in step, whose bytes a body    *)
(* has and what becomes of a whole request follow from it.                 *)
(***************************************************************************)
EXTENDS RequestStream, FiniteSetTheorems, SequenceTheorems, WellFoundedInduction, TLAPS

Idents == {"none", "unknown"} \cup Methods

\* The read buffer and the client's side of TypeOK.
BufferOK ==
    /\ wire \in Seq(Units)
    /\ sent \in 0..Len(wire) /\ hup \in BOOLEAN
    /\ start \in Nat /\ pos \in Nat /\ start + pos <= sent
    /\ size \in ChunkSize..(IF MaxSize > ChunkSize THEN MaxSize ELSE ChunkSize)

\* A first line is of one of the kinds that FirstLine tells apart.
LEMMA FirstLineType ==
    ASSUME NEW b, b[1] \in Units
    PROVE  FirstLine(b) \in Methods \cup {"unknown", "noSpace", "noHeader"}
<1>1. CASE b[1] \in Lines
  BY <1>1 DEF Lines, FirstLine
<1>2. CASE b[1] \notin Lines
  <2>1. b[1].part \in {"end", "close", "json", "part", "data"}
    BY <1>2 DEF Units
  <2> QED
    BY <2>1 DEF FirstLine
<1> QED
  BY <1>1, <1>2

\* What the parser makes of the buffer has the type of a cached method.
LEMMA IdentifyType ==
    ASSUME NEW b \in Seq(Units), NEW m \in Idents
    PROVE  Identify(b, m) \in Idents
<1>1. CASE HeadEnd(b) = 0 \/ m # "none"
  BY <1>1 DEF Identify
<1>2. CASE ~(HeadEnd(b) = 0 \/ m # "none")
  <2>1. PICK i \in DOMAIN b : EndsHead(b[i])
    BY <1>2 DEF HeadEnd
  <2>2. b[1] \in Units
    BY <2>1
  <2>3. FirstLine(b) \in Methods \cup {"unknown", "noSpace", "noHeader"}
    BY <2>2, FirstLineType
  <2> QED
    BY <1>2, <2>3 DEF Identify, Idents
<1> QED
  BY <1>1, <1>2

\* The buffer is a sequence of units.
LEMMA BufferType == ASSUME BufferOK PROVE Buffer \in Seq(Units)
  BY DEF BufferOK, Buffer

\* One turn of the read loop: what read returned fits, and after update_pos
\* the buffer is in range and, unless it threw, has room again.
LEMMA ReadKeepsRoom ==
    ASSUME BufferOK, pos < size, Unread > 0,
           NEW p, p = pos + Smaller(Unread, Room)
    PROVE  /\ p \in Nat /\ start + p <= sent /\ p <= size
           /\ ~Overflows(p, size) =>
                /\ p < Grown(p, size)
                /\ Grown(p, size) \in ChunkSize..(IF MaxSize > ChunkSize THEN MaxSize ELSE ChunkSize)
<1> USE SizeAssumption DEF BufferOK
<1>1. p \in Nat /\ start + p <= sent /\ p <= size
  BY DEF Smaller, Unread, Room
<1>2. CASE NearlyFull(p, size)
  BY <1>1, <1>2 DEF NearlyFull, Overflows, Grown, Smaller
<1>3. CASE ~NearlyFull(p, size)
  BY <1>1, <1>3 DEF NearlyFull, Overflows, Grown
<1> QED
  BY <1>1, <1>2, <1>3

\* The first chunk is a size the buffer may have, and is not empty.
LEMMA ChunkFits ==
    /\ ChunkSize \in ChunkSize..(IF MaxSize > ChunkSize THEN MaxSize ELSE ChunkSize)
    /\ ChunkSize \in Nat /\ MaxSize \in Nat /\ 0 < ChunkSize
  BY SizeAssumption

RoomInv == TypeOK /\ RoomLeft

LEMMA TypeGivesBuffer == ASSUME TypeOK PROVE BufferOK
  BY WireAssumption DEF TypeOK, BufferOK

LEMMA RoomInit == Init => RoomInv
<1> SUFFICES ASSUME Init PROVE RoomInv
  OBVIOUS
<1>1. Len(wire) \in Nat
  BY WireAssumption DEF Init
<1>2. hup \in BOOLEAN /\ caw \in BOOLEAN
  BY Zenon DEF Init
<1> QED
  BY <1>1, <1>2, ChunkFits DEF Init, RoomInv, TypeOK, RoomLeft

LEMMA RoomStep == RoomInv /\ [Next]_vars => RoomInv'
<1> SUFFICES ASSUME RoomInv, [Next]_vars PROVE RoomInv'
  OBVIOUS
<1> USE DEF RoomInv, client, buffer
<1>0. BufferOK /\ Len(wire) \in Nat
  BY TypeGivesBuffer DEF BufferOK
<1>1. Identify(Buffer, ident) \in Idents
  BY <1>0, BufferType, IdentifyType DEF TypeOK, Idents
<1>2. CASE ClientSend
  BY <1>0, <1>2 DEF ClientSend, TypeOK, RoomLeft
<1>3. CASE ClientHangup
  BY <1>3 DEF ClientHangup, TypeOK, RoomLeft
<1>4. CASE Wake
  BY <1>4 DEF Wake, TypeOK, RoomLeft
<1>5. CASE ReadData
  <2>1. pos < size /\ Unread > 0
    BY <1>5, <1>0 DEF ReadData, Turn, RoomLeft
  <2> DEFINE p == pos + Smaller(Unread, Room)
  <2>2. /\ p \in Nat /\ start + p <= sent /\ p <= size
        /\ ~Overflows(p, size) =>
             /\ p < Grown(p, size)
             /\ Grown(p, size) \in ChunkSize..(IF MaxSize > ChunkSize THEN MaxSize ELSE ChunkSize)
    BY <1>0, <2>1, ReadKeepsRoom
  <2>3. /\ pos' = p
        /\ IF Overflows(p, size)
           THEN pc' = "closed" /\ UNCHANGED size
           ELSE size' = Grown(p, size) /\ UNCHANGED pc
    BY <1>5 DEF ReadData
  <2> HIDE DEF p
  <2> QED
    BY <1>5, <2>2, <2>3 DEF ReadData, TypeOK, RoomLeft
<1>6. CASE ReadAgain
  BY <1>6 DEF ReadAgain, TypeOK, RoomLeft
<1>7. CASE ReadEnd
  BY <1>1, <1>7 DEF ReadEnd, TypeOK, RoomLeft, Idents
<1>8. CASE Rearm
  BY <1>1, <1>8 DEF Rearm, TypeOK, RoomLeft, Idents
<1>9. CASE Process
  BY <1>1, <1>9 DEF Process, TypeOK, RoomLeft, Idents
<1>10. CASE Respond
  <2>1. CASE caw
    BY <1>10, <2>1 DEF Respond, TypeOK, RoomLeft
  <2>2. CASE ~caw
    <3>1. caw' \in BOOLEAN
      BY <1>10, <2>2, Zenon DEF Respond
    <3> QED
      BY <1>10, <2>2, <3>1, ChunkFits DEF Respond, TypeOK, RoomLeft
  <2> QED
    BY <2>1, <2>2
<1>11. CASE Closed \/ UNCHANGED vars
  BY <1>11 DEF Closed, vars, TypeOK, RoomLeft
<1> QED
  BY <1>2, <1>3, <1>4, <1>5, <1>6, <1>7, <1>8, <1>9, <1>10, <1>11 DEF Next

\* Every variable keeps its type, and the read buffer stays within its limit,
\* for every size of chunk and limit and whatever clients send.
THEOREM StreamTypeCorrect == Spec => []TypeOK
<1>1. RoomInv => TypeOK
  BY DEF RoomInv
<1> QED
  BY <1>1, RoomInit, RoomStep, PTL DEF Spec

\* The span get_buffer hands to read is never empty on an open connection.
THEOREM RoomLeftCorrect == Spec => []RoomLeft
<1>1. RoomInv => RoomLeft
  BY DEF RoomInv
<1> QED
  BY <1>1, RoomInit, RoomStep, PTL DEF Spec

-----------------------------------------------------------------------------

\* With a complete head in the buffer eof() says no only to the two kinds of
\* first line it cannot place.
LEMMA OnlyTwoLinesWait ==
    ASSUME NEW b \in Seq(Units), NEW m \in Idents, HeadEnd(b) # 0, ~Eof(b, m)
    PROVE  FirstLine(b) \in {"noHeader", "noSpace"}
<1>1. PICK i \in DOMAIN b : EndsHead(b[i])
  BY DEF HeadEnd
<1>2. b[1] \in Units
  BY <1>1
<1>3. FirstLine(b) \in Methods \cup {"unknown", "noSpace", "noHeader"}
  BY <1>2, FirstLineType
<1>4. CASE Identified(b, m)
  <2>1. CASE m # "none"
    BY <1>4, <2>1 DEF Eof, Identify, CompleteWithHead, Idents, Methods
  <2>2. CASE m = "none"
    BY <1>4, <2>2 DEF Eof, Identified, Identify, CompleteWithHead, Methods
  <2> QED
    BY <2>1, <2>2
<1>5. CASE ~Identified(b, m)
  BY <1>3, <1>5 DEF Identified
<1> QED
  BY <1>4, <1>5

\* A parser that has read nothing holds nothing.
LEMMA NothingRead ==
    ASSUME NEW w \in Seq(Units), NEW s \in Nat
    PROVE  DOMAIN SubSeq(w, s + 1, s + 0) = {}
<1>1. Len(SubSeq(w, s + 1, s + 0)) = 0
  BY SubSeqProperties
<1> QED
  BY <1>1, SubSeqProperties

LEMMA HeadInit == Init => NoHeadLeftWaiting
<1> SUFFICES ASSUME Init PROVE NoHeadLeftWaiting
  OBVIOUS
<1>1. DOMAIN Buffer = {}
  BY WireAssumption DEF Init, Buffer
<1> QED
  BY <1>1 DEF NoHeadLeftWaiting, HeadEnd

LEMMA HeadStep ==
    RoomInv /\ NoHeadLeftWaiting /\ [Next]_vars => NoHeadLeftWaiting'
<1> SUFFICES ASSUME RoomInv, NoHeadLeftWaiting, [Next]_vars, pc' = "wait"
             PROVE  HeadEnd(Buffer') # 0 => FirstLine(Buffer') \in {"noHeader", "noSpace"}
  BY DEF NoHeadLeftWaiting
<1>0. Buffer \in Seq(Units) /\ ident \in Idents
  BY TypeGivesBuffer, BufferType DEF RoomInv, TypeOK, Idents
<1>1. CASE ClientSend \/ ClientHangup
  BY <1>1 DEF ClientSend, ClientHangup, NoHeadLeftWaiting, Buffer, buffer
<1>2. CASE Rearm
  <2>1. Buffer' = Buffer
    BY <1>2 DEF Rearm, Buffer, buffer, client
  <2> QED
    BY <1>0, <1>2, <2>1, OnlyTwoLinesWait DEF Rearm
<1>3. CASE Respond
  <2>1. pos' = 0 /\ start' \in Nat
    BY <1>3 DEF Respond, RoomInv, TypeOK
  <2>2. wire' \in Seq(Units)
    BY <1>3, WireAssumption DEF Respond, client, RoomInv, TypeOK
  <2>3. Buffer' = SubSeq(wire', start' + 1, start' + 0)
    BY <2>1, Zenon DEF Buffer
  <2>4. DOMAIN Buffer' = {}
    BY <2>1, <2>2, <2>3, NothingRead
  <2> QED
    BY <2>4 DEF HeadEnd
<1>4. CASE Wake \/ ReadData \/ ReadAgain \/ ReadEnd \/ Process
  BY <1>4 DEF Wake, ReadData, ReadAgain, ReadEnd, Process
<1>5. CASE Closed \/ UNCHANGED vars
  BY <1>5 DEF Closed, vars, NoHeadLeftWaiting, Buffer
<1> QED
  BY <1>1, <1>2, <1>3, <1>4, <1>5 DEF Next

\* No connection waits for more with a complete head in its buffer, but for the
\* two kinds of first line named in the property.
THEOREM NoHeadLeftWaitingCorrect == Spec => []NoHeadLeftWaiting
  BY HeadInit, HeadStep, RoomInit, RoomStep, PTL DEF Spec

-----------------------------------------------------------------------------
(* What the parsers took *)

\* The method a parser has for the buffer b, once it has one.
MethodOf(b) == IF FirstLine(b) = "noSpace" THEN "unknown" ELSE FirstLine(b)
Parsable(b) == HeadEnd(b) # 0 /\ FirstLine(b) # "noHeader"

\* What Process writes into the history, told from the units f to u alone.
TakenAt(w, f, u) ==
    LET b == SubSeq(w, f, u)
        m == MethodOf(b)
    IN  [req |-> b[1].req, method |-> m, ok |-> Accepts(b, m), from |-> f, upto |-> u,
         handed |-> IF Accepts(b, m) THEN Handed(b, m) ELSE NothingHanded]

Takings(w) ==
    {TakenAt(w, p[1], p[2]) :
        p \in {p \in (DOMAIN w) \X (DOMAIN w) : p[1] <= p[2] /\ Parsable(SubSeq(w, p[1], p[2]))}}

\* The parsers took the stream piece by piece, each all of its own.
HistoryOK == taken \in Seq(Takings(wire))
Chained == \A i \in DOMAIN taken : taken[i].from = IF i = 1 THEN 1 ELSE taken[i - 1].upto + 1
Current ==
    /\ pc \in {"wait", "read", "check"} =>
           start = IF taken = <<>> THEN 0 ELSE taken[Len(taken)].upto
    /\ pc = "busy" => taken # <<>> /\ taken[Len(taken)].upto = start + pos

\* The cached method is that of the first line in the buffer, and of no other.
Cached == ident # "none" => pos > 0 /\ Parsable(Buffer) /\ ident = MethodOf(Buffer)

StreamInv == RoomInv /\ HistoryOK /\ Chained /\ Current /\ Cached

\* The first unit of the buffer is where the parser began.
LEMMA BufferAt ==
    ASSUME NEW w \in Seq(Units), NEW f \in Nat \ {0}, NEW u \in Nat, u <= Len(w)
    PROVE  /\ SubSeq(w, f, u) \in Seq(Units)
           /\ Len(SubSeq(w, f, u)) = IF f <= u THEN u - f + 1 ELSE 0
           /\ \A i \in 1..(u - f + 1) : SubSeq(w, f, u)[i] = w[f + i - 1]
  OBVIOUS

\* A set of numbers has a least one.
LEMMA LeastNat ==
    ASSUME NEW T, T \subseteq Nat, T # {}
    PROVE  \E x \in T : \A y \in T : x <= y
<1>1. PICK x \in T : \A y \in T : ~(<<y, x>> \in OpToRel(<, Nat))
  BY WFMin, NatLessThanWellFounded, Zenon
<1>2. \A y \in T : ~(y < x)
  BY <1>1 DEF OpToRel
<1> QED
  BY <1>2

\* The end of the head is where the first blank line is.
LEMMA HeadEndIsFirst ==
    ASSUME NEW b \in Seq(Units), NEW i \in DOMAIN b, EndsHead(b[i])
    PROVE  /\ HeadEnd(b) \in DOMAIN b /\ EndsHead(b[HeadEnd(b)])
           /\ \A j \in 1..(HeadEnd(b) - 1) : ~EndsHead(b[j])
<1> DEFINE T == {k \in DOMAIN b : EndsHead(b[k])}
<1>1. PICK x \in T : \A y \in T : x <= y
  <2>1. T \subseteq Nat /\ T # {}
    OBVIOUS
  <2> QED
    BY <2>1, LeastNat
<1>2. x \in DOMAIN b /\ EndsHead(b[x]) /\ \A j \in 1..(x - 1) : ~EndsHead(b[j])
  BY <1>1
<1> QED
  BY <1>2, Zenon DEF HeadEnd

\* A parser identifies a method by the first line, or goes on without one.
LEMMA IdentifyIsFirstLine ==
    ASSUME NEW b \in Seq(Units), NEW m \in Idents,
           m # "none" => Parsable(b) /\ m = MethodOf(b)
    PROVE  /\ Identify(b, m) # "none" => Parsable(b) /\ Identify(b, m) = MethodOf(b)
           /\ Eof(b, m) => Identify(b, m) # "none"
           /\ Parsable(b) => b # <<>>
<1>1. HeadEnd(b) # 0 => b # <<>> /\ b[1] \in Units
  BY DEF HeadEnd
<1>2. HeadEnd(b) # 0 => FirstLine(b) \in Methods \cup {"unknown", "noSpace", "noHeader"}
  BY <1>1, FirstLineType
<1>3. Parsable(b) => b # <<>>
  BY <1>1 DEF Parsable
<1>4. Eof(b, m) => Identify(b, m) # "none"
  BY DEF Eof, CompleteWithHead
<1>5. CASE m # "none"
  BY <1>3, <1>4, <1>5 DEF Identify
<1>6. CASE m = "none"
  BY <1>2, <1>3, <1>4, <1>6 DEF Identify, Parsable, MethodOf
<1> QED
  BY <1>5, <1>6

\* More bytes do not change the first line of a buffer, nor that it has a head.
LEMMA MoreBytesKeepFirstLine ==
    ASSUME NEW w \in Seq(Units), NEW f \in Nat \ {0}, NEW u \in Nat, NEW v \in Nat,
           u <= v, v <= Len(w), Parsable(SubSeq(w, f, u))
    PROVE  Parsable(SubSeq(w, f, v)) /\ MethodOf(SubSeq(w, f, v)) = MethodOf(SubSeq(w, f, u))
<1> DEFINE b == SubSeq(w, f, u)
           c == SubSeq(w, f, v)
<1>1. PICK i \in DOMAIN b : EndsHead(b[i])
  BY DEF Parsable, HeadEnd
<1>2. /\ b \in Seq(Units) /\ Len(b) = IF f <= u THEN u - f + 1 ELSE 0
      /\ \A k \in 1..(u - f + 1) : b[k] = w[f + k - 1]
  BY BufferAt
<1>3. /\ c \in Seq(Units) /\ Len(c) = IF f <= v THEN v - f + 1 ELSE 0
      /\ \A k \in 1..(v - f + 1) : c[k] = w[f + k - 1]
  BY BufferAt
<1> HIDE DEF b, c
<1>4. i \in DOMAIN c /\ c[i] = b[i] /\ c[1] = b[1]
  BY <1>1, <1>2, <1>3
<1>5. FirstLine(c) = FirstLine(b)
  BY <1>4 DEF FirstLine
<1>6. HeadEnd(c) # 0
  <2>1. HeadEnd(c) \in DOMAIN c
    BY <1>1, <1>3, <1>4, HeadEndIsFirst
  <2> QED
    BY <2>1, <1>3
<1> QED
  BY <1>5, <1>6 DEF Parsable, MethodOf, b, c

\* What a state says of the parser's buffer.
LEMMA StateOfBuffer ==
    ASSUME RoomInv
    PROVE  /\ wire \in Seq(Units) /\ start \in Nat /\ pos \in Nat /\ start + pos <= Len(wire)
           /\ Buffer \in Seq(Units) /\ ident \in Idents
           /\ Len(Buffer) = pos
           /\ \A i \in 1..pos : Buffer[i] = wire[start + i]
<1>1. BufferOK /\ wire \in Seq(Units) /\ ident \in Idents
  BY TypeGivesBuffer DEF BufferOK, RoomInv, TypeOK, Idents
<1>2. /\ start \in Nat /\ pos \in Nat /\ start + pos <= Len(wire)
      /\ Len(wire) \in Nat
  BY <1>1 DEF BufferOK
<1> QED
  BY <1>1, <1>2 DEF Buffer

LEMMA StreamInit == Init => StreamInv
<1> SUFFICES ASSUME Init PROVE StreamInv
  OBVIOUS
<1>1. RoomInv
  BY RoomInit
<1>2. HistoryOK
  BY DEF Init, HistoryOK
<1>3. Chained /\ Current /\ Cached
  BY DEF Init, Chained, Current, Cached
<1> QED
  BY <1>1, <1>2, <1>3 DEF StreamInv

\* A step that leaves the parser and the history alone.
LEMMA ParserUntouched ==
    ASSUME StreamInv, UNCHANGED <<wire, start, pos, ident, taken>>,
           pc' \in {"wait", "read", "check"} => pc \in {"wait", "read", "check"},
           pc' = "busy" => pc = "busy"
    PROVE  HistoryOK' /\ Chained' /\ Current' /\ Cached'
<1>1. Buffer' = Buffer
  BY DEF Buffer
<1>2. HistoryOK'
  BY DEF StreamInv, HistoryOK
<1>3. Chained'
  BY DEF StreamInv, Chained
<1>4. Current'
  BY DEF StreamInv, Current
<1>5. Cached'
  BY <1>1 DEF StreamInv, Cached
<1> QED
  BY <1>2, <1>3, <1>4, <1>5

\* A step that asks eof() and leaves the buffer alone.
LEMMA ParserAsked ==
    ASSUME StreamInv, UNCHANGED <<wire, start, pos>>,
           ident' \in {ident, Identify(Buffer, ident)}
    PROVE  Cached'
<1>1. Buffer' = Buffer
  BY DEF Buffer
<1>2. /\ Buffer \in Seq(Units) /\ ident \in Idents /\ pos \in Nat /\ Len(Buffer) = pos
  BY StateOfBuffer DEF StreamInv
<1>3. ident # "none" => Parsable(Buffer) /\ ident = MethodOf(Buffer)
  BY DEF StreamInv, Cached
<1>4. /\ Identify(Buffer, ident) # "none" =>
             Parsable(Buffer) /\ Identify(Buffer, ident) = MethodOf(Buffer)
      /\ Parsable(Buffer) => Buffer # <<>>
  BY <1>2, <1>3, IdentifyIsFirstLine
<1>5. Parsable(Buffer) => pos > 0
  BY <1>2, <1>4
<1> QED
  BY <1>1, <1>3, <1>4, <1>5 DEF Cached

\* What Process adds to the history.
LEMMA ProcessTakes ==
    ASSUME StreamInv, Process
    PROVE  /\ taken' = Append(taken, TakenAt(wire, start + 1, start + pos))
           /\ TakenAt(wire, start + 1, start + pos) \in Takings(wire)
           /\ pos > 0
<1>1. /\ wire \in Seq(Units) /\ start \in Nat /\ pos \in Nat /\ start + pos <= Len(wire)
      /\ Buffer \in Seq(Units) /\ ident \in Idents /\ Len(Buffer) = pos
  BY StateOfBuffer DEF StreamInv
<1>2. ident # "none" => Parsable(Buffer) /\ ident = MethodOf(Buffer)
  BY DEF StreamInv, Cached
<1>3. Eof(Buffer, ident)
  BY DEF Process
<1>4. Parsable(Buffer) /\ Identify(Buffer, ident) = MethodOf(Buffer) /\ Buffer # <<>>
  BY <1>1, <1>2, <1>3, IdentifyIsFirstLine
<1>5. pos > 0
  BY <1>1, <1>4
<1>6. taken' = Append(taken, TakenAt(wire, start + 1, start + pos))
  BY <1>4, Zenon DEF Process, TakenAt, Buffer
<1>7. TakenAt(wire, start + 1, start + pos) \in Takings(wire)
  <2>1. start + 1 \in DOMAIN wire /\ start + pos \in DOMAIN wire /\ start + 1 <= start + pos
    BY <1>1, <1>5
  <2>2. Parsable(SubSeq(wire, start + 1, start + pos))
    BY <1>4 DEF Buffer
  <2> DEFINE q == <<start + 1, start + pos>>
  <2>3. q \in (DOMAIN wire) \X (DOMAIN wire) /\ q[1] = start + 1 /\ q[2] = start + pos
    BY <2>1
  <2> HIDE DEF q
  <2> QED
    BY <2>1, <2>2, <2>3, Zenon DEF Takings
<1> QED
  BY <1>5, <1>6, <1>7

LEMMA StreamStep == StreamInv /\ [Next]_vars => StreamInv'
<1> SUFFICES ASSUME StreamInv, [Next]_vars PROVE StreamInv'
  OBVIOUS
<1>0. RoomInv'
  BY RoomStep DEF StreamInv
<1>a. /\ wire \in Seq(Units) /\ start \in Nat /\ pos \in Nat /\ start + pos <= Len(wire)
      /\ Buffer \in Seq(Units) /\ ident \in Idents /\ Len(Buffer) = pos
  BY StateOfBuffer DEF StreamInv
<1> SUFFICES HistoryOK' /\ Chained' /\ Current' /\ Cached'
  BY <1>0 DEF StreamInv
<1>1. CASE ClientSend \/ ClientHangup \/ Wake \/ ReadAgain \/ Closed \/ UNCHANGED vars
  <2>1. /\ UNCHANGED <<wire, start, pos, ident, taken>>
        /\ pc' \in {"wait", "read", "check"} => pc \in {"wait", "read", "check"}
        /\ pc' = "busy" => pc = "busy"
    BY <1>1 DEF ClientSend, ClientHangup, Wake, ReadAgain, Closed, vars, client, buffer
  <2> QED
    BY <2>1, ParserUntouched
<1>2. CASE ReadData
  <2>1. /\ UNCHANGED <<wire, start, ident, taken>> /\ pc = "read"
        /\ pc' \in {"read", "closed"} /\ pos' = pos + Smaller(Unread, Room) /\ Unread > 0
    BY <1>2 DEF ReadData, client, Turn
  <2>2. pos < size /\ size \in Nat /\ sent \in Nat
    BY <2>1, SizeAssumption, TypeGivesBuffer DEF StreamInv, RoomInv, RoomLeft, BufferOK
  <2>3. pos' \in Nat /\ pos <= pos'
    BY <1>a, <2>1, <2>2 DEF Unread, Room, Smaller
  <2>4. HistoryOK' /\ Chained' /\ Current'
    BY <2>1 DEF StreamInv, HistoryOK, Chained, Current
  <2>5. start' + pos' <= Len(wire')
    BY <1>0, <1>a, <2>1 DEF RoomInv, TypeOK
  <2>6. Cached'
    <3>1. SUFFICES ASSUME ident # "none"
                   PROVE  pos' > 0 /\ Parsable(Buffer') /\ ident = MethodOf(Buffer')
      BY <2>1 DEF Cached
    <3>2. pos > 0 /\ Parsable(Buffer) /\ ident = MethodOf(Buffer)
      BY <3>1 DEF StreamInv, Cached
    <3>3. Buffer' = SubSeq(wire, start + 1, start + pos')
      BY <2>1 DEF Buffer
    <3>4. Parsable(SubSeq(wire, start + 1, start + pos))
          /\ ident = MethodOf(SubSeq(wire, start + 1, start + pos))
      BY <3>2 DEF Buffer
    <3>5. /\ Parsable(SubSeq(wire, start + 1, start + pos'))
          /\ MethodOf(SubSeq(wire, start + 1, start + pos'))
               = MethodOf(SubSeq(wire, start + 1, start + pos))
      <4>1. /\ start + 1 \in Nat \ {0} /\ start + pos \in Nat /\ start + pos' \in Nat
            /\ start + pos <= start + pos' /\ start + pos' <= Len(wire)
        BY <1>a, <2>1, <2>3, <2>5
      <4> QED
        BY <1>a, <3>4, <4>1, MoreBytesKeepFirstLine
    <3> QED
      BY <1>a, <2>3, <3>2, <3>3, <3>4, <3>5
  <2> QED
    BY <2>4, <2>6
<1>3. CASE ReadEnd \/ Rearm
  <2>1. /\ UNCHANGED <<wire, start, pos, taken>> /\ pc \in {"read", "check"}
        /\ pc' \in {"check", "closed", "wait"}
        /\ ident' \in {ident, Identify(Buffer, ident)}
    BY <1>3 DEF ReadEnd, Rearm, client, buffer
  <2>2. HistoryOK' /\ Chained' /\ Current'
    BY <2>1 DEF StreamInv, HistoryOK, Chained, Current
  <2>3. Cached'
    BY <2>1, ParserAsked
  <2> QED
    BY <2>2, <2>3
<1>4. CASE Process
  <2> DEFINE t == TakenAt(wire, start + 1, start + pos)
  <2>1. taken' = Append(taken, t) /\ t \in Takings(wire) /\ pos > 0
    BY <1>4, ProcessTakes
  <2>2. /\ UNCHANGED <<wire, start, pos>> /\ pc = "check" /\ pc' = "busy"
        /\ ident' = Identify(Buffer, ident)
    BY <1>4, Zenon DEF Process, client, buffer
  <2>3. t.from = start + 1 /\ t.upto = start + pos
    BY DEF TakenAt
  <2>4. taken \in Seq(Takings(wire))
    BY DEF StreamInv, HistoryOK
  <2> HIDE DEF t
  <2>5. HistoryOK'
    BY <2>1, <2>2, <2>4 DEF HistoryOK
  <2>6. start = IF taken = <<>> THEN 0 ELSE taken[Len(taken)].upto
    BY <2>2 DEF StreamInv, Current
  <2>7. /\ Len(taken) \in Nat /\ DOMAIN taken = 1..Len(taken)
        /\ DOMAIN taken' = 1..(Len(taken) + 1) /\ Len(taken') = Len(taken) + 1
        /\ \A i \in DOMAIN taken : taken'[i] = taken[i]
        /\ taken'[Len(taken) + 1] = t
    BY <2>1, <2>4
  <2>8. Chained'
    <3>1. ASSUME NEW i \in DOMAIN taken'
          PROVE  taken'[i].from = IF i = 1 THEN 1 ELSE taken'[i - 1].upto + 1
      <4>1. CASE i \in DOMAIN taken
        <5>1. i = 1 \/ i - 1 \in DOMAIN taken
          BY <2>7, <4>1
        <5> QED
          BY <2>7, <4>1, <5>1 DEF StreamInv, Chained
      <4>2. CASE i = Len(taken) + 1
        <5>1. CASE taken = <<>>
          BY <1>a, <2>3, <2>6, <2>7, <4>2, <5>1
        <5>2. CASE taken # <<>>
          <6>1. Len(taken) \in DOMAIN taken /\ i # 1 /\ i - 1 = Len(taken)
            BY <2>4, <2>7, <4>2, <5>2
          <6> QED
            BY <2>3, <2>6, <2>7, <4>2, <5>2, <6>1
        <5> QED
          BY <5>1, <5>2
      <4> QED
        BY <2>7, <4>1, <4>2
    <3> QED
      BY <3>1 DEF Chained
  <2>9. Current'
    BY <2>1, <2>2, <2>3, <2>4, <2>7 DEF Current
  <2>10. Cached'
    BY <2>2, ParserAsked
  <2> QED
    BY <2>5, <2>8, <2>9, <2>10
<1>5. CASE Respond
  <2>1. CASE caw
    <3>1. UNCHANGED <<wire, start, pos, ident, taken>> /\ pc' = "closed"
      BY <1>5, <2>1 DEF Respond, client, buffer
    <3> QED
      BY <3>1, ParserUntouched
  <2>2. CASE ~caw
    <3>1. /\ UNCHANGED <<wire, taken>> /\ pc = "busy" /\ pc' = "wait"
          /\ start' = start + pos /\ ident' = "none"
      BY <1>5, <2>2 DEF Respond, client
    <3> QED
      BY <3>1 DEF StreamInv, HistoryOK, Chained, Current, Cached
  <2> QED
    BY <2>1, <2>2
<1> QED
  BY <1>1, <1>2, <1>3, <1>4, <1>5 DEF Next

-----------------------------------------------------------------------------
(* Requests in step *)

\* InStep for the request i of the history h.
AllExact(w, h, n) == \A j \in 1..n : h[j].from..h[j].upto = {k \in DOMAIN w : w[k].req = h[j].req}
StepOf(w, h, i) ==
    AllExact(w, h, i - 1) =>
        /\ h[i].req = i /\ w[h[i].from].part = "line"
        /\ h[i].method = IF w[h[i].from].method = "noSpace" THEN "unknown"
                         ELSE w[h[i].from].method

LEMMA InStepIs == InStep <=> \A i \in DOMAIN taken : StepOf(wire, taken, i)
  BY Zenon DEF InStep, StepOf, AllExact, Exact, UnitsOf, LineOf

\* Two requests do not share a unit, and after the last unit of a request comes
\* the line of the next.
LEMMA NextRequest ==
    ASSUME Framed(wire), wire \in Seq(Units), NEW k \in DOMAIN wire, NEW n \in Nat,
           IF n = 0 THEN k = 1
           ELSE k # 1 /\ wire[k - 1].req = n /\ wire[k].req # n
    PROVE  wire[k].req = n + 1 /\ wire[k].part = "line"
<1>1. CASE n = 0
  BY <1>1 DEF Framed
<1>2. CASE n # 0
  <2>1. k \in DOMAIN wire \ {1} /\ wire[k - 1].req = n /\ wire[k].req # n
    BY <1>2
  <2> QED
    BY <2>1 DEF Framed
<1> QED
  BY <1>1, <1>2

\* What a member of the history is made of.
LEMMA TakingIs ==
    ASSUME NEW w \in Seq(Units), NEW t \in Takings(w)
    PROVE  /\ t.from \in DOMAIN w /\ t.upto \in DOMAIN w /\ t.from <= t.upto
           /\ Parsable(SubSeq(w, t.from, t.upto))
           /\ t = TakenAt(w, t.from, t.upto)
<1>1. PICK f \in DOMAIN w, u \in DOMAIN w :
         f <= u /\ Parsable(SubSeq(w, f, u)) /\ t = TakenAt(w, f, u)
  BY Zenon DEF Takings
<1>2. t.from = f /\ t.upto = u
  BY <1>1 DEF TakenAt
<1> QED
  BY <1>1, <1>2

\* The method of a buffer that begins with the line of a request.
LEMMA MethodOfLine ==
    ASSUME NEW b \in Seq(Units), b # <<>>, b[1].part = "line", FirstLine(b) # "noHeader"
    PROVE  MethodOf(b) = IF b[1].method = "noSpace" THEN "unknown" ELSE b[1].method
  BY DEF FirstLine, MethodOf

LEMMA InStepInit == Init => InStep
  BY DEF Init, InStep

LEMMA InStepStep == StreamInv /\ InStep /\ [Next]_vars => InStep'
<1> SUFFICES ASSUME StreamInv, InStep, [Next]_vars PROVE InStep'
  OBVIOUS
<1>0. wire \in Wires /\ wire \in Seq(Units) /\ Framed(wire)
  BY StateOfBuffer, FramingAssumption DEF StreamInv, RoomInv, TypeOK
<1>1. CASE UNCHANGED <<wire, taken>>
  BY <1>1 DEF InStep, Exact, UnitsOf, LineOf
<1>2. CASE Process
  <2> DEFINE n == Len(taken)
             t == TakenAt(wire, start + 1, start + pos)
  <2>1. taken' = Append(taken, t) /\ t \in Takings(wire) /\ pos > 0 /\ wire' = wire
    BY <1>2, ProcessTakes DEF Process, client
  <2>2. taken \in Seq(Takings(wire)) /\ pc = "check"
    BY <1>2 DEF StreamInv, HistoryOK, Process
  <2>3. /\ t.from = start + 1 /\ t.upto = start + pos
        /\ t.req = Buffer[1].req /\ t.method = MethodOf(Buffer)
    BY Zenon DEF TakenAt, Buffer
  <2>4. Parsable(Buffer)
    BY <1>0, <2>1, <2>3, TakingIs DEF Buffer
  <2>5. /\ start \in Nat /\ pos \in Nat /\ start + pos <= Len(wire)
        /\ Buffer \in Seq(Units) /\ Buffer # <<>> /\ Buffer[1] = wire[start + 1]
    BY <2>1, StateOfBuffer DEF StreamInv
  <2>6. start = IF taken = <<>> THEN 0 ELSE taken[Len(taken)].upto
    BY <2>2 DEF StreamInv, Current
  <2> HIDE DEF t
  <2>7. /\ n \in Nat /\ DOMAIN taken = 1..n /\ DOMAIN taken' = 1..(n + 1)
        /\ \A i \in DOMAIN taken : taken'[i] = taken[i]
        /\ taken'[n + 1] = t
    BY <2>1, <2>2
  <2> HIDE DEF n
  <2>8. ASSUME AllExact(wire, taken, n)
        PROVE  /\ t.req = n + 1 /\ wire[t.from].part = "line"
               /\ t.method = IF wire[t.from].method = "noSpace" THEN "unknown"
                             ELSE wire[t.from].method
    <3>1. start + 1 \in DOMAIN wire
      BY <1>0, <2>1, <2>5
    <3>2. IF n = 0 THEN start + 1 = 1
          ELSE start + 1 # 1 /\ wire[start].req = n /\ wire[start + 1].req # n
      <4>1. CASE n = 0
        BY <2>2, <2>6, <2>7, <4>1 DEF n
      <4>2. CASE n # 0
        <5>1. n \in DOMAIN taken /\ taken # <<>> /\ taken[n].upto = start
          BY <2>2, <2>6, <2>7, <4>2 DEF n
        <5>2. taken[n] \in Takings(wire)
          BY <2>2, <5>1
        <5>3. /\ taken[n].from \in DOMAIN wire /\ taken[n].upto \in DOMAIN wire
              /\ taken[n].from <= taken[n].upto
          BY <1>0, <5>2, TakingIs
        <5>4. taken[n].req = n
          <6>1. AllExact(wire, taken, n - 1)
            BY <2>7, <2>8 DEF AllExact
          <6> QED
            BY <5>1, <6>1, InStepIs DEF StepOf
        <5>5. taken[n].from..taken[n].upto = {i \in DOMAIN wire : wire[i].req = n}
          BY <2>7, <2>8, <5>1, <5>4 DEF AllExact
        <5>6. start \in taken[n].from..taken[n].upto /\ start + 1 \notin taken[n].from..taken[n].upto
          BY <1>0, <5>1, <5>3
        <5>7. start # 0
          BY <1>0, <5>1, <5>3
        <5> QED
          BY <2>5, <3>1, <4>2, <5>5, <5>6, <5>7
      <4> QED
        BY <4>1, <4>2
    <3>3. wire[start + 1].req = n + 1 /\ wire[start + 1].part = "line"
      <4>1. IF n = 0 THEN start + 1 = 1
            ELSE start + 1 # 1 /\ wire[(start + 1) - 1].req = n /\ wire[start + 1].req # n
        <5>1. (start + 1) - 1 = start
          BY <2>5
        <5> QED
          BY <3>2, <5>1
      <4> QED
        BY <1>0, <2>7, <3>1, <4>1, NextRequest
    <3>4. FirstLine(Buffer) # "noHeader"
      BY <2>4 DEF Parsable
    <3>5. MethodOf(Buffer) = IF wire[start + 1].method = "noSpace" THEN "unknown"
                             ELSE wire[start + 1].method
      BY <2>5, <3>3, <3>4, MethodOfLine
    <3> QED
      BY <2>3, <2>5, <3>3, <3>5
  <2>9. ASSUME NEW i \in DOMAIN taken' PROVE StepOf(wire, taken', i)
    <3>1. CASE i \in DOMAIN taken
      <4>1. AllExact(wire, taken', i - 1) <=> AllExact(wire, taken, i - 1)
        BY <2>7, <3>1 DEF AllExact
      <4>2. taken'[i] = taken[i] /\ StepOf(wire, taken, i)
        BY <2>7, <3>1, InStepIs
      <4> QED
        BY <4>1, <4>2 DEF StepOf
    <3>2. CASE i = n + 1
      <4>1. AllExact(wire, taken', i - 1) => AllExact(wire, taken, n)
        BY <2>7, <3>2 DEF AllExact
      <4> QED
        BY <2>7, <2>8, <3>2, <4>1 DEF StepOf
    <3> QED
      BY <2>7, <3>1, <3>2
  <2>10. (\A i \in DOMAIN taken : StepOf(wire, taken, i))'
    BY <2>1, <2>9
  <2> QED
    BY <2>10, InStepIs, PTL
<1> QED
  BY <1>1, <1>2 DEF Next, ClientSend, ClientHangup, Wake, ReadData, ReadAgain, ReadEnd,
                    Rearm, Respond, Closed, vars, client

\* As long as each parser held exactly its request, the next thing parsed is the
\* next request under its own method, for any requests, fragments and sizes.
THEOREM InStepCorrect == Spec => []InStep
  BY InStepInit, InStepStep, StreamInit, StreamStep, PTL DEF Spec

-----------------------------------------------------------------------------
(* Bodies *)

\* m_headers.find: the first line of a name, and there is one.
LEMMA FindIsFirst ==
    ASSUME NEW hs \in Seq(HeaderLines), NEW name, Has(hs, name)
    PROVE  \E i \in DOMAIN hs : /\ hs[i].name = name /\ name \notin Before(hs, i)
                                /\ Find(hs, name) = hs[i]
<1> DEFINE T == {k \in DOMAIN hs : hs[k].name = name}
<1>1. PICK x \in T : \A y \in T : x <= y
  <2>1. T \subseteq Nat /\ T # {}
    BY DEF Has
  <2> QED
    BY <2>1, LeastNat
<1>2. x \in DOMAIN hs /\ hs[x].name = name /\ name \notin Before(hs, x)
  BY <1>1 DEF Before
<1> QED
  BY <1>2, Zenon DEF Find

\* A buffer that begins with the line of a request.
LEMMA LineUnit ==
    ASSUME NEW b \in Seq(Units), b # <<>>, b[1].part = "line"
    PROVE  b[1] \in Lines /\ b[1].headers \in Seq(HeaderLines)
<1>1. b[1] \in Units
  OBVIOUS
<1>2. b[1] \in Lines
  BY <1>1 DEF Units
<1> QED
  BY <1>2 DEF Lines

\* What LengthOf takes is announced by the first Content-Length line.
LEMMA LengthIsAnnounced ==
    ASSUME NEW b \in Seq(Units), b # <<>>, b[1].part = "line"
    PROVE  /\ LengthOf(b) \in Nat \cup {NoLength}
           /\ LengthOf(b) # NoLength =>
                  \E i \in DOMAIN b[1].headers :
                      /\ b[1].headers[i].name = "Content-Length"
                      /\ b[1].headers[i].length = LengthOf(b)
<1>1. b[1].headers \in Seq(HeaderLines)
  BY LineUnit
<1>2. CASE Has(b[1].headers, "Content-Length")
  <2>1. PICK i \in DOMAIN b[1].headers :
            /\ b[1].headers[i].name = "Content-Length"
            /\ Find(b[1].headers, "Content-Length") = b[1].headers[i]
    BY <1>1, <1>2, FindIsFirst
  <2>2. LengthOf(b) = b[1].headers[i].length
    BY <1>2, <2>1 DEF LengthOf
  <2>3. b[1].headers[i] \in HeaderLines
    BY <1>1
  <2>4. b[1].headers[i].length \in Nat \cup {NoLength}
    BY <2>1, <2>3 DEF HeaderLines
  <2> QED
    BY <2>1, <2>2, <2>4
<1>3. CASE ~Has(b[1].headers, "Content-Length")
  BY <1>3 DEF LengthOf
<1> QED
  BY <1>2, <1>3

\* The head of a request that begins the buffer is its first two units.
LEMMA HeadOfRequest ==
    ASSUME NEW w \in Seq(Units), Framed(w), NEW f \in DOMAIN w, NEW u \in DOMAIN w, f <= u,
           w[f].part = "line", Parsable(SubSeq(w, f, u))
    PROVE  /\ f + 1 <= u /\ HeadEnd(SubSeq(w, f, u)) = 2 /\ w[f + 1].part = "end"
<1> DEFINE b == SubSeq(w, f, u)
<1>1. /\ b \in Seq(Units) /\ Len(b) = u - f + 1
      /\ \A k \in 1..(u - f + 1) : b[k] = w[f + k - 1]
  BY BufferAt
<1>2. PICK i \in DOMAIN b : EndsHead(b[i])
  BY DEF Parsable, HeadEnd
<1> HIDE DEF b
<1>3. HeadEnd(b) \in DOMAIN b /\ EndsHead(b[HeadEnd(b)]) /\ \A j \in 1..(HeadEnd(b) - 1) : ~EndsHead(b[j])
  BY <1>1, <1>2, HeadEndIsFirst
<1>4. b[1] = w[f] /\ ~EndsHead(b[1])
  BY <1>1 DEF EndsHead
<1>5. f + 1 \in DOMAIN w /\ w[f + 1].part = "end"
  BY DEF Framed
<1>6. i # 1 /\ i \in Nat /\ i <= u - f + 1
  BY <1>1, <1>2, <1>4
<1>7. f + 1 <= u
  BY <1>6, <1>1
<1>8. b[2] = w[f + 1] /\ EndsHead(b[2])
  BY <1>1, <1>5, <1>7 DEF EndsHead
<1>9. HeadEnd(b) = 2
  <2>1. PICK h \in Nat : h = HeadEnd(b)
    BY <1>1, <1>3
  <2>2. h >= 1 /\ h # 1
    BY <1>1, <1>3, <1>4, <2>1
  <2>3. ~(h > 2)
    BY <1>3, <1>8, <2>1
  <2> QED
    BY <2>1, <2>2, <2>3
<1> QED
  BY <1>5, <1>7, <1>9 DEF b

\* The body that parse_body cuts out, unit by unit.
LEMMA BodyUnits ==
    ASSUME NEW w \in Seq(Units), Framed(w), NEW f \in DOMAIN w, NEW u \in DOMAIN w, f <= u,
           w[f].part = "line", Parsable(SubSeq(w, f, u)), LengthOf(SubSeq(w, f, u)) \in Nat
    PROVE  LET L == LengthOf(SubSeq(w, f, u))
               body == BodyOf(SubSeq(w, f, u))
           IN  /\ body \in Seq(Units)
               /\ Len(body) = Smaller(u - f - 1, L)
               /\ \A k \in DOMAIN body : body[k] = w[f + 1 + k] /\ f + 1 + k \in DOMAIN w
<1> DEFINE b == SubSeq(w, f, u)
<1>1. /\ b \in Seq(Units) /\ Len(b) = u - f + 1
      /\ \A k \in 1..(u - f + 1) : b[k] = w[f + k - 1]
  BY BufferAt
<1>2. f + 1 <= u /\ HeadEnd(b) = 2
  BY HeadOfRequest
<1>3. PICK L \in Nat : L = LengthOf(b)
  OBVIOUS
<1>4. BodyOf(b) = SubSeq(b, 3, Smaller(Len(b), 2 + L))
  BY <1>2, <1>3 DEF BodyOf
<1> HIDE DEF b
<1>5. PICK e \in Nat : e = Smaller(Len(b), 2 + L)
  BY <1>1 DEF Smaller
<1>6. e <= Len(b) /\ e >= 2 /\ e - 2 = Smaller(u - f - 1, L)
  BY <1>1, <1>2, <1>5 DEF Smaller
<1>7. /\ SubSeq(b, 3, e) \in Seq(Units)
      /\ Len(SubSeq(b, 3, e)) = IF 3 <= e THEN e - 3 + 1 ELSE 0
      /\ \A i \in 1..(e - 3 + 1) : SubSeq(b, 3, e)[i] = b[3 + i - 1]
  BY <1>1, <1>6, BufferAt
<1>8. Len(SubSeq(b, 3, e)) = e - 2
  BY <1>6, <1>7
<1>9. ASSUME NEW k \in DOMAIN SubSeq(b, 3, e)
      PROVE  SubSeq(b, 3, e)[k] = w[f + 1 + k] /\ f + 1 + k \in DOMAIN w
  <2>1. k \in 1..(e - 2)
    BY <1>7, <1>8
  <2>2. SubSeq(b, 3, e)[k] = b[k + 2]
    BY <1>7, <2>1
  <2>3. b[k + 2] = w[f + 1 + k]
    <3>1. k + 2 \in 1..(u - f + 1)
      BY <1>1, <1>6, <2>1
    <3>2. b[k + 2] = w[f + (k + 2) - 1]
      BY <1>1, <3>1
    <3>3. f + (k + 2) - 1 = f + 1 + k
      BY <2>1
    <3> QED
      BY <3>2, <3>3
  <2>4. k + 1 <= u - f
    BY <1>1, <1>6, <2>1
  <2>5. f + 1 + k \in DOMAIN w
    <3>1. f \in Nat /\ u \in Nat /\ u <= Len(w) /\ Len(w) \in Nat /\ DOMAIN w = 1..Len(w)
      OBVIOUS
    <3> QED
      BY <2>1, <2>4, <3>1
  <2> QED
    BY <2>2, <2>3, <2>5
<1> QED
  BY <1>3, <1>4, <1>5, <1>6, <1>7, <1>8, <1>9 DEF b

\* A handler is only given a body when the buffer began with a request line.
LEMMA BodyNeedsLine ==
    ASSUME NEW b \in Seq(Units), b # <<>>, MethodOf(b) \in Methods
    PROVE  b[1].part = "line"
<1>1. b[1] \in Units
  OBVIOUS
<1>2. b[1].part \in {"line", "end", "close", "json", "part", "data"}
  BY <1>1 DEF Units, Lines
<1> QED
  BY <1>2 DEF MethodOf, FirstLine, Methods

\* Each unit of a body or a form that was handed over is one of its request.
LEMMA HandedIsOwn ==
    ASSUME NEW w \in Seq(Units), Framed(w), NEW t \in Takings(w), NEW k \in DOMAIN t.handed.content
    PROVE  t.handed.content[k].req = t.req
<1>1. PICK f \in DOMAIN w, u \in DOMAIN w :
         f <= u /\ Parsable(SubSeq(w, f, u)) /\ t = TakenAt(w, f, u)
  BY Zenon DEF Takings
<1> DEFINE b == SubSeq(w, f, u)
           m == MethodOf(b)
<1>2. t.req = b[1].req /\ t.handed = IF Accepts(b, m) THEN Handed(b, m) ELSE NothingHanded
  BY <1>1 DEF TakenAt
<1>3. t.handed.content = IF Accepts(b, m) /\ HasBody(b, m) THEN BodyOf(b) ELSE <<>>
  BY <1>2 DEF Handed, NothingHanded
<1>4. HasBody(b, m)
  BY <1>3
<1>5. /\ b \in Seq(Units) /\ Len(b) = u - f + 1 /\ b[1] = w[f] /\ b # <<>>
  <2>1. /\ b \in Seq(Units) /\ Len(b) = u - f + 1
        /\ \A i \in 1..(u - f + 1) : b[i] = w[f + i - 1]
    BY <1>1, BufferAt
  <2>2. 1 \in 1..(u - f + 1) /\ f + 1 - 1 = f
    BY <1>1
  <2>3. b[1] = w[f]
    BY <2>1, <2>2
  <2> HIDE DEF b
  <2>4. b # <<>>
    BY <2>1, <2>2
  <2> QED
    BY <2>1, <2>3, <2>4
<1> HIDE DEF b, m
<1>6. w[f].part = "line"
  BY <1>4, <1>5, BodyNeedsLine DEF HasBody, BodyMethods, Methods, m
<1>7. LengthOf(b) \in Nat /\ LengthOf(b) > 0
  <2>1. b[1].part = "line"
    BY <1>5, <1>6
  <2>2. LengthOf(b) \in Nat \cup {NoLength}
    BY <1>5, <2>1, LengthIsAnnounced
  <2>3. LengthOf(b) > 0
    BY <1>4 DEF HasBody
  <2> QED
    BY <2>2, <2>3 DEF NoLength
<1>8. PICK i \in DOMAIN w[f].headers :
         w[f].headers[i].name = "Content-Length" /\ w[f].headers[i].length = LengthOf(b)
  <2>1. b[1].part = "line" /\ LengthOf(b) # NoLength
    BY <1>5, <1>6, <1>7 DEF NoLength
  <2>2. \E i \in DOMAIN b[1].headers :
           b[1].headers[i].name = "Content-Length" /\ b[1].headers[i].length = LengthOf(b)
    BY <1>5, <2>1, LengthIsAnnounced
  <2> QED
    BY <1>5, <2>2
<1>9. /\ Len(BodyOf(b)) = Smaller(u - f - 1, LengthOf(b)) /\ BodyOf(b) \in Seq(Units)
      /\ \A j \in DOMAIN BodyOf(b) : BodyOf(b)[j] = w[f + 1 + j] /\ f + 1 + j \in DOMAIN w
  BY <1>1, <1>6, <1>7, BodyUnits DEF b
<1>10. k \in DOMAIN BodyOf(b) /\ t.handed.content[k] = BodyOf(b)[k]
  BY <1>3
<1>11. k \in Nat /\ 1 <= k /\ k <= LengthOf(b)
  BY <1>1, <1>7, <1>9, <1>10 DEF Smaller
<1>12. f + 1 + k \in (f + 2)..(f + 1 + w[f].headers[i].length)
  BY <1>1, <1>7, <1>8, <1>11
<1>13. w[f + 1 + k].req = w[f].req
  BY <1>1, <1>6, <1>8, <1>12 DEF Framed
<1> QED
  BY <1>2, <1>5, <1>9, <1>10, <1>13

LEMMA BodyFollows == StreamInv => BodyIsOwn
<1> SUFFICES ASSUME StreamInv PROVE BodyIsOwn
  OBVIOUS
<1>1. wire \in Seq(Units) /\ Framed(wire)
  BY StateOfBuffer, FramingAssumption DEF StreamInv, RoomInv, TypeOK
<1>2. \A i \in DOMAIN taken : taken[i] \in Takings(wire)
  BY DEF StreamInv, HistoryOK
<1> QED
  BY <1>1, <1>2, HandedIsOwn DEF BodyIsOwn

\* The body a handler gets consists of units of its own request, for any
\* requests, fragments, sizes and whatever the former request left behind.
THEOREM BodyIsOwnCorrect == Spec => []BodyIsOwn
  BY BodyFollows, StreamInit, StreamStep, PTL DEF Spec

-----------------------------------------------------------------------------
(* Requests that were in the buffer as a whole *)

\* The lines of a name, as a set of places.
LEMMA PlacesFinite ==
    ASSUME NEW hs \in Seq(HeaderLines), NEW name
    PROVE  /\ IsFiniteSet({i \in DOMAIN hs : hs[i].name = name})
           /\ Count(hs, name) \in Nat
<1>1. IsFiniteSet(1..Len(hs)) /\ DOMAIN hs = 1..Len(hs)
  BY FS_Interval
<1>2. {i \in DOMAIN hs : hs[i].name = name} \in SUBSET (1..Len(hs))
  BY <1>1
<1> QED
  BY <1>1, <1>2, FS_Subset, FS_CardinalityType DEF Count

LEMMA CountZero ==
    ASSUME NEW hs \in Seq(HeaderLines), NEW name
    PROVE  Count(hs, name) = 0 <=> \A i \in DOMAIN hs : hs[i].name # name
<1> DEFINE P == {i \in DOMAIN hs : hs[i].name = name}
<1>1. IsFiniteSet(P)
  BY PlacesFinite
<1>2. Cardinality(P) = 0 <=> P = {}
  BY <1>1, FS_EmptySet
<1> QED
  BY <1>2 DEF Count

LEMMA CountOnce ==
    ASSUME NEW hs \in Seq(HeaderLines), NEW name
    PROVE  Count(hs, name) < 2 <=>
               \A i, j \in DOMAIN hs : hs[i].name = name /\ hs[j].name = name => i = j
<1> DEFINE P == {i \in DOMAIN hs : hs[i].name = name}
<1>1. IsFiniteSet(P) /\ Cardinality(P) \in Nat
  BY PlacesFinite DEF Count
<1>2. ASSUME NEW i \in P, NEW j \in P, i # j PROVE Cardinality(P) >= 2
  <2>1. IsFiniteSet({i}) /\ Cardinality({i}) = 1
    BY FS_Singleton
  <2>2. Cardinality({i} \cup {j}) = 2
    <3>1. Cardinality({i} \cup {j}) = IF j \in {i} THEN Cardinality({i}) ELSE Cardinality({i}) + 1
      BY <2>1, FS_AddElement
    <3>2. j \notin {i}
      BY <1>2
    <3>3. Cardinality({i}) + 1 = 2
      BY <2>1
    <3> QED
      BY <3>1, <3>2, <3>3, Zenon
  <2>3. {i} \cup {j} \in SUBSET P
    OBVIOUS
  <2>4. Cardinality({i} \cup {j}) <= Cardinality(P)
    BY <1>1, <2>3, FS_Subset
  <2> QED
    BY <1>1, <2>2, <2>4
<1>3. ASSUME \A i, j \in P : i = j PROVE Cardinality(P) < 2
  <2>1. CASE P = {}
    <3>1. Cardinality(P) = 0
      BY <2>1, FS_EmptySet, Zenon
    <3> QED
      BY <3>1
  <2>2. CASE P # {}
    <3>1. PICK i \in P : P = {i}
      BY <1>3, <2>2
    <3> QED
      BY <3>1, FS_Singleton
  <2> QED
    BY <2>1, <2>2
<1>4. Count(hs, name) = Cardinality(P)
  BY DEF Count
<1> HIDE DEF P
<1>5. Count(hs, name) < 2 <=> \A i, j \in P : i = j
  BY <1>1, <1>2, <1>3, <1>4
<1> QED
  BY <1>5 DEF P

\* The names read before line i are at most i - 1.
LEMMA NamesBefore ==
    ASSUME NEW hs \in Seq(HeaderLines), NEW i \in 1..(Len(hs) + 1)
    PROVE  IsFiniteSet(Before(hs, i)) /\ Cardinality(Before(hs, i)) <= i - 1
<1> DEFINE f == [j \in 1..(i - 1) |-> hs[j].name]
<1>1. f \in Surjection(1..(i - 1), Before(hs, i))
  BY DEF Surjection, Before
<1>2. PICK c \in Nat : c = i - 1
  OBVIOUS
<1>3. IsFiniteSet(1..c) /\ Cardinality(1..c) = c
  <2>1. 1 \in Int /\ c \in Int
    OBVIOUS
  <2>2. PICK S : S = 1..c
    OBVIOUS
  <2>3. IsFiniteSet(S) /\ Cardinality(S) = IF 1 > c THEN 0 ELSE c - 1 + 1
    BY <2>1, <2>2, FS_Interval, Zenon
  <2>4. IsFiniteSet(S) /\ Cardinality(S) = c
    BY <2>3
  <2> QED
    BY <2>2, <2>4, Zenon
<1> HIDE DEF f
<1> QED
  BY <1>1, <1>2, <1>3, FS_Surjection

\* What parse_headers accepts, told from the lines as a whole.
LEMMA AcceptedLines ==
    ASSUME NEW hs \in Seq(HeaderLines), \A i \in DOMAIN hs : ~RefusedLine(hs, i)
    PROVE  /\ Count(hs, "malformed") = 0 /\ Count(hs, "Transfer-Encoding") = 0
           /\ Count(hs, "Host") < 2 /\ Count(hs, "Content-Length") < 2
           /\ Cardinality({hs[i].name : i \in DOMAIN hs}) <= MaxHeaders
<1>1. Count(hs, "malformed") = 0 /\ Count(hs, "Transfer-Encoding") = 0
  BY CountZero DEF RefusedLine
<1>2. ASSUME NEW name \in {"Host", "Content-Length"} PROVE Count(hs, name) < 2
  <2>1. ASSUME NEW i \in DOMAIN hs, NEW j \in DOMAIN hs, hs[i].name = name, hs[j].name = name, i < j
        PROVE  FALSE
    <3>1. name \in Before(hs, j)
      BY <2>1 DEF Before
    <3> QED
      BY <1>2, <2>1, <3>1 DEF RefusedLine
  <2>2. \A i, j \in DOMAIN hs : hs[i].name = name /\ hs[j].name = name => i = j
    BY <2>1
  <2> QED
    BY <2>2, CountOnce
<1>3. Cardinality({hs[i].name : i \in DOMAIN hs}) <= MaxHeaders
  <2> DEFINE n == Len(hs)
             names == {hs[i].name : i \in DOMAIN hs}
  <2>1. CASE hs = <<>>
    <3>1. names = {}
      BY <2>1
    <3>2. Cardinality(names) = 0
      BY <3>1, FS_EmptySet, Zenon
    <3> QED
      BY <3>2, SizeAssumption
  <2>2. CASE hs # <<>>
    <3>1. n \in DOMAIN hs /\ n \in 1..(Len(hs) + 1) /\ DOMAIN hs = 1..n /\ n \in Nat
      BY <2>2
    <3>2. names = Before(hs, n) \cup {hs[n].name}
      BY <3>1 DEF Before
    <3>3. IsFiniteSet(Before(hs, n)) /\ Cardinality(Before(hs, n)) \in Nat
      BY <3>1, NamesBefore, FS_CardinalityType
    <3> HIDE DEF n, names
    <3>7. Cardinality(Before(hs, n) \cup {hs[n].name}) =
            IF hs[n].name \in Before(hs, n) THEN Cardinality(Before(hs, n))
            ELSE Cardinality(Before(hs, n)) + 1
      BY <3>3, FS_AddElement
    <3>4. Cardinality(names) <= Cardinality(Before(hs, n)) + 1
      BY <3>2, <3>3, <3>7
    <3>5. ~(Cardinality(Before(hs, n)) >= MaxHeaders)
      BY <3>1 DEF RefusedLine
    <3>6. Cardinality(names) \in Nat
      BY <3>2, <3>3, <3>7
    <3> QED
      BY <3>3, <3>4, <3>5, <3>6, SizeAssumption DEF names
  <2> QED
    BY <2>1, <2>2
<1> QED
  BY <1>1, <1>2, <1>3

LEMMA LinesAccepted ==
    ASSUME NEW hs \in Seq(HeaderLines), Len(hs) <= MaxHeaders,
           Count(hs, "malformed") = 0, Count(hs, "Transfer-Encoding") = 0,
           Count(hs, "Host") < 2, Count(hs, "Content-Length") < 2
    PROVE  \A i \in DOMAIN hs : ~RefusedLine(hs, i)
<1> SUFFICES ASSUME NEW i \in DOMAIN hs PROVE ~RefusedLine(hs, i)
  OBVIOUS
<1>1. ~(Cardinality(Before(hs, i)) >= MaxHeaders)
  <2>1. i \in 1..(Len(hs) + 1) /\ i <= Len(hs) /\ i \in Nat /\ Len(hs) \in Nat
    OBVIOUS
  <2>2. Cardinality(Before(hs, i)) <= i - 1 /\ Cardinality(Before(hs, i)) \in Nat
    BY <2>1, NamesBefore, FS_CardinalityType
  <2> QED
    BY <2>1, <2>2, SizeAssumption
<1>2. hs[i].name \notin {"malformed", "Transfer-Encoding"}
  BY CountZero
<1>3. ASSUME hs[i].name \in {"Host", "Content-Length"} PROVE hs[i].name \notin Before(hs, i)
  <2>1. \A j, k \in DOMAIN hs : hs[j].name = hs[i].name /\ hs[k].name = hs[i].name => j = k
    BY <1>3, CountOnce
  <2>2. ASSUME NEW j \in 1..(i - 1), hs[j].name = hs[i].name PROVE FALSE
    <3>1. j \in DOMAIN hs /\ j # i
      OBVIOUS
    <3> QED
      BY <2>1, <2>2, <3>1
  <2> QED
    BY <2>2 DEF Before
<1> QED
  BY <1>1, <1>2, <1>3 DEF RefusedLine

\* The type by which parse_body goes is that of the first line of its name.
LEMMA TypeIsFirst ==
    ASSUME NEW b, b[1].headers \in Seq(HeaderLines), NEW type \in {"json", "multipart"}
    PROVE  Type(b[1].headers, type) <=> TypeOf(b) = type
<1> DEFINE hs == b[1].headers
<1>1. CASE Has(hs, "Content-Type")
  <2>1. PICK i \in DOMAIN hs : /\ hs[i].name = "Content-Type"
                               /\ "Content-Type" \notin Before(hs, i)
                               /\ Find(hs, "Content-Type") = hs[i]
    BY <1>1, FindIsFirst
  <2>2. TypeOf(b) = hs[i].type
    BY <1>1, <2>1 DEF TypeOf
  <2>3. \A j \in 1..(i - 1) : hs[j].name # "Content-Type"
    BY <2>1 DEF Before
  <2> HIDE DEF hs
  <2>4. ASSUME NEW j \in DOMAIN hs, hs[j].name = "Content-Type",
               \A k \in 1..(j - 1) : hs[k].name # "Content-Type"
        PROVE  j = i
    <3>1. hs \in Seq(HeaderLines)
      BY DEF hs
    <3>2. i \in Nat /\ j \in Nat /\ i >= 1 /\ j >= 1
      BY <3>1
    <3>3. ~(i < j) /\ ~(j < i)
      BY <2>1, <2>3, <2>4, <3>2
    <3> QED
      BY <3>2, <3>3
  <2>5. Type(hs, type) <=> hs[i].type = type
    BY <2>1, <2>3, <2>4, Zenon DEF Type
  <2> QED
    BY <2>2, <2>5 DEF hs
<1>2. CASE ~Has(hs, "Content-Type")
  BY <1>2 DEF Has, Type, TypeOf
<1> QED
  BY <1>1, <1>2

\* With one Content-Length line, what it announces is what LengthOf takes.
LEMMA OneLength ==
    ASSUME NEW b \in Seq(Units), b # <<>>, b[1].part = "line",
           Count(b[1].headers, "Content-Length") < 2
    PROVE  /\ \A n \in Nat : Announced(b[1].headers, n) <=> LengthOf(b) = n
           /\ Announces(b[1].headers) <=> LengthOf(b) # NoLength
           /\ LengthOf(b) \in Nat \cup {NoLength}
<1> DEFINE hs == b[1].headers
<1>1. hs \in Seq(HeaderLines)
  BY LineUnit
<1>2. \A i, j \in DOMAIN hs : hs[i].name = "Content-Length" /\ hs[j].name = "Content-Length" => i = j
  BY <1>1, CountOnce
<1>3. ASSUME NEW i \in DOMAIN hs, hs[i].name = "Content-Length" PROVE LengthOf(b) = hs[i].length
  <2>1. Has(hs, "Content-Length")
    BY <1>3 DEF Has
  <2>2. PICK j \in DOMAIN hs : hs[j].name = "Content-Length" /\ Find(hs, "Content-Length") = hs[j]
    BY <1>1, <2>1, FindIsFirst
  <2>3. LengthOf(b) = hs[j].length
    BY <2>1, <2>2 DEF LengthOf
  <2> HIDE DEF hs
  <2>4. i = j
    BY <1>2, <1>3, <2>2
  <2> QED
    BY <2>3, <2>4
<1>4. /\ LengthOf(b) \in Nat \cup {NoLength}
      /\ LengthOf(b) # NoLength =>
             \E i \in DOMAIN hs : hs[i].name = "Content-Length" /\ hs[i].length = LengthOf(b)
  BY LengthIsAnnounced
<1> HIDE DEF hs
<1>5. \A n \in Nat : Announced(hs, n) <=> LengthOf(b) = n
  BY <1>3, <1>4 DEF Announced, NoLength
<1>6. Announces(hs) <=> LengthOf(b) # NoLength
  BY <1>3, <1>4 DEF Announces
<1> QED
  BY <1>4, <1>5, <1>6 DEF hs

\* The units between the head of a request and its end are pieces of its body.
LEMMA WholeUnits ==
    ASSUME NEW w \in Seq(Units), Framed(w), NEW f \in DOMAIN w, NEW u \in DOMAIN w, f <= u,
           w[f].part = "line", \A k \in f..u : w[k].req = w[f].req
    PROVE  \A k \in (f + 2)..u : w[k].part \in {"json", "part", "data", "close"}
<1> SUFFICES ASSUME NEW k \in (f + 2)..u PROVE w[k].part \in {"json", "part", "data", "close"}
  OBVIOUS
<1>1. /\ k \in DOMAIN w \ {1} /\ k - 1 \in DOMAIN w \ {1} /\ w[k] \in Units
      /\ w[k].req = w[f].req /\ w[k - 1].req = w[f].req /\ w[f].req \in Nat
      /\ k - 1 \in (f + 1)..u /\ (k - 1 # f + 1 => k - 2 \in f..u)
  <2>1. /\ k \in DOMAIN w \ {1} /\ k - 1 \in DOMAIN w \ {1} /\ k \in f..u /\ k - 1 \in f..u
        /\ k - 1 \in (f + 1)..u /\ (k - 1 # f + 1 => k - 2 \in f..u)
    OBVIOUS
  <2>2. w[k] \in Units /\ w[f] \in Units
    BY <2>1
  <2>3. w[f].req \in Nat
    BY <2>2 DEF Units, Lines
  <2> QED
    BY <2>1, <2>2, <2>3
<1>2. w[k].part # "line"
  <2>1. w[k].part = "line" => w[k].req = w[k - 1].req + 1
    BY <1>1 DEF Framed
  <2> QED
    BY <1>1, <2>1
<1>3. w[k].part # "end"
  <2>1. w[k].part = "end" => w[k - 1].part = "line"
    BY <1>1 DEF Framed
  <2>2. w[k - 1].part = "line" => w[k - 1].req = w[(k - 1) - 1].req + 1
    BY <1>1 DEF Framed
  <2>3. (k - 1) - 1 = k - 2 /\ k - 2 \in f..u
    OBVIOUS
  <2>4. w[k - 2].req = w[f].req
    BY <2>3
  <2> QED
    BY <1>1, <2>1, <2>2, <2>3, <2>4
<1> QED
  BY <1>1, <1>2, <1>3 DEF Units, Lines

LEMMA LengthOfBody ==
    ASSUME NEW f \in Nat, NEW u \in Nat, f + 1 <= u
    PROVE  (IF f + 2 <= u THEN u - (f + 2) + 1 ELSE 0) = u - f - 1
OBVIOUS

\* A request that a parser holds as a whole announces no more than its body has,
\* and the body that parse_body cuts out is the one it announces.
LEMMA WholeBody ==
    ASSUME NEW w \in Seq(Units), Framed(w), NEW f \in DOMAIN w, NEW u \in DOMAIN w, f <= u,
           w[f].part = "line", Parsable(SubSeq(w, f, u)),
           f..u = {k \in DOMAIN w : w[k].req = w[f].req},
           LengthOf(SubSeq(w, f, u)) \in Nat
    PROVE  LET L == LengthOf(SubSeq(w, f, u))
               body == SubSeq(w, f + 2, u)
           IN  /\ L <= Len(body) /\ Len(body) = u - f - 1
               /\ BodyOf(SubSeq(w, f, u)) \in Seq(Units) /\ Len(BodyOf(SubSeq(w, f, u))) = L
               /\ \A k \in DOMAIN BodyOf(SubSeq(w, f, u)) :
                     /\ BodyOf(SubSeq(w, f, u))[k] = body[k]
                     /\ body[k] = w[f + 1 + k] /\ k \in DOMAIN body
               /\ L = Len(body) => BodyOf(SubSeq(w, f, u)) = body
<1> DEFINE b == SubSeq(w, f, u)
           body == SubSeq(w, f + 2, u)
<1>1. /\ b \in Seq(Units) /\ Len(b) = u - f + 1
      /\ \A k \in 1..(u - f + 1) : b[k] = w[f + k - 1]
  BY BufferAt
<1>2. f + 1 <= u /\ HeadEnd(b) = 2
  BY HeadOfRequest
<1>3. /\ body \in Seq(Units) /\ Len(body) = IF f + 2 <= u THEN u - (f + 2) + 1 ELSE 0
      /\ \A k \in 1..(u - (f + 2) + 1) : body[k] = w[f + 2 + k - 1]
  <2>1. f + 2 \in Nat \ {0} /\ u \in Nat /\ u <= Len(w)
    OBVIOUS
  <2> QED
    BY <2>1, BufferAt
<1>4. Len(body) = u - f - 1
  <2>1. f \in Nat /\ u \in Nat /\ f + 1 <= u
    BY <1>2
  <2> HIDE DEF body
  <2> QED
    BY <1>3, <2>1, LengthOfBody
<1>5. PICK L \in Nat : L = LengthOf(b)
  OBVIOUS
<1>6. /\ BodyOf(b) \in Seq(Units) /\ Len(BodyOf(b)) = Smaller(u - f - 1, L)
      /\ \A k \in DOMAIN BodyOf(b) : BodyOf(b)[k] = w[f + 1 + k] /\ f + 1 + k \in DOMAIN w
  BY <1>5, BodyUnits
<1>7. b[1] = w[f] /\ b # <<>>
  <2>1. 1 \in 1..(u - f + 1) /\ f + 1 - 1 = f
    BY <1>2
  <2>2. b[1] = w[f]
    BY <1>1, <2>1
  <2> QED
    BY <1>1, <1>2, <2>2
<1>8. \A k \in DOMAIN w : w[k].req = w[f].req => k <= u
  OBVIOUS
<1> HIDE DEF b, body
<1>9. PICK i \in DOMAIN b[1].headers :
         b[1].headers[i].name = "Content-Length" /\ b[1].headers[i].length = L
  <2>1. b[1].part = "line" /\ LengthOf(b) # NoLength
    BY <1>5, <1>7 DEF NoLength
  <2> QED
    BY <1>1, <1>5, <1>7, <2>1, LengthIsAnnounced
<1>10. \A k \in (f + 2)..(f + 1 + L) : k \in DOMAIN w /\ w[k].req = w[f].req
  BY <1>7, <1>9 DEF Framed
<1>11. L <= u - f - 1
  <2>1. SUFFICES ASSUME L > u - f - 1 PROVE FALSE
    BY <1>5
  <2>2. u + 1 \in (f + 2)..(f + 1 + L)
    BY <1>2, <2>1
  <2>3. u + 1 \in DOMAIN w /\ w[u + 1].req = w[f].req
    BY <1>10, <2>2
  <2> QED
    BY <1>8, <2>3
<1>12. Len(BodyOf(b)) = L
  BY <1>6, <1>11 DEF Smaller
<1>13. ASSUME NEW k \in DOMAIN BodyOf(b)
       PROVE  BodyOf(b)[k] = body[k] /\ body[k] = w[f + 1 + k] /\ k \in DOMAIN body
  <2>1. k \in 1..L
    BY <1>6, <1>12
  <2>2. k \in 1..(u - (f + 2) + 1) /\ f + 2 + k - 1 = f + 1 + k
    BY <1>11, <2>1
  <2>3. body[k] = w[f + 2 + k - 1] /\ k \in DOMAIN body
    <3>1. body[k] = w[f + 2 + k - 1]
      BY <1>3, <2>2
    <3>2. DOMAIN body = 1..Len(body)
      BY <1>3
    <3>3. k <= u - f - 1
      BY <1>11, <2>1
    <3>4. k \in 1..Len(body)
      BY <1>4, <2>1, <3>3
    <3> QED
      BY <3>1, <3>2, <3>4
  <2> QED
    BY <1>6, <2>2, <2>3
<1>14. L = Len(body) => BodyOf(b) = body
  <2>1. SUFFICES ASSUME L = Len(body) PROVE BodyOf(b) = body
    OBVIOUS
  <2>2. Len(BodyOf(b)) = Len(body)
    BY <1>12, <2>1
  <2>3. DOMAIN BodyOf(b) = 1..Len(BodyOf(b))
    BY <1>6
  <2>4. \A k \in 1..Len(BodyOf(b)) : BodyOf(b)[k] = body[k]
    BY <1>13, <2>3
  <2> QED
    BY <1>3, <1>6, <2>2, <2>4, SeqEqual
<1> QED
  BY <1>4, <1>5, <1>6, <1>11, <1>12, <1>13, <1>14 DEF b, body

-----------------------------------------------------------------------------
(* Forms *)

\* What parse_multipart_form_data takes for the content of a part.
LEMMA ContentsAre ==
    ASSUME NEW body \in Seq(Units), NEW i \in DOMAIN body
    PROVE  \E e \in i..Len(body) :
              /\ Contents(body, i) = SubSeq(body, i + 1, e)
              /\ e = Len(body) \/ Delimiter(body[e + 1])
              /\ \A j \in (i + 1)..e : ~Delimiter(body[j])
<1> DEFINE Ends(k) == /\ k = Len(body) \/ Delimiter(body[k + 1])
                      /\ \A j \in (i + 1)..k : ~Delimiter(body[j])
           T == {k \in i..Len(body) : k = Len(body) \/ Delimiter(body[k + 1])}
<1>1. PICK x \in T : \A y \in T : x <= y
  <2>1. T \subseteq Nat /\ Len(body) \in T
    OBVIOUS
  <2> QED
    BY <2>1, LeastNat
<1>2. \A j \in (i + 1)..x : ~Delimiter(body[j])
  <2>1. SUFFICES ASSUME NEW j \in (i + 1)..x, Delimiter(body[j]) PROVE FALSE
    OBVIOUS
  <2>2. (j - 1) + 1 = j /\ j - 1 \in i..Len(body) /\ ~(x <= j - 1)
    OBVIOUS
  <2>3. j - 1 \in T
    BY <2>1, <2>2
  <2> QED
    BY <1>1, <2>2, <2>3
<1>3. x \in i..Len(body) /\ Ends(x)
  BY <1>1, <1>2
<1> DEFINE e == CHOOSE k \in i..Len(body) : Ends(k)
<1>4. e \in i..Len(body) /\ Ends(e)
  BY <1>3, Zenon
<1>5. Contents(body, i) = SubSeq(body, i + 1, e)
  BY Zenon DEF Contents
<1> QED
  BY <1>4, <1>5, Zenon

\* A part with a name is a field, and the first of its name gives the value.
LEMMA FieldOfFirst ==
    ASSUME NEW body \in Seq(Units), NEW file, NEW i \in PartsOf(body, file)
    PROVE  /\ body[i].name \in DOMAIN Fields(body, file)
           /\ (\A j \in PartsOf(body, file) : body[j].name = body[i].name => i <= j) =>
                  Fields(body, file)[body[i].name] = Contents(body, i)
<1> DEFINE parts == PartsOf(body, file)
           First(n, k) == k \in parts /\ body[k].name = n /\ \A j \in parts : body[j].name = n => k <= j
           first(n) == CHOOSE k \in parts :
                           body[k].name = n /\ \A j \in parts : body[j].name = n => k <= j
<1>1. Fields(body, file) = [n \in {body[k].name : k \in parts} |-> Contents(body, first(n))]
  BY Zenon DEF Fields
<1>2. body[i].name \in {body[k].name : k \in parts}
  OBVIOUS
<1>3. ASSUME \A j \in parts : body[j].name = body[i].name => i <= j
      PROVE  first(body[i].name) = i
  <2>1. First(body[i].name, first(body[i].name))
    BY <1>3, Zenon
  <2>2. PICK c : c = first(body[i].name)
    OBVIOUS
  <2>3. c \in parts /\ body[c].name = body[i].name
        /\ \A j \in parts : body[j].name = body[i].name => c <= j
    BY <2>1, <2>2, Zenon
  <2>4. c \in Nat /\ i \in Nat
    BY <2>3 DEF PartsOf
  <2>5. c <= i /\ i <= c
    BY <1>3, <2>3
  <2>6. c = i
    BY <2>4, <2>5
  <2> QED
    BY <2>2, <2>6, Zenon
<1> HIDE DEF first, parts
<1>4. Fields(body, file)[body[i].name] = Contents(body, first(body[i].name))
  BY <1>1, <1>2
<1>5. body[i].name \in DOMAIN Fields(body, file)
  BY <1>1, <1>2
<1> QED
  BY <1>3, <1>4, <1>5, Zenon DEF parts

\* The header of a part is told by its request, name and kind.
LEMMA SamePart ==
    ASSUME NEW x \in Units, NEW y \in Units, x.part = "part", y.part = "part",
           x.req = y.req, x.name = y.name, x.file = y.file
    PROVE  x = y
<1>1. /\ x \in [req : Nat \ {0}, part : {"part"}, name : {"a", "b", "none"}, file : BOOLEAN]
      /\ y \in [req : Nat \ {0}, part : {"part"}, name : {"a", "b", "none"}, file : BOOLEAN]
  BY DEF Units, Lines
<1> QED
  BY <1>1

\* Places in the body of a request that is at f to u, and in the stream.
LEMMA PlaceOfUnit ==
    ASSUME NEW f \in Nat, NEW u \in Nat, NEW k \in 1..(u - f - 1)
    PROVE  k \in 1..(u - (f + 2) + 1) /\ f + 2 + k - 1 = f + 1 + k
  OBVIOUS

ContentPlaces(f, u, i, q, e, k) ==
    /\ (IF q + 1 <= e THEN e - (q + 1) + 1 ELSE 0) = e - q
    /\ (IF i + 1 <= k THEN k - (i + 1) + 1 ELSE 0) = e - q
    /\ \A j \in 1..(e - q) :
          /\ j \in 1..(e - (q + 1) + 1) /\ q + 1 + j - 1 = q + j
          /\ j \in 1..(k - (i + 1) + 1) /\ i + 1 + j - 1 = i + j
          /\ q + j \in 1..(u - f - 1) /\ q + j \in (q + 1)..e
          /\ f + 1 + (q + j) = i + j /\ i + j \in (f + 2)..u
    /\ e # u - f - 1 => e + 1 \in 1..(u - f - 1) /\ f + 1 + (e + 1) = k + 1

LEMMA PlacesOfContent ==
    ASSUME NEW f \in Nat, NEW u \in Nat, NEW i \in Nat, NEW q \in Nat, NEW e \in Nat, NEW k \in Nat,
           f + 1 + q = i, k = f + 1 + e, 1 <= q, q <= e, e <= u - f - 1
    PROVE  ContentPlaces(f, u, i, q, e, k)
  BY DEF ContentPlaces

\* FieldsAsSent for the part i of the request at f to u.
FieldAsSent(w, f, u, i, fields) ==
    /\ w[i].name \in DOMAIN fields
    /\ w[i] \notin {w[j] : j \in f..(i - 1)} =>
           \E k \in i..u :
               /\ fields[w[i].name] = SubSeq(w, i + 1, k)
               /\ \A j \in DOMAIN SubSeq(w, i + 1, k) : SubSeq(w, i + 1, k)[j].part = "data"
               /\ k = u \/ w[k + 1].part # "data"

\* A unit of the body, counted from the start of the body.
LEMMA PlaceInBody ==
    ASSUME NEW f \in Nat, NEW u \in Nat, NEW i \in Nat, f + 2 <= i, i <= u
    PROVE  i - f - 1 \in 1..(u - f - 1) /\ f + 1 + (i - f - 1) = i
OBVIOUS

LEMMA EarlierPlace ==
    ASSUME NEW f \in Nat, NEW u \in Nat, NEW i \in Nat, NEW q \in 1..(u - f - 1), f + 1 + q = i,
           i <= u, NEW j \in 1..(u - f - 1), j < q
    PROVE  f + 1 + j \in f..u /\ f + 1 + j \in f..(i - 1)
OBVIOUS

LEMMA PlaceOfEnd ==
    ASSUME NEW f \in Nat, NEW u \in Nat, NEW i \in Nat, NEW q \in Nat, NEW e \in Nat, NEW k \in Nat,
           f + 1 + q = i, q <= e, e <= u - f - 1, k = f + 1 + e
    PROVE  k \in i..u
OBVIOUS

\* A part that was sent is a field; the first of its name gives it all data that
\* follow the header of the part.
LEMMA FormFields ==
    ASSUME NEW w \in Seq(Units), Framed(w), NEW f \in DOMAIN w, NEW u \in DOMAIN w, f + 1 <= u,
           w[f].part = "line", w[f + 1].part = "end",
           \A k \in f..u : w[k].req = w[f].req, NEW i \in f..u, w[i].part = "part", w[i].name # "none"
    PROVE  FieldAsSent(w, f, u, i, Fields(SubSeq(w, f + 2, u), w[i].file))
<1> DEFINE body == SubSeq(w, f + 2, u)
           file == w[i].file
<1>0. f \in Nat /\ u \in Nat /\ i \in Nat /\ 1 <= f /\ f <= i /\ i <= u /\ u <= Len(w)
  OBVIOUS
<1>1. i \in (f + 2)..u /\ f + 2 <= u
  <2>1. i # f /\ i # f + 1
    OBVIOUS
  <2> QED
    BY <2>1
<1>2. /\ body \in Seq(Units) /\ Len(body) = u - f - 1
      /\ \A k \in 1..(u - f - 1) : body[k] = w[f + 1 + k]
  <2>1. /\ body \in Seq(Units) /\ Len(body) = IF f + 2 <= u THEN u - (f + 2) + 1 ELSE 0
        /\ \A k \in 1..(u - (f + 2) + 1) : body[k] = w[f + 2 + k - 1]
    BY BufferAt
  <2>2. ASSUME NEW k \in 1..(u - f - 1) PROVE body[k] = w[f + 1 + k]
    <3>1. k \in 1..(u - (f + 2) + 1) /\ f + 2 + k - 1 = f + 1 + k
      BY <1>0, PlaceOfUnit
    <3>2. body[k] = w[f + 2 + k - 1]
      BY <2>1, <3>1
    <3> QED
      BY <3>1, <3>2
  <2> QED
    BY <1>1, <2>1, <2>2
<1>3. PICK q \in Nat : q = i - f - 1
  BY <1>1
<1>4. q \in 1..(u - f - 1) /\ f + 1 + q = i
  <2>1. f + 2 <= i
    BY <1>1
  <2>2. i - f - 1 \in 1..(u - f - 1) /\ f + 1 + (i - f - 1) = i
    BY <1>0, <2>1, PlaceInBody
  <2> QED
    BY <1>3, <2>2
<1>5. \A k \in f..u : k \in DOMAIN w /\ w[k].req = w[f].req
  OBVIOUS
<1>6. \A k \in (f + 2)..u : w[k].part \in {"json", "part", "data", "close"}
  BY <1>5, WholeUnits
<1>7. \A k \in (f + 2)..u : w[k].part # "json"
  <2>1. SUFFICES ASSUME NEW k \in (f + 2)..u, w[k].part = "json" PROVE FALSE
    OBVIOUS
  <2>2. k \in f..u
    OBVIOUS
  <2>3. k \in DOMAIN w /\ i \in DOMAIN w /\ w[k].req = w[i].req
    BY <1>5, <2>2
  <2> QED
    BY <2>1, <2>3 DEF Framed
<1> HIDE DEF body
<1>8. DOMAIN body = 1..(u - f - 1)
  BY <1>2
<1>9. q \in PartsOf(body, file) /\ body[q] = w[i]
  BY <1>2, <1>4, <1>8 DEF PartsOf, Named
<1>10. w[i].name \in DOMAIN Fields(body, file)
  BY <1>2, <1>9, FieldOfFirst
<1>11. ASSUME w[i] \notin {w[j] : j \in f..(i - 1)}
       PROVE  \E k \in i..u :
                 /\ Fields(body, file)[w[i].name] = SubSeq(w, i + 1, k)
                 /\ \A j \in DOMAIN SubSeq(w, i + 1, k) : SubSeq(w, i + 1, k)[j].part = "data"
                 /\ k = u \/ w[k + 1].part # "data"
  <2>1. ASSUME NEW j \in PartsOf(body, file), body[j].name = body[q].name, j < q PROVE FALSE
    <3>1. j \in 1..(u - f - 1) /\ body[j].part = "part" /\ body[j].file = file
      BY <1>8 DEF PartsOf, Named
    <3>2. f + 1 + j \in f..u /\ f + 1 + j \in f..(i - 1) /\ body[j] = w[f + 1 + j]
      <4>1. f + 1 + j \in f..u /\ f + 1 + j \in f..(i - 1)
        BY <1>0, <1>4, <2>1, <3>1, EarlierPlace
      <4>2. body[j] = w[f + 1 + j]
        BY <1>2, <3>1
      <4> QED
        BY <4>1, <4>2
    <3>3. w[f + 1 + j].req = w[i].req
      BY <1>5, <3>2
    <3>4. w[f + 1 + j] \in Units /\ w[i] \in Units
      BY <1>5, <3>2
    <3>5. /\ w[f + 1 + j].part = "part" /\ w[f + 1 + j].file = w[i].file
          /\ w[f + 1 + j].name = w[i].name
      BY <1>9, <2>1, <3>1, <3>2
    <3>6. w[f + 1 + j] = w[i]
      BY <3>3, <3>4, <3>5, SamePart
    <3> QED
      BY <1>11, <3>2, <3>6
  <2>2. \A j \in PartsOf(body, file) : body[j].name = body[q].name => q <= j
    <3>1. \A j \in PartsOf(body, file) : j \in Nat
      BY <1>8 DEF PartsOf
    <3> QED
      BY <2>1, <3>1
  <2>3. Fields(body, file)[w[i].name] = Contents(body, q)
    <3>1. Fields(body, file)[body[q].name] = Contents(body, q)
      BY <1>2, <1>9, <2>2, FieldOfFirst
    <3> QED
      BY <1>9, <3>1
  <2>4. PICK e \in q..Len(body) :
           /\ Contents(body, q) = SubSeq(body, q + 1, e)
           /\ e = Len(body) \/ Delimiter(body[e + 1])
           /\ \A j \in (q + 1)..e : ~Delimiter(body[j])
    BY <1>2, <1>4, <1>8, ContentsAre
  <2>5. PICK k \in Nat : k = f + 1 + e
    BY <1>4, <2>4
  <2>6. k \in i..u /\ e \in Nat /\ e <= u - f - 1 /\ k \in DOMAIN w
    <3>1. e \in Nat /\ q <= e /\ e <= u - f - 1
      BY <1>2, <1>4, <2>4
    <3>2. q \in Nat /\ f + 1 + q = i
      BY <1>4
    <3>3. k \in i..u
      BY <1>0, <2>5, <3>1, <3>2, PlaceOfEnd
    <3>4. k \in DOMAIN w
      BY <1>0, <3>3
    <3> QED
      BY <3>1, <3>3, <3>4
  <2>7. /\ SubSeq(body, q + 1, e) \in Seq(Units)
        /\ Len(SubSeq(body, q + 1, e)) = IF q + 1 <= e THEN e - (q + 1) + 1 ELSE 0
        /\ \A j \in 1..(e - (q + 1) + 1) : SubSeq(body, q + 1, e)[j] = body[q + 1 + j - 1]
    <3>1. q + 1 \in Nat \ {0} /\ e \in Nat /\ e <= Len(body)
      BY <2>4, <2>6
    <3> QED
      BY <1>2, <3>1, BufferAt
  <2>8. /\ SubSeq(w, i + 1, k) \in Seq(Units)
        /\ Len(SubSeq(w, i + 1, k)) = IF i + 1 <= k THEN k - (i + 1) + 1 ELSE 0
        /\ \A j \in 1..(k - (i + 1) + 1) : SubSeq(w, i + 1, k)[j] = w[i + 1 + j - 1]
    <3>1. i + 1 \in Nat \ {0} /\ k \in Nat /\ k <= Len(w)
      BY <1>1, <2>6
    <3> QED
      BY <3>1, BufferAt
  <2>14. ContentPlaces(f, u, i, q, e, k)
    <3>1. 1 <= q /\ q <= e
      BY <1>4, <2>4
    <3>2. f + 1 + q = i /\ k = f + 1 + e /\ e <= u - f - 1
      BY <1>4, <2>5, <2>6
    <3>3. f \in Nat /\ u \in Nat /\ i \in Nat /\ q \in Nat /\ e \in Nat /\ k \in Nat
      BY <1>0, <2>6
    <3> QED
      BY <3>1, <3>2, <3>3, PlacesOfContent, Zenon
  <2>9. Len(SubSeq(body, q + 1, e)) = e - q /\ Len(SubSeq(w, i + 1, k)) = e - q
    BY <2>7, <2>8, <2>14 DEF ContentPlaces
  <2>10. ASSUME NEW j \in 1..(e - q)
         PROVE  /\ SubSeq(body, q + 1, e)[j] = w[i + j] /\ SubSeq(w, i + 1, k)[j] = w[i + j]
                /\ w[i + j].part = "data"
    <3>1. /\ j \in 1..(e - (q + 1) + 1) /\ q + 1 + j - 1 = q + j
          /\ j \in 1..(k - (i + 1) + 1) /\ i + 1 + j - 1 = i + j
          /\ q + j \in 1..(u - f - 1) /\ q + j \in (q + 1)..e
          /\ f + 1 + (q + j) = i + j /\ i + j \in (f + 2)..u
      BY <2>14 DEF ContentPlaces
    <3>2. SubSeq(body, q + 1, e)[j] = body[q + j] /\ body[q + j] = w[i + j]
      <4>1. SubSeq(body, q + 1, e)[j] = body[q + 1 + j - 1]
        BY <2>7, <3>1
      <4>2. body[q + j] = w[f + 1 + (q + j)]
        BY <1>2, <3>1
      <4> QED
        BY <3>1, <4>1, <4>2
    <3>3. SubSeq(w, i + 1, k)[j] = w[i + 1 + j - 1]
      BY <2>8, <3>1
    <3>4. w[i + j].part \notin {"part", "close"}
      BY <2>4, <3>1, <3>2 DEF Delimiter
    <3>5. w[i + j].part = "data"
      BY <1>6, <1>7, <3>1, <3>4
    <3> QED
      BY <3>1, <3>2, <3>3, <3>5
  <2>11. SubSeq(body, q + 1, e) = SubSeq(w, i + 1, k)
    <3>1. \A j \in 1..Len(SubSeq(body, q + 1, e)) : SubSeq(body, q + 1, e)[j] = SubSeq(w, i + 1, k)[j]
      BY <2>9, <2>10
    <3>2. SubSeq(body, q + 1, e) \in Seq(Units) /\ SubSeq(w, i + 1, k) \in Seq(Units)
      BY <2>7, <2>8
    <3>3. Len(SubSeq(body, q + 1, e)) = Len(SubSeq(w, i + 1, k))
      BY <2>9
    <3> QED
      BY <3>1, <3>2, <3>3, SeqEqual
  <2>12. \A j \in DOMAIN SubSeq(w, i + 1, k) : SubSeq(w, i + 1, k)[j].part = "data"
    <3>1. DOMAIN SubSeq(w, i + 1, k) = 1..(e - q)
      BY <2>8, <2>9
    <3> SUFFICES ASSUME NEW j \in 1..(e - q) PROVE SubSeq(w, i + 1, k)[j].part = "data"
      BY <3>1
    <3> QED
      BY <2>10
  <2>13. k = u \/ w[k + 1].part # "data"
    <3>1. CASE e = Len(body)
      BY <1>2, <2>5, <3>1
    <3>2. CASE e # Len(body)
      <4>1. e + 1 \in 1..(u - f - 1) /\ f + 1 + (e + 1) = k + 1
        BY <1>2, <2>14, <3>2 DEF ContentPlaces
      <4>2. body[e + 1] = w[k + 1]
        BY <1>2, <4>1
      <4> QED
        BY <2>4, <3>2, <4>2 DEF Delimiter
    <3> QED
      BY <3>1, <3>2
  <2> QED
    BY <2>3, <2>4, <2>6, <2>11, <2>12, <2>13
<1> QED
  BY <1>10, <1>11, Zenon DEF body, FieldAsSent

-----------------------------------------------------------------------------
(* What finalize() makes of a whole request *)

\* A request that a parser held as a whole, its line, its body and the verdict.
HeldWhole(w, f, u) ==
    /\ w \in Seq(Units) /\ Framed(w) /\ f \in DOMAIN w /\ u \in DOMAIN w /\ f <= u
    /\ w[f].part = "line" /\ Parsable(SubSeq(w, f, u))
    /\ f..u = {k \in DOMAIN w : w[k].req = w[f].req}

LEMMA WholeBuffer ==
    ASSUME NEW w, NEW f, NEW u, HeldWhole(w, f, u)
    PROVE  LET b == SubSeq(w, f, u)
           IN  /\ b \in Seq(Units) /\ b # <<>> /\ b[1] = w[f] /\ b[1].part = "line"
               /\ w[f] \in Lines /\ w[f].headers \in Seq(HeaderLines)
               /\ MethodOf(b) = IF w[f].method = "noSpace" THEN "unknown" ELSE w[f].method
               /\ f + 1 <= u /\ w[f + 1].part = "end"
               /\ SubSeq(w, f + 2, u) \in Seq(Units)
<1> DEFINE b == SubSeq(w, f, u)
<1>1. /\ b \in Seq(Units) /\ Len(b) = u - f + 1
      /\ \A k \in 1..(u - f + 1) : b[k] = w[f + k - 1]
  BY BufferAt DEF HeldWhole
<1>2. f + 1 <= u /\ w[f + 1].part = "end"
  BY HeadOfRequest DEF HeldWhole
<1>3. b[1] = w[f] /\ b # <<>>
  <2>1. 1 \in 1..(u - f + 1) /\ f + 1 - 1 = f
    BY <1>2 DEF HeldWhole
  <2>2. b[1] = w[f]
    BY <1>1, <2>1
  <2>3. f \in Nat /\ u \in Nat
    BY DEF HeldWhole
  <2>4. Len(b) # 0
    BY <1>1, <1>2, <2>3
  <2> HIDE DEF b
  <2>5. b # <<>>
    BY <2>4
  <2> QED
    BY <2>2, <2>5
<1>4. b[1].part = "line" /\ FirstLine(b) # "noHeader"
  BY <1>3 DEF HeldWhole, Parsable
<1>5. SubSeq(w, f + 2, u) \in Seq(Units)
  <2>1. w \in Seq(Units) /\ f + 2 \in Nat \ {0} /\ u \in Nat /\ u <= Len(w)
    BY DEF HeldWhole
  <2> QED
    BY <2>1, BufferAt
<1> HIDE DEF b
<1>6. b[1] \in Lines /\ b[1].headers \in Seq(HeaderLines)
  BY <1>1, <1>3, <1>4, LineUnit
<1>7. MethodOf(b) = IF b[1].method = "noSpace" THEN "unknown" ELSE b[1].method
  BY <1>1, <1>3, <1>4, MethodOfLine
<1> QED
  BY <1>1, <1>2, <1>3, <1>4, <1>5, <1>6, <1>7 DEF b

\* What is accepted is well formed.
LEMMA AcceptedIsWellFormed ==
    ASSUME NEW w, NEW f, NEW u, HeldWhole(w, f, u),
           Accepts(SubSeq(w, f, u), MethodOf(SubSeq(w, f, u)))
    PROVE  WellFormed(w[f], SubSeq(w, f + 2, u))
<1> DEFINE b == SubSeq(w, f, u)
           body == SubSeq(w, f + 2, u)
           m == MethodOf(b)
           l == w[f]
           hs == l.headers
<1>1. /\ b \in Seq(Units) /\ b # <<>> /\ b[1] = l /\ b[1].part = "line"
      /\ l \in Lines /\ hs \in Seq(HeaderLines)
      /\ m = IF l.method = "noSpace" THEN "unknown" ELSE l.method
      /\ f + 1 <= u /\ body \in Seq(Units)
  BY WholeBuffer
<1>2. Accepts(b, m)
  OBVIOUS
<1> HIDE DEF b, m
<1>3. m # "unknown" /\ l.method \in Methods /\ m = l.method
  <2>1. m # "unknown"
    BY <1>2 DEF Accepts
  <2>2. l.method \in Methods \cup {"unknown", "noSpace"}
    BY <1>1 DEF Lines
  <2> QED
    BY <1>1, <2>1, <2>2
<1>4. l.uri = "ok" /\ \A i \in DOMAIN hs : ~RefusedLine(hs, i)
  BY <1>1, <1>2 DEF Accepts, HeadAccepted
<1>5. /\ Count(hs, "malformed") = 0 /\ Count(hs, "Transfer-Encoding") = 0
      /\ Count(hs, "Host") < 2 /\ Count(hs, "Content-Length") < 2
      /\ Cardinality({hs[i].name : i \in DOMAIN hs}) <= MaxHeaders
  BY <1>1, <1>4, AcceptedLines
<1>6. /\ \A n \in Nat : Announced(hs, n) <=> LengthOf(b) = n
      /\ Announces(hs) <=> LengthOf(b) # NoLength
      /\ LengthOf(b) \in Nat \cup {NoLength}
  BY <1>1, <1>5, OneLength
<1>7. l.method = "post" => Announces(hs)
  BY <1>2, <1>3, <1>6 DEF Accepts
<1>8. ASSUME l.method \in BodyMethods, Announces(hs), ~Announced(hs, 0)
      PROVE  \/ Type(hs, "json") /\ Announced(hs, Len(body)) /\ CompleteJson(body)
             \/ Type(hs, "multipart")
  <2>1. LengthOf(b) \in Nat /\ LengthOf(b) > 0
    BY <1>6, <1>8
  <2>2. HasBody(b, m)
    BY <1>3, <1>8, <2>1 DEF HasBody
  <2>3. BodyParses(b)
    BY <1>2, <2>2 DEF Accepts
  <2>4. CASE TypeOf(b) = "multipart"
    BY <1>1, <2>4, TypeIsFirst
  <2>5. CASE TypeOf(b) # "multipart"
    <3>1. /\ TypeOf(b) = "json"
          /\ \E i \in DOMAIN BodyOf(b) : BodyOf(b)[i].part = "json" /\ BodyOf(b)[i].last
      BY <2>3, <2>5 DEF BodyParses
    <3>2. PICK i \in DOMAIN BodyOf(b) : BodyOf(b)[i].part = "json" /\ BodyOf(b)[i].last
      BY <3>1
    <3>3. Type(hs, "json")
      BY <1>1, <3>1, TypeIsFirst
    <3>4. PICK L \in Nat : L = LengthOf(b)
      BY <2>1
    <3>5. /\ L <= Len(body) /\ Len(body) = u - f - 1
          /\ BodyOf(b) \in Seq(Units) /\ Len(BodyOf(b)) = L
          /\ \A k \in DOMAIN BodyOf(b) :
                BodyOf(b)[k] = body[k] /\ body[k] = w[f + 1 + k] /\ k \in DOMAIN body
      BY <2>1, <3>4, WholeBody DEF HeldWhole, b
    <3> HIDE DEF body
    <3>6. PICK n \in Nat : n = Len(body)
      BY <1>1
    <3>7. i \in Nat /\ i <= L /\ L <= n /\ f + 1 + n = u
      <4>1. f \in Nat /\ u \in Nat
        BY DEF HeldWhole
      <4>2. i \in 1..L
        BY <3>5
      <4>3. L <= n /\ n = u - f - 1
        BY <3>5, <3>6
      <4> QED
        BY <4>1, <4>2, <4>3
    <3>8. f + 1 + i \in DOMAIN w /\ w[f + 1 + i].part = "json" /\ w[f + 1 + i].last
      <4>1. f \in Nat /\ u \in Nat /\ u <= Len(w) /\ w \in Seq(Units)
        BY DEF HeldWhole
      <4>2. f + 1 + i \in DOMAIN w
        BY <3>7, <4>1
      <4> QED
        BY <3>2, <3>5, <4>2
    <3>9. u <= f + 1 + i
      <4>1. u \in f..u /\ f + 1 + i \in f..u
        BY <3>7 DEF HeldWhole
      <4>2. w[u].req = w[f].req /\ w[f + 1 + i].req = w[f].req /\ u \in DOMAIN w
        BY <4>1 DEF HeldWhole
      <4> QED
        BY <3>8, <4>2 DEF HeldWhole, Framed
    <3>10. i = n /\ L = n
      <4>1. f \in Nat
        BY DEF HeldWhole
      <4> QED
        BY <3>4, <3>7, <3>9, <4>1
    <3>11. Announced(hs, n)
      BY <1>6, <3>4, <3>10
    <3>12. CompleteJson(body)
      BY <1>1, <3>2, <3>5, <3>6, <3>10 DEF CompleteJson
    <3> QED
      BY <3>3, <3>6, <3>11, <3>12
  <2> QED
    BY <2>4, <2>5
<1> QED
  BY <1>3, <1>4, <1>5, <1>7, <1>8 DEF WellFormed

\* What is well formed is accepted.
LEMMA WellFormedIsAccepted ==
    ASSUME NEW w, NEW f, NEW u, HeldWhole(w, f, u),
           WellFormed(w[f], SubSeq(w, f + 2, u)), Len(w[f].headers) <= MaxHeaders
    PROVE  Accepts(SubSeq(w, f, u), MethodOf(SubSeq(w, f, u)))
<1> DEFINE b == SubSeq(w, f, u)
           body == SubSeq(w, f + 2, u)
           m == MethodOf(b)
           l == w[f]
           hs == l.headers
<1>1. /\ b \in Seq(Units) /\ b # <<>> /\ b[1] = l /\ b[1].part = "line"
      /\ l \in Lines /\ hs \in Seq(HeaderLines)
      /\ m = IF l.method = "noSpace" THEN "unknown" ELSE l.method
      /\ f + 1 <= u /\ body \in Seq(Units)
  BY WholeBuffer
<1>2. WellFormed(l, body)
  OBVIOUS
<1> HIDE DEF b, m
<1>3. m = l.method /\ l.method \in Methods /\ m # "unknown"
  BY <1>1, <1>2 DEF WellFormed, Methods
<1>4. HeadAccepted(b)
  <2>1. \A i \in DOMAIN hs : ~RefusedLine(hs, i)
    BY <1>1, <1>2, LinesAccepted DEF WellFormed
  <2> QED
    BY <1>1, <1>2, <2>1 DEF HeadAccepted, WellFormed
<1>5. /\ \A n \in Nat : Announced(hs, n) <=> LengthOf(b) = n
      /\ Announces(hs) <=> LengthOf(b) # NoLength
      /\ LengthOf(b) \in Nat \cup {NoLength}
  BY <1>1, <1>2, OneLength DEF WellFormed
<1>6. m = "post" => LengthOf(b) # NoLength
  BY <1>2, <1>3, <1>5 DEF WellFormed
<1>7. ASSUME HasBody(b, m) PROVE BodyParses(b)
  <2>1. m \in BodyMethods /\ LengthOf(b) \in Nat /\ LengthOf(b) > 0
    BY <1>5, <1>7 DEF HasBody, NoLength
  <2>2. Announces(hs) /\ ~Announced(hs, 0)
    BY <1>5, <2>1 DEF NoLength
  <2>3. \/ Type(hs, "json") /\ Announced(hs, Len(body)) /\ CompleteJson(body)
        \/ Type(hs, "multipart")
    BY <1>2, <1>3, <2>1, <2>2 DEF WellFormed
  <2>4. CASE Type(hs, "multipart")
    BY <1>1, <2>4, TypeIsFirst DEF BodyParses
  <2>5. CASE Type(hs, "json") /\ Announced(hs, Len(body)) /\ CompleteJson(body)
    <3>1. TypeOf(b) = "json"
      BY <1>1, <2>5, TypeIsFirst
    <3>2. LengthOf(b) = Len(body)
      BY <1>1, <1>5, <2>5
    <3>3. LengthOf(SubSeq(w, f, u)) \in Nat /\ LengthOf(SubSeq(w, f, u)) = Len(body)
      BY <2>1, <3>2 DEF b
    <3>4. BodyOf(b) = body
      BY <3>3, WholeBody DEF HeldWhole, b
    <3> HIDE DEF body
    <3>5. Len(body) \in DOMAIN body /\ body[Len(body)].part = "json" /\ body[Len(body)].last
      BY <1>1, <2>5 DEF CompleteJson
    <3> QED
      BY <3>1, <3>4, <3>5 DEF BodyParses
  <2> QED
    BY <2>3, <2>4, <2>5
<1> QED
  BY <1>3, <1>4, <1>6, <1>7 DEF Accepts, b, m

\* What its handler gets of a request that announces its body.
LEMMA WholeIsHanded ==
    ASSUME NEW w, NEW f, NEW u, HeldWhole(w, f, u),
           Accepts(SubSeq(w, f, u), MethodOf(SubSeq(w, f, u))),
           w[f].method \in BodyMethods, Announced(w[f].headers, Len(SubSeq(w, f + 2, u)))
    PROVE  LET b == SubSeq(w, f, u)
               body == SubSeq(w, f + 2, u)
           IN  IF Type(w[f].headers, "multipart")
               THEN body # <<>> => /\ Handed(b, MethodOf(b)).params = Fields(body, FALSE)
                                   /\ Handed(b, MethodOf(b)).files = Fields(body, TRUE)
               ELSE Handed(b, MethodOf(b)).body = body
<1> DEFINE b == SubSeq(w, f, u)
           body == SubSeq(w, f + 2, u)
           m == MethodOf(b)
           l == w[f]
           hs == l.headers
<1>1. /\ b \in Seq(Units) /\ b # <<>> /\ b[1] = l /\ b[1].part = "line"
      /\ l \in Lines /\ hs \in Seq(HeaderLines)
      /\ m = IF l.method = "noSpace" THEN "unknown" ELSE l.method
      /\ f + 1 <= u /\ body \in Seq(Units)
  BY WholeBuffer
<1>2. Accepts(b, m) /\ Announced(hs, Len(body)) /\ l.method \in BodyMethods
  OBVIOUS
<1>3. WellFormed(l, body)
  BY AcceptedIsWellFormed
<1> HIDE DEF b, m
<1>4. LengthOf(b) = Len(body) /\ Len(body) \in Nat
  <2>1. \A n \in Nat : Announced(hs, n) <=> LengthOf(b) = n
    BY <1>1, <1>3, OneLength DEF WellFormed
  <2> QED
    BY <1>1, <1>2, <2>1
<1>5. m \in BodyMethods
  BY <1>1, <1>2 DEF BodyMethods
<1> HIDE DEF body
<1> DEFINE Whole == IF Type(hs, "multipart")
                    THEN body # <<>> => /\ Handed(b, m).params = Fields(body, FALSE)
                                        /\ Handed(b, m).files = Fields(body, TRUE)
                    ELSE Handed(b, m).body = body
<1>6. ASSUME Len(body) = 0 PROVE Whole
  <2>1. body = <<>>
    BY <1>1, <1>6
  <2>2. ~HasBody(b, m)
    BY <1>4, <1>6 DEF HasBody
  <2>3. Handed(b, m).body = <<>>
    BY <2>2 DEF Handed
  <2> QED
    BY <2>1, <2>3
<1>7. ASSUME Len(body) > 0 PROVE Whole
  <2>1. HasBody(b, m)
    BY <1>4, <1>5, <1>7 DEF HasBody
  <2>2. /\ LengthOf(SubSeq(w, f, u)) \in Nat
        /\ LengthOf(SubSeq(w, f, u)) = Len(SubSeq(w, f + 2, u))
    BY <1>4 DEF b, body
  <2>3. BodyOf(b) = body
    BY <2>2, WholeBody DEF HeldWhole, b, body
  <2>4. ASSUME ~Type(hs, "multipart") PROVE Handed(b, m).body = body
    <3>1. TypeOf(b) # "multipart"
      BY <1>1, <2>4, TypeIsFirst
    <3> QED
      BY <2>1, <2>3, <3>1 DEF Handed
  <2>5. ASSUME Type(hs, "multipart")
        PROVE  Handed(b, m).params = Fields(body, FALSE) /\ Handed(b, m).files = Fields(body, TRUE)
    <3>1. TypeOf(b) = "multipart"
      BY <1>1, <2>5, TypeIsFirst
    <3> QED
      BY <2>1, <2>3, <3>1 DEF Handed
  <2> QED
    BY <2>4, <2>5
<1> HIDE DEF Whole
<1>8. Whole
  BY <1>4, <1>6, <1>7
<1> QED
  BY <1>8 DEF Whole, b, m, body

\* The fields of a form that a parser held as a whole.
LEMMA FormUnderstood ==
    ASSUME NEW t, NEW f, NEW u, HeldWhole(wire, f, u), t.from = f, t.upto = u,
           LET body == SubSeq(wire, f + 2, u)
           IN  body # <<>> => /\ t.handed.params = Fields(body, FALSE)
                              /\ t.handed.files = Fields(body, TRUE)
    PROVE  FieldsAsSent(t)
<1> DEFINE body == SubSeq(wire, f + 2, u)
<1>1. /\ wire \in Seq(Units) /\ Framed(wire) /\ f \in DOMAIN wire /\ u \in DOMAIN wire
      /\ wire[f].part = "line" /\ \A k \in f..u : k \in DOMAIN wire /\ wire[k].req = wire[f].req
  BY Zenon DEF HeldWhole
<1>2. f + 1 <= u /\ wire[f + 1].part = "end" /\ body \in Seq(Units)
  BY WholeBuffer
<1>3. ASSUME NEW i \in f..u, wire[i].part = "part", wire[i].name # "none"
      PROVE  FieldAsSent(wire, f, u, i, IF wire[i].file THEN t.handed.files ELSE t.handed.params)
  <2>1. body # <<>>
    <3>1. f \in Nat /\ u \in Nat /\ u <= Len(wire)
      BY <1>1
    <3>2. i # f /\ i # f + 1
      BY <1>1, <1>2, <1>3
    <3>3. f + 2 <= u
      BY <3>1, <3>2
    <3>4. Len(body) = IF f + 2 <= u THEN u - (f + 2) + 1 ELSE 0
      BY <1>1, <3>1, BufferAt
    <3> HIDE DEF body
    <3>5. Len(body) # 0
      BY <3>1, <3>3, <3>4
    <3> QED
      BY <3>5
  <2>2. wire[i].file \in BOOLEAN
    <3>1. wire[i] \in Units
      BY <1>1
    <3> QED
      BY <1>3, <3>1 DEF Units, Lines
  <2>3. t.handed.params = Fields(body, FALSE) /\ t.handed.files = Fields(body, TRUE)
    BY <2>1
  <2> DEFINE fields == IF wire[i].file THEN t.handed.files ELSE t.handed.params
  <2>4. fields = Fields(body, wire[i].file)
    <3>1. CASE wire[i].file
      <4>1. wire[i].file = TRUE
        BY <2>2, <3>1
      <4> QED
        BY <2>3, <3>1, <4>1, Zenon
    <3>2. CASE ~wire[i].file
      <4>1. wire[i].file = FALSE
        BY <2>2, <3>2
      <4> QED
        BY <2>3, <3>2, <4>1, Zenon
    <3> QED
      BY <3>1, <3>2, Zenon
  <2> HIDE DEF fields
  <2>5. FieldAsSent(wire, f, u, i, Fields(body, wire[i].file))
    BY <1>1, <1>2, <1>3, FormFields, Zenon
  <2> QED
    BY <2>4, <2>5, Zenon DEF fields
<1> QED
  BY <1>3, Zenon DEF FieldsAsSent, FieldAsSent

LEMMA WholeFollows == StreamInv => WholeRequestUnderstood
<1> SUFFICES ASSUME StreamInv, NEW i \in DOMAIN taken,
                    Exact(taken[i]), wire[taken[i].from].part = "line"
             PROVE  LET t == taken[i]
                        l == LineOf(t)
                        body == SubSeq(wire, t.from + 2, t.upto)
                        n == Len(body)
                        whole == l.method \in BodyMethods /\ Announced(l.headers, n)
                    IN  /\ t.ok => WellFormed(l, body)
                        /\ WellFormed(l, body) /\ Len(l.headers) <= MaxHeaders => t.ok
                        /\ t.ok /\ whole =>
                               IF Type(l.headers, "multipart") THEN FieldsAsSent(t)
                               ELSE t.handed.body = body
  BY Zenon DEF WholeRequestUnderstood
<1>1. wire \in Seq(Units) /\ Framed(wire)
  BY StateOfBuffer, FramingAssumption DEF StreamInv, RoomInv, TypeOK
<1>2. taken[i] \in Takings(wire)
  BY DEF StreamInv, HistoryOK
<1>3. PICK f \in DOMAIN wire, u \in DOMAIN wire :
         f <= u /\ Parsable(SubSeq(wire, f, u)) /\ taken[i] = TakenAt(wire, f, u)
  BY <1>2, Zenon DEF Takings
<1> DEFINE t == taken[i]
           b == SubSeq(wire, f, u)
           m == MethodOf(b)
           body == SubSeq(wire, f + 2, u)
<1>4. /\ t.from = f /\ t.upto = u /\ t.req = b[1].req /\ t.ok = Accepts(b, m)
      /\ t.handed = IF Accepts(b, m) THEN Handed(b, m) ELSE NothingHanded
  <2>1. t = [req |-> b[1].req, method |-> m, ok |-> Accepts(b, m), from |-> f, upto |-> u,
             handed |-> IF Accepts(b, m) THEN Handed(b, m) ELSE NothingHanded]
    BY <1>3, Zenon DEF TakenAt
  <2> HIDE DEF t, b, m
  <2>2. t.from = f /\ t.upto = u /\ t.req = b[1].req
    BY <2>1
  <2>3. t.ok = Accepts(b, m)
    BY <2>1, Zenon
  <2>4. t.handed = IF Accepts(b, m) THEN Handed(b, m) ELSE NothingHanded
    BY <2>1, Zenon
  <2> QED
    BY <2>2, <2>3, <2>4
<1>5. b[1] = wire[f]
  <2>1. /\ f \in Nat \ {0} /\ u \in Nat /\ u <= Len(wire) /\ 1 \in 1..(u - f + 1) /\ f + 1 - 1 = f
    BY <1>1, <1>3
  <2>2. \A k \in 1..(u - f + 1) : b[k] = wire[f + k - 1]
    BY <1>1, <2>1, BufferAt
  <2> HIDE DEF b
  <2> QED
    BY <2>1, <2>2
<1> HIDE DEF t, b, m
<1>6. wire[f].part = "line" /\ t.from..t.upto = UnitsOf(t.req)
  BY <1>4, Zenon DEF t, Exact
<1>7. HeldWhole(wire, f, u)
  <2>1. f..u = {k \in DOMAIN wire : wire[k].req = wire[f].req}
    BY <1>4, <1>5, <1>6, Zenon DEF UnitsOf
  <2> QED
    BY <1>1, <1>3, <1>6, <2>1, Zenon DEF HeldWhole
<1>8. t.ok => WellFormed(wire[f], body)
  BY <1>4, <1>7, AcceptedIsWellFormed, Zenon DEF b, m
<1>9. WellFormed(wire[f], body) /\ Len(wire[f].headers) <= MaxHeaders => t.ok
  BY <1>4, <1>7, WellFormedIsAccepted, Zenon DEF b, m
<1>10. ASSUME t.ok, wire[f].method \in BodyMethods, Announced(wire[f].headers, Len(body))
       PROVE  IF Type(wire[f].headers, "multipart") THEN FieldsAsSent(t)
              ELSE t.handed.body = body
  <2>1. Accepts(b, m) /\ t.handed = Handed(b, m)
    BY <1>4, <1>10
  <2>2. IF Type(wire[f].headers, "multipart")
        THEN body # <<>> => /\ Handed(b, m).params = Fields(body, FALSE)
                            /\ Handed(b, m).files = Fields(body, TRUE)
        ELSE Handed(b, m).body = body
    BY <1>7, <1>10, <2>1, WholeIsHanded, Zenon DEF b, m
  <2>3. ASSUME Type(wire[f].headers, "multipart") PROVE FieldsAsSent(t)
    <3>1. body # <<>> => t.handed.params = Fields(body, FALSE) /\ t.handed.files = Fields(body, TRUE)
      BY <2>1, <2>2, <2>3
    <3> QED
      BY <1>4, <1>7, <3>1, FormUnderstood, Zenon
  <2> QED
    BY <2>1, <2>2, <2>3
<1> QED
  BY <1>4, <1>8, <1>9, <1>10, Zenon DEF t, LineOf

\* A request that was in the buffer as a whole is accepted exactly if it is well
\* formed and within the limit, and its handler gets its body or the fields of its
\* form, for any requests, fragments and sizes.
THEOREM WholeRequestCorrect == Spec => []WholeRequestUnderstood
  BY WholeFollows, StreamInit, StreamStep, PTL DEF Spec

=============================================================================
