---------------------------- MODULE RequestStream ----------------------------
(***************************************************************************)
(* One connection seen through its request parser (http_request.cpp), its  *)
(* read buffer (socket_buffer.hpp) and the read loop (server.cpp): the     *)
(* client's bytes arrive in any fragments, the buffer grows, eof() decides *)
(* when a request is complete, finalize() accepts or rejects it, and the   *)
(* parser is moved into the request with all that its buffer holds.        *)
(*                                                                         *)
(* The byte stream is a sequence of units, the pieces the code tells apart:*)
(*   "line"  request line and header lines of a request;                   *)
(*   "end"   the blank line that ends a head;                              *)
(*   "json"  a piece of a JSON body;                                       *)
(*   "part"  a delimiter of a multipart body with the part's headers and   *)
(*           the blank line that ends them;                                *)
(*   "data"  a piece of a part's content;                                  *)
(*   "close" the last delimiter of a multipart body.                       *)
(* A unit counts as one byte of the buffer.                                *)
(***************************************************************************)
EXTENDS Integers, Sequences, FiniteSets

CONSTANTS
    ChunkSize,   \* k_chunk_size
    MaxSize,     \* MAX_REQUEST_SIZE
    MaxHeaders,  \* MAX_HEADERS
    Wires        \* the streams a client may send

NoLength == -1   \* Content-Length missing or no number

Methods == {"get", "post", "put", "patch", "options"}
BodyMethods == {"post", "put", "patch"}

\* "malformed": no colon, no token before it, or a bare CR or LF in the value.
HeaderLines ==
    [name : {"Host", "Transfer-Encoding", "Origin", "Cookie", "malformed"}]
    \cup [name : {"Content-Length"}, length : Nat \cup {NoLength}]
    \cup [name : {"Content-Type"}, type : {"json", "multipart", "noBoundary", "text"}]

\* uri: whether parse_uri takes it.  no: the pieces of a body are numbered.
Lines == [req : Nat \ {0}, part : {"line"}, method : Methods \cup {"unknown", "noSpace"},
          uri : {"ok", "bad"}, headers : Seq(HeaderLines)]
Units == Lines
         \cup [req : Nat \ {0}, part : {"end", "close"}]
         \cup [req : Nat \ {0}, part : {"json"}, last : BOOLEAN]
         \cup [req : Nat \ {0}, part : {"part"}, name : {"a", "b", "none"}, file : BOOLEAN]
         \cup [req : Nat \ {0}, part : {"data"}, no : Nat]

ASSUME SizeAssumption == ChunkSize \in Nat \ {0} /\ MaxSize \in Nat /\ MaxHeaders \in Nat
ASSUME WireAssumption == \A w \in Wires : w \in Seq(Units)

\* What the numbers of units mean.  Requests follow each other; a request is its
\* line, the end of its head and a body, JSON or a form; what its Content-Length
\* covers is its own (RFC 9112), and nothing follows the last piece of JSON.
Framed(w) ==
    /\ w # <<>> => w[1].req = 1 /\ w[1].part = "line"
    /\ \A i \in DOMAIN w \ {1} :
           IF w[i].part = "line" THEN w[i].req = w[i - 1].req + 1 ELSE w[i].req = w[i - 1].req
    /\ \A i \in DOMAIN w : w[i].part = "line" => i + 1 \in DOMAIN w /\ w[i + 1].part = "end"
    /\ \A i \in DOMAIN w : w[i].part = "end" => w[i - 1].part = "line"
    /\ \A i \in DOMAIN w : w[i].part = "line" =>
           \A j \in DOMAIN w[i].headers : w[i].headers[j].name = "Content-Length" =>
               \A k \in (i + 2)..(i + 1 + w[i].headers[j].length) :
                   k \in DOMAIN w /\ w[k].req = w[i].req
    /\ \A i, j \in DOMAIN w : w[i].req = w[j].req /\ w[i].part = "json" =>
           /\ w[j].part \notin {"part", "data", "close"}
           /\ w[i].last => j <= i

ASSUME FramingAssumption == \A w \in Wires : Framed(w)

VARIABLES
    wire,    \* the stream of this client
    sent,    \* units the client has sent
    hup,     \* the client has shut down its side
    start,   \* units that former parsers took with them
    pos,     \* m_pos: units in the read buffer
    size,    \* m_buffer.size()
    ident,   \* m_identifiedMethod, "none" while empty
    pc,      \* the connection: waiting for an event, in the read loop,
             \* before eof(), with a request in flight, closed
    caw,     \* close_after_write
    taken    \* history: what finalize() was given, and its verdict

vars == <<wire, sent, hup, start, pos, size, ident, pc, caw, taken>>
client == <<wire, sent, hup>>
buffer == <<start, pos, size>>

Buffer == SubSeq(wire, start + 1, start + pos)
Unread == sent - (start + pos)

\* The span get_buffer hands to read.
Room == size - pos

Smaller(a, b) == IF a < b THEN a ELSE b

-----------------------------------------------------------------------------
(* The parser, on the buffer b and the cached method m *)

EndsHead(u) == u.part \in {"end", "part"}

\* m_identifiedHeaderSize: the first blank line, 0 while there is none.
HeadEnd(b) ==
    IF \E i \in DOMAIN b : EndsHead(b[i])
    THEN CHOOSE i \in DOMAIN b : EndsHead(b[i]) /\ \A j \in 1..(i - 1) : ~EndsHead(b[j])
    ELSE 0

\* What the first line of the buffer looks like.  "noHeader": the line ends
\* where the head ends, or at once.  The rest of a JSON body runs into the next
\* request line; a multipart body starts with a line of its own, without space.
FirstLine(b) ==
    CASE b[1].part = "line" -> IF b[1].headers = <<>> THEN "noHeader" ELSE b[1].method
      [] b[1].part = "end"  -> "noHeader"
      [] b[1].part = "json" -> "unknown"
      [] b[1].part \in {"part", "data", "close"} -> "noSpace"

\* parse_and_store_method: the method it leaves behind and its verdict.  A line
\* without a space is an unknown method, but only the next call says so.
Identify(b, m) ==
    CASE HeadEnd(b) = 0 \/ m # "none" -> m
      [] OTHER -> CASE FirstLine(b) = "noHeader" -> "none"
                    [] FirstLine(b) = "noSpace"  -> "unknown"
                    [] OTHER -> FirstLine(b)

Identified(b, m) == m # "none" \/ FirstLine(b) \in Methods \cup {"unknown"}

\* Bug: one method is forgotten.
CompleteWithHeadNoPatch == {"post", "put", "get", "options", "unknown"}

\* The methods eof() takes for complete with their head.
CompleteWithHead == {"post", "put", "patch", "get", "options", "unknown"}

\* eof()
Eof(b, m) ==
    /\ HeadEnd(b) # 0
    /\ Identified(b, m)
    /\ Identify(b, m) \in CompleteWithHead

\* parse_headers: what m_headers holds when line i is read, and what it refuses.
Before(hs, i) == {hs[j].name : j \in 1..(i - 1)}

RefusedLine(hs, i) ==
    \/ Cardinality(Before(hs, i)) >= MaxHeaders
    \/ hs[i].name \in {"malformed", "Transfer-Encoding"}
    \/ hs[i].name \in {"Host", "Content-Length"} /\ hs[i].name \in Before(hs, i)

\* parse_request_line, parse_uri and parse_headers find nothing to refuse.
HeadAccepted(b) ==
    /\ b[1].uri = "ok"
    /\ \A i \in DOMAIN b[1].headers : ~RefusedLine(b[1].headers, i)

\* m_headers.find: the line that was there first.
Has(hs, name) == \E i \in DOMAIN hs : hs[i].name = name
Find(hs, name) == hs[CHOOSE i \in DOMAIN hs : hs[i].name = name /\ name \notin Before(hs, i)]

\* The fallback of finalize(): the branch of eof() that would look for the
\* length itself is never reached.
LengthOf(b) ==
    IF Has(b[1].headers, "Content-Length") THEN Find(b[1].headers, "Content-Length").length
    ELSE NoLength
TypeOf(b) ==
    IF Has(b[1].headers, "Content-Type") THEN Find(b[1].headers, "Content-Type").type ELSE "none"

\* Bug: the body is all that follows the head.
BodyToTheEnd(b) == SubSeq(b, HeadEnd(b) + 1, Len(b))

\* The body parse_body cuts out of the buffer.
BodyOf(b) == SubSeq(b, HeadEnd(b) + 1, Smaller(Len(b), HeadEnd(b) + LengthOf(b)))

HasBody(b, m) == m \in BodyMethods /\ LengthOf(b) > 0

\* parse_body: a JSON document must be complete, a multipart body need not be.
BodyParses(b) ==
    \/ /\ TypeOf(b) = "json"
       /\ \E i \in DOMAIN BodyOf(b) : BodyOf(b)[i].part = "json" /\ BodyOf(b)[i].last
    \/ TypeOf(b) = "multipart"

\* parse_multipart_form_data: what stands between a delimiter and the next one.
Delimiter(u) == u.part \in {"part", "close"}
Contents(body, i) ==
    SubSeq(body, i + 1,
           CHOOSE k \in i..Len(body) :
               /\ k = Len(body) \/ Delimiter(body[k + 1])
               /\ \A j \in (i + 1)..k : ~Delimiter(body[j]))

\* parse_part_headers, process_parameter: the header of the part has a name.
Named(u) == u.part = "part" /\ u.name # "none"

\* process_multipart_part: parts with a name are parameters or files.
PartsOf(body, file) == {i \in DOMAIN body : Named(body[i]) /\ body[i].file = file}

\* Bug: the last part of a name replaces the others.
FieldsOfLastParts(body, file) ==
    LET parts == PartsOf(body, file)
        last(n) == CHOOSE i \in parts :
                       body[i].name = n /\ \A j \in parts : body[j].name = n => i >= j
    IN  [n \in {body[i].name : i \in parts} |-> Contents(body, last(n))]

\* Of parts with the same name get_value and get_file_upload see the first.
Fields(body, file) ==
    LET parts == PartsOf(body, file)
        first(n) == CHOOSE i \in parts :
                        body[i].name = n /\ \A j \in parts : body[j].name = n => i <= j
    IN  [n \in {body[i].name : i \in parts} |-> Contents(body, first(n))]

\* finalize()
Accepts(b, m) ==
    /\ m # "unknown"
    /\ HeadAccepted(b)
    /\ m = "post" => LengthOf(b) # NoLength
    /\ HasBody(b, m) => BodyParses(b)

\* request::request takes the parser's buffer and what was found in it: content,
\* which parse_body cut out, is the body or, of a multipart request, the form that
\* the parameters and files lie in; m_body is then empty.
Handed(b, m) ==
    LET content == IF HasBody(b, m) THEN BodyOf(b) ELSE <<>>
        multipart == TypeOf(b) = "multipart"
        form == IF multipart THEN content ELSE <<>>
    IN  [content |-> content,
         body |-> IF multipart THEN <<>> ELSE content,
         params |-> Fields(form, FALSE), files |-> Fields(form, TRUE)]
NothingHanded == [content |-> <<>>, body |-> <<>>, params |-> <<>>, files |-> <<>>]

-----------------------------------------------------------------------------
(* The read buffer *)

\* Bug: the buffer grows when it has run over.
NearlyFullLate(p, s) == p > s

NearlyFull(p, s) == 4 * p > 3 * s

\* update_pos: throws, or grows.
Overflows(p, s) == NearlyFull(p, s) /\ s >= MaxSize
Grown(p, s) == IF NearlyFull(p, s) THEN Smaller(2 * s, MaxSize) ELSE s

-----------------------------------------------------------------------------

Init ==
    /\ wire \in Wires
    /\ sent = 0 /\ hup = FALSE
    /\ start = 0 /\ pos = 0 /\ size = ChunkSize
    /\ ident = "none"
    /\ pc = "wait" /\ caw = FALSE
    /\ taken = <<>>

\* The client sends some more; it need not wait for an answer.
ClientSend ==
    /\ ~hup /\ pc # "closed"
    /\ \E n \in (sent + 1)..Len(wire) : sent' = n
    /\ UNCHANGED <<wire, hup, buffer, ident, pc, caw, taken>>

ClientHangup ==
    /\ ~hup /\ pc # "closed"
    /\ hup' = TRUE
    /\ UNCHANGED <<wire, sent, buffer, ident, pc, caw, taken>>

\* epoll reports the connection readable: on_read, handle_socket_read.
Wake ==
    /\ pc = "wait"
    /\ Unread > 0 \/ hup
    /\ pc' = "read"
    /\ UNCHANGED <<client, buffer, ident, caw, taken>>

\* What the next turn of the read loop meets.
Turn ==
    CASE pos = size -> "full"
      [] OTHER -> CASE Unread > 0 -> "data"
                    [] hup /\ Unread = 0 -> "end"
                    [] OTHER -> "again"

ReadData ==
    /\ pc = "read" /\ Turn = "data"
    /\ LET p == pos + Smaller(Unread, Room)
       IN /\ pos' = p
          /\ IF Overflows(p, size)
             THEN pc' = "closed" /\ UNCHANGED size
             ELSE size' = Grown(p, size) /\ UNCHANGED pc
    /\ UNCHANGED <<client, start, ident, caw, taken>>

\* EAGAIN
ReadAgain ==
    /\ pc = "read" /\ Turn = "again"
    /\ pc' = "check"
    /\ UNCHANGED <<client, buffer, ident, caw, taken>>

\* read() returns 0: answer what is complete, or close.  A full buffer closes
\* without asking.
ReadEnd ==
    /\ pc = "read" /\ Turn \in {"end", "full"}
    /\ IF Turn = "end" /\ Eof(Buffer, ident)
       THEN pc' = "check" /\ caw' = TRUE
       ELSE pc' = "closed" /\ UNCHANGED caw
    /\ ident' = IF Turn = "end" THEN Identify(Buffer, ident) ELSE ident
    /\ UNCHANGED <<client, buffer, taken>>

\* on_read: not complete, wait for more.
Rearm ==
    /\ pc = "check" /\ ~Eof(Buffer, ident)
    /\ ident' = Identify(Buffer, ident)
    /\ pc' = "wait"
    /\ UNCHANGED <<client, buffer, caw, taken>>

\* process_request: finalize, then the request with the parser in it, or a 400.
Process ==
    /\ pc = "check" /\ Eof(Buffer, ident)
    /\ LET m == Identify(Buffer, ident)
           ok == Accepts(Buffer, m)
       IN /\ ident' = m
          /\ caw' = (caw \/ ~ok)
          /\ taken' = Append(taken,
                 [req |-> Buffer[1].req, method |-> m, ok |-> ok,
                  from |-> start + 1, upto |-> start + pos,
                  handed |-> IF ok THEN Handed(Buffer, m) ELSE NothingHanded])
    /\ pc' = "busy"
    /\ UNCHANGED <<client, buffer>>

\* Bug: the parser of the next request remembers the last one's method.
RespondKeepsMethod ==
    /\ pc = "busy"
    /\ IF caw
       THEN pc' = "closed" /\ UNCHANGED <<buffer, caw>>
       ELSE /\ start' = start + pos /\ pos' = 0 /\ size' = ChunkSize
            /\ caw' = FALSE
            /\ pc' = "wait"
    /\ UNCHANGED <<client, ident, taken>>

\* The response is written: close, or connection_state::reset.
Respond ==
    /\ pc = "busy"
    /\ IF caw
       THEN pc' = "closed" /\ UNCHANGED <<buffer, ident, caw>>
       ELSE /\ start' = start + pos /\ pos' = 0 /\ size' = ChunkSize
            /\ ident' = "none" /\ caw' = FALSE
            /\ pc' = "wait"
    /\ UNCHANGED <<client, taken>>

Closed == pc = "closed" /\ UNCHANGED vars

Next ==
    \/ ClientSend \/ ClientHangup \/ Wake
    \/ ReadData \/ ReadAgain \/ ReadEnd \/ Rearm \/ Process \/ Respond
    \/ Closed

Spec == Init /\ [][Next]_vars

-----------------------------------------------------------------------------
(* Properties *)

\* Types and ranges: the buffer stays within MAX_REQUEST_SIZE and its first
\* chunk, and the parser never holds what was not sent (socket_buffer.hpp).
TypeOK ==
    /\ wire \in Wires
    /\ sent \in 0..Len(wire) /\ hup \in BOOLEAN
    /\ start \in Nat /\ pos \in Nat /\ start + pos <= sent
    /\ size \in ChunkSize..(IF MaxSize > ChunkSize THEN MaxSize ELSE ChunkSize)
    /\ ident \in {"none", "unknown"} \cup Methods
    /\ pc \in {"wait", "read", "check", "busy", "closed"} /\ caw \in BOOLEAN

\* Whatever the sizes and the fragments, the span get_buffer hands to read is
\* never empty on an open connection: growing or throwing in update_pos comes
\* in time, and the branch "Parser buffer full" of handle_socket_read is dead.
RoomLeft == pc # "closed" => pos < size

\* A body handed to a handler, or the form its fields lie in, consists of bytes of
\* its own request, whatever was pipelined behind it or left over before it
\* (parse_body, eof).
BodyIsOwn ==
    \A i \in DOMAIN taken : \A k \in DOMAIN taken[i].handed.content :
        taken[i].handed.content[k].req = taken[i].req

\* The connection is never rearmed with a complete head in the buffer, or the
\* client would wait for an answer and the server for bytes.  The exceptions are
\* real: a head without header lines, and a first line without a space.
NoHeadLeftWaiting ==
    pc = "wait" /\ HeadEnd(Buffer) # 0 => FirstLine(Buffer) \in {"noHeader", "noSpace"}

UnitsOf(r) == {i \in DOMAIN wire : wire[i].req = r}

\* The parser held one request, all of it and nothing else, when it was moved.
Exact(t) == t.from..t.upto = UnitsOf(t.req)

LineOf(t) == wire[t.from]

\* As long as each parser held exactly its request, the parsers and the client
\* agree: the next thing parsed is the next request, under its own method.
\* Nothing of one request survives into the next (reset, eof's caches).
InStep ==
    \A i \in DOMAIN taken :
        (\A j \in 1..(i - 1) : Exact(taken[j])) =>
            /\ taken[i].req = i /\ LineOf(taken[i]).part = "line"
            /\ taken[i].method = IF LineOf(taken[i]).method = "noSpace" THEN "unknown"
                                 ELSE LineOf(taken[i]).method

\* What makes a request acceptable, told from the request and not the parser:
\* hs are its header lines, body is its body.  Of repeated lines the first counts.
Count(hs, name) == Cardinality({i \in DOMAIN hs : hs[i].name = name})
Type(hs, type) ==
    \E i \in DOMAIN hs :
        /\ hs[i].name = "Content-Type" /\ hs[i].type = type
        /\ \A j \in 1..(i - 1) : hs[j].name # "Content-Type"
Announced(hs, n) == \E i \in DOMAIN hs : hs[i].name = "Content-Length" /\ hs[i].length = n
Announces(hs) == \E i \in DOMAIN hs : hs[i].name = "Content-Length" /\ hs[i].length # NoLength
CompleteJson(body) == body # <<>> /\ body[Len(body)].part = "json" /\ body[Len(body)].last
WellFormed(l, body) ==
    /\ l.method \in Methods /\ l.uri = "ok"
    /\ Count(l.headers, "malformed") = 0 /\ Count(l.headers, "Transfer-Encoding") = 0
    /\ Count(l.headers, "Host") < 2 /\ Count(l.headers, "Content-Length") < 2
    /\ Cardinality({l.headers[i].name : i \in DOMAIN l.headers}) <= MaxHeaders
    /\ l.method = "post" => Announces(l.headers)
    /\ l.method \in BodyMethods /\ Announces(l.headers) /\ ~Announced(l.headers, 0) =>
           \/ Type(l.headers, "json") /\ Announced(l.headers, Len(body)) /\ CompleteJson(body)
           \/ Type(l.headers, "multipart")

\* The fields of a form are the parts the client sent: each has all of the data
\* that follows its header, and the first of a name is the one that counts.
FieldsAsSent(t) ==
    \A i \in t.from..t.upto : wire[i].part = "part" /\ wire[i].name # "none" =>
        LET fields == IF wire[i].file THEN t.handed.files ELSE t.handed.params
            value(k) == SubSeq(wire, i + 1, k)
        IN  /\ wire[i].name \in DOMAIN fields
            /\ wire[i] \notin {wire[j] : j \in t.from..(i - 1)} =>
                   \E k \in i..t.upto :
                       /\ fields[wire[i].name] = value(k)
                       /\ \A j \in DOMAIN value(k) : value(k)[j].part = "data"
                       /\ k = t.upto \/ wire[k + 1].part # "data"

\* A request that was in the buffer as a whole is accepted if it is well formed
\* and has no more header lines than allowed, and only then, however it was
\* fragmented; and its handler gets its whole body, or all fields of its form.
WholeRequestUnderstood ==
    \A i \in DOMAIN taken : LET t == taken[i] IN
        Exact(t) /\ wire[t.from].part = "line" =>
            LET l == LineOf(t)
                body == SubSeq(wire, t.from + 2, t.upto)
                n == Len(body)
                whole == l.method \in BodyMethods /\ Announced(l.headers, n)
            IN  /\ t.ok => WellFormed(l, body)
                /\ WellFormed(l, body) /\ Len(l.headers) <= MaxHeaders => t.ok
                /\ t.ok /\ whole =>
                       IF Type(l.headers, "multipart") THEN FieldsAsSent(t)
                       ELSE t.handed.body = body

\* server.cpp:492 asks "Is EOF reached and request is complete?" before it
\* processes a request: no handler is given part of a body or of a form.
NoPartialBody ==
    \A i \in DOMAIN taken : LET t == taken[i] IN
        t.ok /\ t.method \in BodyMethods =>
            \A n \in 1..Len(wire) : Announced(LineOf(t).headers, n) => Len(t.handed.content) = n

=============================================================================
