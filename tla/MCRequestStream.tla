--------------------------- MODULE MCRequestStream ---------------------------
(* Streams of two requests, of every kind the parser treats in its own way. *)
EXTENDS RequestStream, TLC

Kind(method, uri, headers, body) ==
    [method |-> method, uri |-> uri, headers |-> headers, body |-> body]

Header(name) == [name |-> name]
Length(n) == [name |-> "Content-Length", length |-> n]
ContentType(t) == [name |-> "Content-Type", type |-> t]

Json == [part |-> "json", last |-> FALSE]
JsonEnd == [part |-> "json", last |-> TRUE]
Part(name, file) == [part |-> "part", name |-> name, file |-> file]
Data(no) == [part |-> "data", no |-> no]
Close == [part |-> "close"]

Host == Header("Host")

\* What is in the head: methods, URIs and header lines.
Heads ==
    { Kind("get", "ok", <<Host>>, <<>>),
      Kind("get", "ok", <<>>, <<>>),
      Kind("get", "bad", <<Host>>, <<>>),
      Kind("patch", "ok", <<Host>>, <<>>),
      Kind("unknown", "ok", <<Host>>, <<>>),
      Kind("noSpace", "ok", <<Host>>, <<>>),
      Kind("get", "ok", <<Host, Header("Transfer-Encoding")>>, <<>>),
      Kind("get", "ok", <<Host, Header("malformed")>>, <<>>),
      Kind("get", "ok", <<Host, Host>>, <<>>),
      Kind("get", "ok", <<Header("Cookie"), Header("Cookie"), Header("Origin"), Host>>, <<>>),
      Kind("get", "ok", <<Header("Cookie"), Header("Origin"), Host, Host>>, <<>>),
      Kind("get", "ok", <<Header("Cookie"), Header("Origin"), Host, Length(0)>>, <<>>),
      Kind("options", "ok", <<Header("Cookie"), Header("Origin"), Host>>, <<>>) }

Form(n, body) == Kind("post", "ok", <<Length(n), ContentType("multipart")>>, body)

\* What is in the body, and what the head says about it.
Bodies ==
    { Kind("post", "ok", <<Host>>, <<>>),
      Kind("post", "ok", <<Length(0)>>, <<>>),
      Kind("post", "ok", <<Length(NoLength)>>, <<>>),
      Kind("put", "ok", <<Length(1)>>, <<JsonEnd>>),
      Kind("put", "ok", <<Length(NoLength), ContentType("json")>>, <<JsonEnd>>),
      Kind("patch", "ok", <<Length(1), ContentType("text")>>, <<JsonEnd>>),
      Kind("post", "ok", <<Length(2), Length(1), ContentType("json")>>, <<Json, JsonEnd>>),
      Kind("post", "ok", <<Length(2), ContentType("json")>>, <<Json, JsonEnd>>),
      Kind("post", "ok", <<Length(1), ContentType("json")>>, <<Json, JsonEnd>>),
      Kind("post", "ok", <<Length(2), ContentType("noBoundary")>>, <<Part("a", FALSE), Close>>),
      Form(2, <<Part("a", FALSE), Data(1)>>),
      Form(5, <<Part("a", FALSE), Data(1), Part("a", FALSE), Data(2), Close>>),
      Form(4, <<Part("none", FALSE), Data(1), Part("b", FALSE), Close>>),
      Form(4, <<Part("a", TRUE), Data(1), Data(2), Part("a", FALSE)>>) }

Kinds == Heads \cup Bodies

\* Request number r of kind k as it goes over the wire.
Encoded(r, k) ==
    << [req |-> r, part |-> "line", method |-> k.method, uri |-> k.uri, headers |-> k.headers],
       [req |-> r, part |-> "end"] >>
    \o [i \in DOMAIN k.body |-> k.body[i] @@ [req |-> r]]

MCWires == {Encoded(1, a) \o Encoded(2, b) : a, b \in Kinds}

=============================================================================
