--------------------------- MODULE RestClientProofs ---------------------------
(* Theorems about RestClient for any number of threads, any lifetimes, any    *)
(* difference of the clocks and any bounds: its steps are steps a client of   *)
(* AuthSession may take, and what the two properties say of the token cache.  *)
EXTENDS RestClient, AuthSessionProofs

-----------------------------------------------------------------------------
(* The tokens a thread knows were delivered to it.                            *)
Kept(t) ==
    /\ session[t].token \in held \cup {NoToken}
    /\ obtained[t] \subseteq held
    /\ refused[t] \subseteq held

(* Where a thread is in get_customer_info agrees with its connection.         *)
Stage(t) ==
    /\ client[t] \in {"idle", "loggedIn"} => phase[t] = "idle"
    /\ phase[t] # "answered" => reply[t] = NoReply
    /\ phase[t] \in {"queued", "handling"} =>
          \/ client[t] = "login" /\ request[t] = Post(Login, NoToken)
          \/ client[t] = "customer" /\ request[t] = Post(Customer, session[t].token)
    /\ client[t] \in {"loggedIn", "customer"} => session[t].token # NoToken
    /\ client[t] = "login" /\ reply[t].status = 200 => reply[t].token # NoToken

(* Neither the cached token nor one on its way was refused.                   *)
Fresh(t) == session[t].token \notin refused[t] /\ reply[t].token \notin refused[t]

(* A token no longer cached was refused or has expired.                       *)
Known(t) ==
    \A token \in obtained[t] :
        \/ token \in refused[t]
        \/ LocalClock >= token.exp
        \/ client[t] # "login" /\ session[t] = SessionOf(token)

Good(t) == Kept(t) /\ Stage(t) /\ Fresh(t) /\ Known(t)

ClientInv == IInv /\ ClientTypeOK /\ \A t \in Threads : Good(t)

-----------------------------------------------------------------------------
\* NoToken is no token, wherever tokens are collected.
LEMMA NeverNoToken ==
    ASSUME ClientInv, NEW t \in Threads
    PROVE  /\ NoToken \notin refused[t] /\ NoToken \notin obtained[t] /\ NoToken \notin held
           /\ refused[t] \subseteq Token /\ obtained[t] \subseteq Token /\ held \subseteq Token
  BY NotTokens DEF ClientInv, ClientTypeOK, IInv, TypeOK

\* The clocks are integers.
LEMMA ClocksAreInts ==
    ASSUME ClientInv
    PROVE  now \in Nat /\ skew \in Int
<1>1. MaxSkew \in Int
  BY SkewIsNat
<1>. QED  BY <1>1 DEF ClientInv, ClientTypeOK, IInv, TypeOK, Skews

\* What a step does on the connections of the other threads.
Others(t) ==
    \A k \in Threads : k # t =>
        phase'[k] = phase[k] /\ request'[k] = request[k] /\ reply'[k] = reply[k]

\* Answering a request changes one connection.
LEMMA AnswerFrame ==
    ASSUME TypeOK, NEW t \in Threads, NEW status, NEW token, Answer(t, status, token)
    PROVE  /\ Others(t)
           /\ phase'[t] = "answered"
           /\ reply'[t].status = status
           /\ reply'[t].token = token
  BY DEF TypeOK, Answer, Others, Threads

\* So does sending one; a request of this client waits for the pool, or finds
\* its queue full.
LEMMA PostFrame ==
    ASSUME TypeOK, NEW t \in Threads, NEW path \in Paths, NEW bearer,
           Send(t, Post(path, bearer))
    PROVE  /\ Others(t)
           /\ UNCHANGED <<service, sessions, held>>
           /\ \/ /\ phase'[t] = "queued"
                 /\ request'[t] = Post(path, bearer)
                 /\ reply'[t] = reply[t]
              \/ /\ phase'[t] = "answered"
                 /\ reply'[t].status = 503
                 /\ reply'[t].token = NoToken
<1>. DEFINE r == Post(path, bearer)
<1>1. ForPool(r)
  BY DEF ForPool, Found, Post, Paths, Internal, Login, MfaUri, Customer
<1>2. UNCHANGED <<service, sessions, held>>
  BY DEF Send
<1>3. CASE Answer(t, 503, NoToken)
  BY <1>2, <1>3, AnswerFrame
<1>4. CASE /\ phase' = [phase EXCEPT ![t] = "queued"]
           /\ request' = [request EXCEPT ![t] = r]
           /\ UNCHANGED <<checked, reply>>
  <2>. HIDE DEF r
  <2>1. Others(t) /\ phase'[t] = "queued" /\ request'[t] = r /\ reply'[t] = reply[t]
    BY <1>4 DEF TypeOK, Others, Threads
  <2>. QED  BY <1>2, <2>1 DEF r
<1>. QED  BY <1>1, <1>3, <1>4 DEF Send

\* And so does the arrival of an answer.
LEMMA ReceiveFrame ==
    ASSUME TypeOK, NEW t \in Threads, Receive(t)
    PROVE  /\ Others(t)
           /\ phase'[t] = "idle" /\ reply'[t] = NoReply
           /\ UNCHANGED <<service, sessions>>
           /\ held' = held \cup ({reply[t].token} \ {NoToken})
  BY DEF TypeOK, Receive, Others, Threads

-----------------------------------------------------------------------------
\* The server serves a request of this client: it starts a handler, answers
\* without a token, or answers a login with a token nobody has seen.
ServedPlainly(t) ==
    /\ phase'[t] = "answered"
    /\ reply'[t].token = NoToken
    /\ request[t].path = Login => reply'[t].status # 200

LEMMA ServeFrame ==
    ASSUME IInv, NEW t \in Threads, Serve(t), request[t].path # MfaUri
    PROVE  /\ Others(t)
           /\ UNCHANGED <<service, held>>
           /\ phase[t] \in {"queued", "handling"}
           /\ \/ phase'[t] = "handling" /\ request'[t] = request[t] /\ reply'[t] = reply[t]
              \/ ServedPlainly(t)
              \/ /\ phase'[t] = "answered"
                 /\ request[t].path = Login
                 /\ reply'[t].token \in Token \ held
<1>. USE DEF Threads
<1>0. TypeOK
  BY DEF IInv
<1>1. CASE Execute(t)
  <2>1. UNCHANGED <<service, held>> /\ phase[t] = "queued"
    BY <1>1 DEF Execute
  <2>2. CASE Answer(t, 400, NoToken) \/ Answer(t, 401, NoToken)
    <3>1. PICK status \in {400, 401} : Answer(t, status, NoToken)
      BY <2>2
    <3>. QED  BY <1>0, <2>1, <3>1, AnswerFrame DEF ServedPlainly
  <2>3. CASE /\ phase' = [phase EXCEPT ![t] = "handling"]
             /\ UNCHANGED <<request, reply>>
    BY <1>0, <2>1, <2>3 DEF TypeOK, Others
  <2>. QED  BY <1>1, <2>2, <2>3 DEF Execute
<1>2. CASE HandleLogin(t)
  <2>1. UNCHANGED <<service, held>> /\ phase[t] = "handling" /\ request[t].path = Login
    BY <1>2 DEF HandleLogin
  <2>2. CASE Answer(t, 401, NoToken)
    BY <1>0, <2>1, <2>2, AnswerFrame DEF ServedPlainly
  <2>3. CASE Answer(t, 200, get_token(NewSession, mfa_enabled))
    <3>. DEFINE token == get_token(NewSession, mfa_enabled)
    <3>1. NewSession \in Nat \ {0} /\ NewSession \notin 1..Len(sessions)
      <4>1. Len(sessions) \in Nat
        BY <1>0 DEF TypeOK
      <4>. QED  BY <4>1 DEF NewSession
    <3>2. token \in Token /\ token.sid = NewSession
      <4>1. CASE mfa_enabled = TRUE
        BY <1>0, <3>1, <4>1, FirstTokenMade
      <4>2. CASE mfa_enabled = FALSE
        BY <1>0, <3>1, <4>2, FullTokenMade
      <4>. QED  BY <1>0, <4>1, <4>2 DEF TypeOK
    <3>. HIDE DEF token
    <3>3. token \notin held
      BY <3>1, <3>2 DEF IInv, HonestTokens, Honest
    <3>4. Others(t) /\ phase'[t] = "answered" /\ reply'[t].token = token
      BY <1>0, <2>3, AnswerFrame DEF token
    <3>. QED  BY <2>1, <3>2, <3>3, <3>4
  <2>. QED  BY <1>2, <2>2, <2>3 DEF HandleLogin
<1>3. CASE HandleTotp(t)
  BY <1>3 DEF HandleTotp
<1>4. CASE HandleData(t)
  <2>1. PICK status \in {200, 404} : Answer(t, status, NoToken)
    BY <1>4 DEF HandleData
  <2>2. UNCHANGED <<service, held>> /\ phase[t] = "handling" /\ request[t].path = Customer
    BY <1>4 DEF HandleData
  <2>3. Customer # Login
    BY DEF Customer, Login
  <2>. QED  BY <1>0, <2>1, <2>2, <2>3, AnswerFrame DEF ServedPlainly
<1>5. CASE HandleRegex(t)
  <2>1. request[t].path # Login
    BY <1>5 DEF HandleRegex, Paths
  <2>. QED  BY <1>0, <1>5, <2>1, AnswerFrame DEF HandleRegex, ServedPlainly
<1>6. CASE HandlerThrows(t)
  BY <1>0, <1>6, AnswerFrame DEF HandlerThrows, ServedPlainly
<1>. QED  BY <1>1, <1>2, <1>3, <1>4, <1>5, <1>6 DEF Serve

-----------------------------------------------------------------------------
\* A thread that takes no step keeps what is good of it: tokens are only added
\* to those delivered, and time only passes.
LEMMA GoodStays ==
    ASSUME ClientInv, NEW k \in Threads,
           phase'[k] = phase[k], request'[k] = request[k], reply'[k] = reply[k],
           client'[k] = client[k], session'[k] = session[k],
           obtained'[k] = obtained[k], refused'[k] = refused[k],
           held \subseteq held', now' \in Nat, now' >= now, skew' = skew
    PROVE  Good(k)'
<1>0. Good(k)
  BY DEF ClientInv
<1>1. Kept(k)'
  BY <1>0 DEF Good, Kept
<1>2. Stage(k)'
  BY <1>0 DEF Good, Stage
<1>3. Fresh(k)'
  BY <1>0 DEF Good, Fresh
<1>4. Known(k)'
  <2>. SUFFICES ASSUME NEW token \in obtained[k], LocalClock >= token.exp
                PROVE  LocalClock' >= token.exp
    BY <1>0 DEF Good, Known
  <2>1. token \in Token
    BY NeverNoToken
  <2>. QED  BY <2>1, ClocksAreInts DEF LocalClock, Token
<1>. QED  BY <1>1, <1>2, <1>3, <1>4 DEF Good

\* A step of the service on one connection is good for its thread too.
LEMMA ServeGood ==
    ASSUME ClientInv, NEW t \in Threads, Serve(t), UNCHANGED clientVars
    PROVE  \A k \in Threads : Good(k)'
<1>0. Good(t) /\ IInv
  BY DEF ClientInv
<1>1. request[t].path # MfaUri
  <2>1. phase[t] \in {"queued", "handling"}
    BY DEF Serve, Execute, HandleLogin, HandleTotp, HandleData, HandleRegex, HandlerThrows
  <2>. QED  BY <1>0, <2>1 DEF Good, Stage, Post, MfaUri, Login, Customer
<1>2. /\ Others(t)
      /\ UNCHANGED <<service, held>>
      /\ phase[t] \in {"queued", "handling"}
      /\ \/ phase'[t] = "handling" /\ request'[t] = request[t] /\ reply'[t] = reply[t]
         \/ ServedPlainly(t)
         \/ /\ phase'[t] = "answered"
            /\ request[t].path = Login
            /\ reply'[t].token \in Token \ held
  BY <1>0, <1>1, ServeFrame
<1>3. now' = now /\ now \in Nat
  BY <1>2, ClocksAreInts DEF service
<1>4. ASSUME NEW k \in Threads, k # t  PROVE  Good(k)'
  BY <1>2, <1>3, <1>4, GoodStays DEF Others, clientVars
<1>5. Good(t)'
  <2>1. Kept(t)'
    BY <1>0, <1>2 DEF Good, Kept, clientVars
  <2>2. Known(t)'
    BY <1>0, <1>3 DEF Good, Known, LocalClock, clientVars
  <2>3. Stage(t)'
    <3>1. client[t] = "login" \/ client[t] = "customer"
      BY <1>0, <1>2 DEF Good, Stage
    <3>2. client[t] = "login" => request[t].path = Login
      BY <1>0, <1>2 DEF Good, Stage, Post
    <3>3. CASE phase'[t] = "handling" /\ request'[t] = request[t] /\ reply'[t] = reply[t]
      BY <1>0, <1>2, <3>3 DEF Good, Stage, clientVars
    <3>4. CASE ServedPlainly(t)
      BY <1>0, <3>1, <3>2, <3>4 DEF Good, Stage, ServedPlainly, clientVars
    <3>5. CASE phase'[t] = "answered" /\ reply'[t].token \in Token \ held
      BY <1>0, <3>1, <3>5, NotTokens DEF Good, Stage, clientVars
    <3>. QED  BY <1>2, <3>3, <3>4, <3>5
  <2>4. Fresh(t)'
    <3>1. session'[t] = session[t] /\ refused'[t] = refused[t] /\ refused[t] \subseteq held
      BY <1>0 DEF Good, Kept, clientVars
    <3>. QED  BY <1>0, <1>2, <3>1, NeverNoToken DEF Good, Fresh, ServedPlainly
  <2>. QED  BY <2>1, <2>2, <2>3, <2>4 DEF Good
<1>. QED  BY <1>4, <1>5

\* A lost connection leaves the thread without an answer.
LEMMA LoseGood ==
    ASSUME ClientInv, NEW t \in Threads, Lose(t), UNCHANGED clientVars
    PROVE  \A k \in Threads : Good(k)'
<1>0. Good(t) /\ TypeOK
  BY DEF ClientInv, IInv
<1>1. /\ phase[t] \in {"queued", "handling"}
      /\ Answer(t, 0, NoToken)
      /\ UNCHANGED <<service, sessions, held>>
  BY DEF Lose
<1>2. Others(t) /\ phase'[t] = "answered" /\ reply'[t].status = 0 /\ reply'[t].token = NoToken
  BY <1>0, <1>1, AnswerFrame
<1>3. now' = now /\ now \in Nat
  BY <1>1, ClocksAreInts DEF service
<1>4. ASSUME NEW k \in Threads, k # t  PROVE  Good(k)'
  BY <1>1, <1>2, <1>3, <1>4, GoodStays DEF Others, clientVars
<1>5. Good(t)'
  <2>1. Kept(t)' /\ Known(t)'
    BY <1>0, <1>1, <1>3 DEF Good, Kept, Known, LocalClock, clientVars
  <2>2. Stage(t)'
    BY <1>0, <1>1, <1>2 DEF Good, Stage, clientVars
  <2>3. Fresh(t)'
    BY <1>0, <1>2, NeverNoToken DEF Good, Fresh, clientVars
  <2>. QED  BY <2>1, <2>2, <2>3 DEF Good
<1>. QED  BY <1>4, <1>5

\* Neither time nor a restart of the service changes what a thread keeps.
LEMMA EnvironmentGood ==
    ASSUME ClientInv, Environment, UNCHANGED clientVars
    PROVE  \A k \in Threads : Good(k)'
<1>. SUFFICES ASSUME NEW k \in Threads PROVE Good(k)'
  OBVIOUS
<1>1. CASE Tick
  <2>1. now' = now + 1 /\ UNCHANGED <<phase, request, reply, held>>
    BY <1>1 DEF Tick
  <2>2. now' \in Nat /\ now' >= now
    BY <2>1, ClocksAreInts
  <2>. QED  BY <2>1, <2>2, GoodStays DEF clientVars
<1>2. CASE \E rotate, mfa \in BOOLEAN : Restart(rotate, mfa)
  <2>0. PICK rotate \in BOOLEAN, mfa \in BOOLEAN : Restart(rotate, mfa)
    BY <1>2
  <2>1. /\ phase'[k] = IF phase[k] = "idle" THEN "idle" ELSE "answered"
        /\ reply'[k] = NoReply
        /\ UNCHANGED <<now, held>>
    BY <2>0 DEF Restart, Threads
  <2>2. Good(k)
    BY DEF ClientInv
  <2>3. NoReply.status = 0 /\ NoReply.token = NoToken
    BY DEF NoReply
  <2>4. Kept(k)' /\ Known(k)'
    BY <2>1, <2>2 DEF Good, Kept, Known, LocalClock, clientVars
  <2>5. Stage(k)'
    BY <2>1, <2>2, <2>3 DEF Good, Stage, clientVars
  <2>6. Fresh(k)'
    BY <2>1, <2>2, <2>3, NeverNoToken DEF Good, Fresh, clientVars
  <2>. QED  BY <2>4, <2>5, <2>6 DEF Good
<1>. QED  BY <1>1, <1>2 DEF Environment

-----------------------------------------------------------------------------
(* The steps of the client itself.                                            *)
LEMMA BeginGood ==
    ASSUME ClientInv, NEW t \in Threads, Begin(t)
    PROVE  ClientTypeOK' /\ \A k \in Threads : Good(k)'
<1>0. Good(t) /\ TypeOK /\ client[t] = "idle" /\ UNCHANGED <<skew, session, obtained, refused>>
  BY DEF ClientInv, IInv, Begin
<1>1. PICK path \in {Login, Customer}, bearer \in {NoToken, session[t].token},
           where \in {"login", "customer"} :
        /\ Send(t, Post(path, bearer)) /\ Goto(t, where)
        /\ \/ path = Login /\ bearer = NoToken /\ where = "login" /\ ~Cached(t)
           \/ path = Customer /\ bearer = session[t].token /\ where = "customer" /\ Cached(t)
  BY DEF Begin
<1>2. path \in Paths
  BY DEF Paths
<1>3. /\ Others(t)
      /\ UNCHANGED <<service, sessions, held>>
      /\ \/ phase'[t] = "queued" /\ request'[t] = Post(path, bearer) /\ reply'[t] = reply[t]
         \/ phase'[t] = "answered" /\ reply'[t].status = 503 /\ reply'[t].token = NoToken
  BY <1>0, <1>1, <1>2, PostFrame
<1>4. ClientTypeOK' /\ client'[t] = where /\ \A k \in Threads : k # t => client'[k] = client[k]
  BY <1>0, <1>1 DEF ClientInv, ClientTypeOK, Goto
<1>5. now' = now /\ now \in Nat
  BY <1>3, ClocksAreInts DEF service
<1>6. ASSUME NEW k \in Threads, k # t  PROVE  Good(k)'
  BY <1>0, <1>3, <1>4, <1>5, <1>6, GoodStays DEF Others
<1>7. Good(t)'
  <2>0. reply[t] = NoReply /\ NoReply.status = 0 /\ NoReply.token = NoToken
    BY <1>0 DEF Good, Stage, NoReply
  <2>1. Kept(t)'
    BY <1>0, <1>3 DEF Good, Kept
  <2>2. Stage(t)'
    BY <1>0, <1>1, <1>3, <1>4, <2>0 DEF Stage, Cached
  <2>3. Fresh(t)'
    BY <1>0, <1>3, <2>0, NeverNoToken DEF Good, Fresh
  <2>4. Known(t)'
    <3>. SUFFICES ASSUME NEW token \in obtained[t], token \notin refused[t],
                         ~(LocalClock >= token.exp)
                  PROVE  where # "login" /\ session[t] = SessionOf(token)
      BY <1>0, <1>4, <1>5 DEF Known, LocalClock
    <3>1. session[t] = SessionOf(token)
      BY <1>0 DEF Good, Known
    <3>2. token \in Token
      BY NeverNoToken
    <3>3. session[t].token # NoToken /\ session[t].expires_at = token.exp
      BY <3>1, <3>2, NotTokens DEF SessionOf
    <3>4. LocalClock < session[t].expires_at
      BY <3>2, <3>3, ClocksAreInts DEF LocalClock, Token
    <3>. QED  BY <1>1, <3>1, <3>3, <3>4 DEF Cached
  <2>. QED  BY <2>1, <2>2, <2>3, <2>4 DEF Good
<1>. QED  BY <1>4, <1>6, <1>7

LEMMA PostCustomerGood ==
    ASSUME ClientInv, NEW t \in Threads, PostCustomer(t)
    PROVE  ClientTypeOK' /\ \A k \in Threads : Good(k)'
<1>0. /\ Good(t) /\ TypeOK /\ client[t] = "loggedIn"
      /\ Send(t, Post(Customer, session[t].token)) /\ Goto(t, "customer")
      /\ UNCHANGED <<skew, session, obtained, refused>>
  BY DEF ClientInv, IInv, PostCustomer
<1>2. Customer \in Paths
  BY DEF Paths
<1>3. /\ Others(t)
      /\ UNCHANGED <<service, sessions, held>>
      /\ \/ phase'[t] = "queued" /\ request'[t] = Post(Customer, session[t].token)
            /\ reply'[t] = reply[t]
         \/ phase'[t] = "answered" /\ reply'[t].status = 503 /\ reply'[t].token = NoToken
  BY <1>0, <1>2, PostFrame
<1>4. ClientTypeOK' /\ client'[t] = "customer" /\ \A k \in Threads : k # t => client'[k] = client[k]
  BY <1>0 DEF ClientInv, ClientTypeOK, Goto
<1>5. now' = now /\ now \in Nat
  BY <1>3, ClocksAreInts DEF service
<1>6. ASSUME NEW k \in Threads, k # t  PROVE  Good(k)'
  BY <1>0, <1>3, <1>4, <1>5, <1>6, GoodStays DEF Others
<1>7. Good(t)'
  <2>0. reply[t] = NoReply /\ NoReply.token = NoToken
    BY <1>0 DEF Good, Stage, NoReply
  <2>1. Kept(t)' /\ Known(t)'
    BY <1>0, <1>3, <1>4, <1>5 DEF Good, Kept, Known, LocalClock
  <2>2. Stage(t)'
    BY <1>0, <1>3, <1>4, <2>0 DEF Good, Stage
  <2>3. Fresh(t)'
    BY <1>0, <1>3, <2>0, NeverNoToken DEF Good, Fresh
  <2>. QED  BY <2>1, <2>2, <2>3 DEF Good
<1>. QED  BY <1>4, <1>6, <1>7

LEMMA LoginAnsweredGood ==
    ASSUME ClientInv, NEW t \in Threads, LoginAnswered(t)
    PROVE  ClientTypeOK' /\ \A k \in Threads : Good(k)'
<1>. DEFINE token == reply[t].token
<1>0. Good(t) /\ TypeOK /\ client[t] = "login" /\ Receive(t) /\ UNCHANGED <<skew, refused>>
  BY DEF ClientInv, IInv, LoginAnswered
<1>1. /\ Others(t)
      /\ phase'[t] = "idle" /\ reply'[t] = NoReply
      /\ UNCHANGED <<service, sessions>>
      /\ held' = held \cup ({token} \ {NoToken})
  BY <1>0, ReceiveFrame
<1>2. now' = now /\ now \in Nat /\ NoReply.token = NoToken
  BY <1>1, ClocksAreInts DEF service, NoReply
<1>3. CASE /\ reply[t].status = 200
           /\ session' = [session EXCEPT ![t] = SessionOf(token)]
           /\ obtained' = [obtained EXCEPT ![t] = @ \cup {token}]
           /\ Goto(t, "loggedIn")
  <2>1. token \in Token
    BY <1>0, <1>3 DEF Good, Stage, TypeOK, Reply, Threads
  <2>2. SessionOf(token).token = token /\ SessionOf(token).expires_at \in Nat
        /\ SessionOf(token) \in [token : Token \cup {NoToken}, expires_at : Nat]
    BY <2>1 DEF SessionOf, Token
  <2>3. /\ client'[t] = "loggedIn" /\ session'[t] = SessionOf(token)
        /\ obtained'[t] = obtained[t] \cup {token}
        /\ \A k \in Threads : k # t => client'[k] = client[k] /\ session'[k] = session[k]
                                       /\ obtained'[k] = obtained[k]
    BY <1>3 DEF ClientInv, ClientTypeOK, Goto
  <2>. HIDE DEF token
  <2>4. ClientTypeOK'
    BY <1>0, <1>3, <2>1, <2>2 DEF ClientInv, ClientTypeOK, Goto
  <2>5. ASSUME NEW k \in Threads, k # t  PROVE  Good(k)'
    BY <1>0, <1>1, <1>2, <2>3, <2>5, GoodStays DEF Others
  <2>6. Good(t)'
    <3>1. Kept(t)'
      BY <1>0, <1>1, <2>1, <2>2, <2>3, NotTokens DEF Good, Kept
    <3>2. Stage(t)'
      BY <1>1, <2>1, <2>2, <2>3, NotTokens DEF Stage
    <3>3. Fresh(t)'
      BY <1>0, <1>1, <1>2, <2>2, <2>3, NeverNoToken DEF Good, Fresh, token
    <3>4. Known(t)'
      BY <1>0, <1>2, <2>3 DEF Good, Known, LocalClock
    <3>. QED  BY <3>1, <3>2, <3>3, <3>4 DEF Good
  <2>. QED  BY <2>4, <2>5, <2>6
<1>4. CASE Goto(t, "idle") /\ UNCHANGED <<session, obtained>>
  <2>1. /\ ClientTypeOK' /\ client'[t] = "idle"
        /\ \A k \in Threads : k # t => client'[k] = client[k]
    BY <1>0, <1>4 DEF ClientInv, ClientTypeOK, Goto
  <2>2. ASSUME NEW k \in Threads, k # t  PROVE  Good(k)'
    BY <1>0, <1>1, <1>2, <1>4, <2>1, <2>2, GoodStays DEF Others
  <2>3. Good(t)'
    <3>1. Kept(t)' /\ Known(t)'
      BY <1>0, <1>1, <1>2, <1>4, <2>1 DEF Good, Kept, Known, LocalClock
    <3>2. Stage(t)'
      BY <1>1, <2>1 DEF Stage
    <3>3. Fresh(t)'
      BY <1>0, <1>1, <1>2, <1>4, NeverNoToken DEF Good, Fresh
    <3>. QED  BY <3>1, <3>2, <3>3 DEF Good
  <2>. QED  BY <2>1, <2>2, <2>3
<1>. QED  BY <1>3, <1>4 DEF LoginAnswered

LEMMA CustomerAnsweredGood ==
    ASSUME ClientInv, NEW t \in Threads, CustomerAnswered(t)
    PROVE  ClientTypeOK' /\ \A k \in Threads : Good(k)'
<1>. DEFINE status == reply[t].status
            after == SessionAfter(t, status)
            nowRefused == IF status = 401 THEN refused[t] \cup {session[t].token} ELSE refused[t]
<1>0. /\ Good(t) /\ TypeOK /\ client[t] = "customer" /\ Receive(t) /\ Goto(t, "idle")
      /\ session' = [session EXCEPT ![t] = after]
      /\ UNCHANGED <<skew, obtained>>
  BY DEF ClientInv, IInv, CustomerAnswered
<1>1. refused' = [refused EXCEPT ![t] = nowRefused]
  BY DEF CustomerAnswered, ClientInv, ClientTypeOK
<1>2. /\ Others(t)
      /\ phase'[t] = "idle" /\ reply'[t] = NoReply
      /\ UNCHANGED <<service, sessions>>
      /\ held' = held \cup ({reply[t].token} \ {NoToken})
  BY <1>0, ReceiveFrame
<1>3. now' = now /\ now \in Nat /\ NoReply.token = NoToken
  BY <1>2, ClocksAreInts DEF service, NoReply
<1>4. session[t].token \in Token /\ session[t] \in [token : Token \cup {NoToken}, expires_at : Nat]
  BY <1>0 DEF Good, Stage, ClientInv, ClientTypeOK
<1>5. /\ after \in [token : Token \cup {NoToken}, expires_at : Nat]
      /\ status = 401 => after.token = NoToken
      /\ status # 401 => after = session[t]
  BY <1>4 DEF SessionAfter
<1>6. nowRefused \in SUBSET Token
  BY <1>4, NeverNoToken
<1>. HIDE DEF after
<1>7. ClientTypeOK'
  BY <1>0, <1>1, <1>5, <1>6 DEF ClientInv, ClientTypeOK, Goto
<1>8. /\ client'[t] = "idle" /\ session'[t] = after /\ refused'[t] = nowRefused
      /\ \A k \in Threads : k # t => client'[k] = client[k] /\ session'[k] = session[k]
                                     /\ refused'[k] = refused[k]
  BY <1>0, <1>1 DEF ClientInv, ClientTypeOK, Goto
<1>9. ASSUME NEW k \in Threads, k # t  PROVE  Good(k)'
  BY <1>0, <1>2, <1>3, <1>8, <1>9, GoodStays DEF Others
<1>10. Good(t)'
  <2>1. Kept(t)'
    BY <1>0, <1>2, <1>4, <1>5, <1>8, NotTokens DEF Good, Kept
  <2>2. Stage(t)'
    BY <1>2, <1>8 DEF Stage
  <2>3. Fresh(t)'
    BY <1>0, <1>2, <1>3, <1>4, <1>5, <1>8, NeverNoToken, NotTokens DEF Good, Fresh
  <2>4. Known(t)'
    <3>. SUFFICES ASSUME NEW token \in obtained[t]
                  PROVE  \/ token \in nowRefused
                         \/ LocalClock >= token.exp
                         \/ after = SessionOf(token)
      BY <1>0, <1>3, <1>8 DEF Known, LocalClock
    <3>1. CASE session[t] = SessionOf(token)
      BY <1>5, <3>1 DEF SessionOf
    <3>. QED  BY <1>0, <3>1 DEF Good, Known
  <2>. QED  BY <2>1, <2>2, <2>3, <2>4 DEF Good
<1>. QED  BY <1>7, <1>9, <1>10

-----------------------------------------------------------------------------
\* A step of the client or of what surrounds it is a step AuthSession allows:
\* what is sent is a request with a token that was delivered, or with none.
LEMMA PostIsAsked ==
    ASSUME NEW t \in Threads, NEW path \in Paths, NEW bearer \in held \cup {NoToken},
           Send(t, Post(path, bearer))
    PROVE  Ask(t)
<1>1. -1 \in Codes(path) /\ bearer \in held \cup {NoToken, ApiKey}
  BY DEF Codes
<1>2. Send(t, [path |-> path, method |-> "post", originAllowed |-> TRUE,
               bearer |-> bearer, valid |-> TRUE, code |-> -1])
  BY <1>1 DEF Post
<1>. QED  BY <1>1, <1>2 DEF Ask

LEMMA StepIsServiceStep ==
    ASSUME ClientInv, [ClientNext]_allVars
    PROVE  [Next]_vars
<1>1. ASSUME NEW t \in Threads, Begin(t)  PROVE  Ask(t)
  <2>1. PICK path \in {Login, Customer}, bearer \in {NoToken, session[t].token} :
             Send(t, Post(path, bearer))
    BY <1>1 DEF Begin
  <2>2. path \in Paths /\ bearer \in held \cup {NoToken}
    BY DEF Paths, ClientInv, Good, Kept
  <2>. QED  BY <2>1, <2>2, PostIsAsked
<1>2. ASSUME NEW t \in Threads, PostCustomer(t)  PROVE  Ask(t)
  <2>1. Send(t, Post(Customer, session[t].token))
    BY <1>2 DEF PostCustomer
  <2>2. Customer \in Paths /\ session[t].token \in held \cup {NoToken}
    BY DEF Paths, ClientInv, Good, Kept
  <2>. QED  BY <2>1, <2>2, PostIsAsked
<1>3. ASSUME NEW t \in Threads, LoginAnswered(t) \/ CustomerAnswered(t)  PROVE  Receive(t)
  BY <1>3 DEF LoginAnswered, CustomerAnswered
<1>4. CASE Environment \/ \E t \in Threads : Serve(t) \/ Lose(t)
  BY <1>4 DEF Next, Threads
<1>5. CASE UNCHANGED allVars
  BY <1>5 DEF allVars
<1>. QED  BY <1>1, <1>2, <1>3, <1>4, <1>5 DEF ClientNext, Next, Threads

LEMMA ClientInitHolds == ClientInit => ClientInv
<1>. SUFFICES ASSUME ClientInit PROVE ClientInv
  OBVIOUS
<1>1. IInv
  BY InitHolds DEF ClientInit
<1>2. ClientTypeOK
  BY DEF ClientInit, ClientTypeOK
<1>3. ASSUME NEW t \in Threads  PROVE  Good(t)
  <2>1. phase[t] = "idle" /\ reply[t] = NoReply
    BY DEF ClientInit, Init, Threads
  <2>2. /\ client[t] = "idle" /\ session[t].token = NoToken
        /\ obtained[t] = {} /\ refused[t] = {}
    BY DEF ClientInit
  <2>. QED  BY <2>1, <2>2 DEF Good, Kept, Stage, Fresh, Known
<1>. QED  BY <1>1, <1>2, <1>3 DEF ClientInv

LEMMA ClientNextKeeps == ClientInv /\ [ClientNext]_allVars => ClientInv'
<1>. SUFFICES ASSUME ClientInv, [ClientNext]_allVars PROVE ClientInv'
  OBVIOUS
<1>1. IInv'
  BY StepIsServiceStep, NextKeeps DEF ClientInv
<1>2. ASSUME UNCHANGED clientVars  PROVE  ClientTypeOK'
  BY <1>2 DEF ClientInv, ClientTypeOK, clientVars
<1>3. ClientTypeOK' /\ \A k \in Threads : Good(k)'
  <2>1. CASE UNCHANGED allVars
    <3>1. ASSUME NEW k \in Threads  PROVE  Good(k)'
      BY <2>1, ClocksAreInts, GoodStays DEF allVars, vars, clientVars
    <3>2. UNCHANGED clientVars
      BY <2>1 DEF allVars
    <3>. QED  BY <1>2, <3>1, <3>2
  <2>2. CASE (Environment \/ \E t \in Threads : Serve(t) \/ Lose(t)) /\ UNCHANGED clientVars
    BY <1>2, <2>2, EnvironmentGood, ServeGood, LoseGood
  <2>3. CASE \E t \in Threads :
               Begin(t) \/ LoginAnswered(t) \/ PostCustomer(t) \/ CustomerAnswered(t)
    BY <2>3, BeginGood, LoginAnsweredGood, PostCustomerGood, CustomerAnsweredGood
  <2>. QED  BY <2>1, <2>2, <2>3 DEF ClientNext
<1>. QED  BY <1>1, <1>3 DEF ClientInv

-----------------------------------------------------------------------------
\* The client of restclient.hpp is one of the clients AuthSession is about, so
\* that everything proved there holds of the service it calls.
THEOREM ClientIsAClient == ClientSpec => Spec
<1>1. ClientInit => Init
  BY DEF ClientInit
<1>2. ClientInv /\ [ClientNext]_allVars => [Next]_vars
  BY StepIsServiceStep
<1>. QED  BY <1>1, <1>2, ClientInitHolds, ClientNextKeeps, PTL DEF ClientSpec, Spec

\* get_customer_info, m_session.token.clear(): a thread never sends a token it
\* was refused, however the clocks differ and whatever secret the service got.
THEOREM RefusedTokenDroppedHolds == ClientSpec => []RefusedTokenDropped
<1>1. ASSUME ClientInv  PROVE  RefusedTokenDropped
  <2>. SUFFICES ASSUME NEW t \in Threads, CustomerCall(t)
                PROVE  request[t].bearer \notin refused[t]
    BY DEF RefusedTokenDropped
  <2>1. Good(t)
    BY <1>1 DEF ClientInv
  <2>2. request[t].path # Login
    BY DEF CustomerCall, Customer, Login
  <2>3. request[t] = Post(Customer, session[t].token)
    BY <2>1, <2>2 DEF Good, Stage, CustomerCall, Post
  <2>. QED  BY <2>1, <2>3 DEF Good, Fresh, Post
<1>. QED  BY <1>1, ClientInitHolds, ClientNextKeeps, PTL DEF ClientSpec

\* login_and_get_token: a thread logs in only when every token it obtained was
\* refused or has expired by its clock.
THEOREM NoNeedlessLoginHolds == ClientSpec => NoNeedlessLogin
<1>1. ASSUME ClientInv, [ClientNext]_allVars
      PROVE  [\A t \in Threads : LoginStarts(t) =>
                 \A token \in obtained[t] :
                    token \in refused[t] \/ LocalClock >= token.exp]_allVars
  <2>1. ASSUME NEW t \in Threads, LoginStarts(t), NEW token \in obtained[t],
               token \notin refused[t]
        PROVE  LocalClock >= token.exp
    <3>1. ClientInv' /\ Good(t)' /\ client'[t] = "login"
      BY <1>1, <2>1, ClientNextKeeps DEF ClientInv, LoginStarts
    <3>2. UNCHANGED <<now, skew>> /\ obtained'[t] = obtained[t] /\ refused'[t] = refused[t]
      <4>1. client[t] # client'[t]
        BY <2>1 DEF LoginStarts
      <4>2. PICK k \in Threads :
                 Begin(k) \/ LoginAnswered(k) \/ PostCustomer(k) \/ CustomerAnswered(k)
        BY <1>1, <4>1 DEF ClientNext, allVars, clientVars
      <4>3. k = t
        BY <1>1, <4>1, <4>2
           DEF Begin, LoginAnswered, PostCustomer, CustomerAnswered, Goto, ClientInv, ClientTypeOK
      <4>4. Begin(t)
        BY <1>1, <2>1, <4>2, <4>3
           DEF LoginStarts, LoginAnswered, PostCustomer, CustomerAnswered
      <4>. QED  BY <4>4 DEF Begin, Send, service
    <3>. QED  BY <2>1, <3>1, <3>2 DEF Good, Known, LocalClock
  <2>. QED  BY <2>1
<1>. QED  BY <1>1, ClientInitHolds, ClientNextKeeps, PTL DEF ClientSpec, NoNeedlessLogin
=============================================================================
