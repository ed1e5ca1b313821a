-------------------------- MODULE AuthSessionProofs --------------------------
(* Theorems about AuthSession for any number of connections, any lifetimes    *)
(* and any bounds.  The invariant that carries both properties is about       *)
(* tokens, wherever they are: what a token says of its session is true, and   *)
(* stays true, because a session only ever gains.                             *)
EXTENDS AuthSession, TLAPS

-----------------------------------------------------------------------------
(* The end of what a token of session s may be used for.                      *)
FirstEnd(s) == s.born + FirstLifetime
FullEnd(s) == (IF s.mfa THEN FirstEnd(s) ELSE s.born) + s.late + FullLifetime

(* A token was made for a session and expires by the end of it.  A first      *)
(* token is one of a session that asks for the second factor; a full one was  *)
(* made only if it does not, or if the second factor was given.               *)
Honest(t, ss) ==
    /\ t.sid \in 1..Len(ss)
    /\ t.exp <= IF t.preauth THEN FirstEnd(ss[t.sid]) ELSE FullEnd(ss[t.sid])
    /\ t.preauth => ss[t.sid].mfa
    /\ t.preauth \/ ~ss[t.sid].mfa \/ ss[t.sid].proven

HonestTokens ==
    /\ \A t \in held : Honest(t, sessions)
    /\ \A l \in Lines : reply[l].token \in Token => Honest(reply[l].token, sessions)
    /\ \A l \in Lines : request[l].bearer \in Token => Honest(request[l].bearer, sessions)

(* What Execute established stays true while the handler runs.                *)
Admitted(l) ==
    /\ checked[l] <= now
    /\ find_handler(request[l].path).secure =>
          /\ request[l].bearer \in Token
          /\ checked[l] <= request[l].bearer.exp
          /\ request[l].bearer.preauth <=> request[l].path = MfaUri

HandledAreAdmitted == \A l \in Lines : phase[l] = "handling" => Admitted(l)

IInv == TypeOK /\ HonestTokens /\ HandledAreAdmitted

-----------------------------------------------------------------------------
\* What was registered as secured is found as secured: find_handler lets no
\* pattern take the place of a literal path or of a pattern before it.
LEMMA SecuredIsFound ==
    ASSUME NEW path, Secured(path)
    PROVE  find_handler(path).secure
<1>1. CASE path \in Paths
  BY <1>1 DEF Secured, find_handler
<1>2. CASE path \notin Paths
  <2>1. PICK i \in Matching(path) :
             RegexRoutes[i].secure /\ \A j \in 1..(i - 1) : j \notin Matching(path)
    BY <1>2 DEF Secured
  <2>2. \A j \in Matching(path) : j \in Nat \ {0}
    BY RoutesAreTyped DEF Matching
  <2>3. \A j \in Matching(path) : i <= j
    BY <2>1, <2>2
  <2>4. /\ FirstMatch(path) \in Matching(path)
        /\ \A j \in Matching(path) : FirstMatch(path) <= j
    BY <2>3 DEF FirstMatch
  <2>5. FirstMatch(path) = i
    BY <2>2, <2>3, <2>4
  <2>. QED  BY <1>2, <2>1, <2>5 DEF find_handler
<1>. QED  BY <1>1, <1>2

-----------------------------------------------------------------------------
\* Times: a lifetime is a natural number, and cutting off the fraction of a
\* second never lengthens one (get_token, the duration_cast of exp).
LEMMA Times ==
    /\ FirstLifetime \in Nat /\ FullLifetime \in Nat
    /\ \A t \in Nat : WholeSeconds(t) \in Nat /\ WholeSeconds(t) <= t
    /\ \A t \in Nat : TotpStep(t) \in Nat
<1>1. FirstLifetime \in Nat /\ FullLifetime \in Nat
  BY TimesAreNat DEF FirstLifetime, FullLifetime
<1>2. ASSUME NEW t \in Nat
      PROVE  WholeSeconds(t) \in Nat /\ WholeSeconds(t) <= t
  <2>1. /\ t % TicksPerSecond \in 0..(TicksPerSecond - 1)
        /\ t \div TicksPerSecond \in Nat
        /\ t = (TicksPerSecond * (t \div TicksPerSecond)) + (t % TicksPerSecond)
    BY TimesAreNat, SMTT(30)
  <2>2. TicksPerSecond * (t \div TicksPerSecond) \in Nat
    BY <2>1, TimesAreNat
  <2>. QED  BY <2>1, <2>2, TimesAreNat DEF WholeSeconds
<1>3. ASSUME NEW t \in Nat
      PROVE  TotpStep(t) \in Nat
  <2>1. TicksPerSecond * StepSeconds \in Nat \ {0}
    BY TimesAreNat
  <2>. QED  BY <2>1 DEF TotpStep
<1>. QED  BY <1>1, <1>2, <1>3

\* get_token makes a token that says what it was asked to say and expires no
\* later than its lifetime from now.
LEMMA FirstTokenMade ==
    ASSUME TypeOK, NEW sid \in Nat \ {0}
    PROVE  /\ get_token(sid, TRUE) \in Token
           /\ get_token(sid, TRUE).sid = sid
           /\ get_token(sid, TRUE).preauth
           /\ get_token(sid, TRUE).exp <= now + FirstLifetime
<1>1. now + FirstLifetime \in Nat
  BY Times DEF TypeOK
<1>2. /\ WholeSeconds(now + FirstLifetime) \in Nat
      /\ WholeSeconds(now + FirstLifetime) <= now + FirstLifetime
  BY <1>1, Times
<1>. QED  BY <1>2 DEF get_token, Token, TypeOK

LEMMA FullTokenMade ==
    ASSUME TypeOK, NEW sid \in Nat \ {0}
    PROVE  /\ get_token(sid, FALSE) \in Token
           /\ get_token(sid, FALSE).sid = sid
           /\ ~get_token(sid, FALSE).preauth
           /\ get_token(sid, FALSE).exp <= now + FullLifetime
<1>1. now + FullLifetime \in Nat
  BY Times DEF TypeOK
<1>2. /\ WholeSeconds(now + FullLifetime) \in Nat
      /\ WholeSeconds(now + FullLifetime) <= now + FullLifetime
  BY <1>1, Times
<1>. QED  BY <1>2 DEF get_token, Token, TypeOK

-----------------------------------------------------------------------------
\* A session only gains: it keeps its login, a code accepted stays accepted.
Gained(ss, tt) ==
    \A sid \in 1..Len(ss) :
        /\ sid \in 1..Len(tt)
        /\ tt[sid].born = ss[sid].born
        /\ tt[sid].mfa = ss[sid].mfa
        /\ ss[sid].proven => tt[sid].proven
        /\ ss[sid].late <= tt[sid].late

\* The ends of a session that gains do not move back.
LEMMA EndsStay ==
    ASSUME NEW s \in Session, NEW u \in Session,
           u.born = s.born, u.mfa = s.mfa, s.late <= u.late
    PROVE  /\ FirstEnd(s) \in Nat /\ FirstEnd(u) = FirstEnd(s)
           /\ FullEnd(s) \in Nat /\ FullEnd(u) \in Nat
           /\ FullEnd(s) <= FullEnd(u)
<1>1. /\ FirstLifetime \in Nat /\ FullLifetime \in Nat
      /\ s.born \in Nat /\ s.late \in Nat /\ u.late \in Nat
  BY Times DEF Session
<1>2. FirstEnd(s) \in Nat /\ FirstEnd(u) = FirstEnd(s)
  BY <1>1 DEF FirstEnd
<1>3. CASE s.mfa
  <2>1. /\ FullEnd(s) = FirstEnd(s) + s.late + FullLifetime
        /\ FullEnd(u) = FirstEnd(s) + u.late + FullLifetime
    BY <1>2, <1>3 DEF FullEnd
  <2>. QED  BY <1>1, <1>2, <2>1
<1>4. CASE ~s.mfa
  <2>1. /\ FullEnd(s) = s.born + s.late + FullLifetime
        /\ FullEnd(u) = s.born + u.late + FullLifetime
    BY <1>4 DEF FullEnd
  <2>. QED  BY <1>1, <1>2, <2>1
<1>. QED  BY <1>3, <1>4

\* What a token says of its session stays true.
LEMMA HonestStays ==
    ASSUME NEW ss \in Seq(Session), NEW tt \in Seq(Session), Gained(ss, tt),
           NEW t \in Token, Honest(t, ss)
    PROVE  Honest(t, tt)
<1>1. t.sid \in 1..Len(ss) /\ t.sid \in 1..Len(tt)
  BY DEF Honest, Gained
<1>2. ss[t.sid] \in Session /\ tt[t.sid] \in Session
  BY <1>1
<1>3. /\ tt[t.sid].born = ss[t.sid].born
      /\ tt[t.sid].mfa = ss[t.sid].mfa
      /\ ss[t.sid].late <= tt[t.sid].late
  BY <1>1 DEF Gained
<1>4. /\ FirstEnd(ss[t.sid]) \in Nat /\ FirstEnd(tt[t.sid]) = FirstEnd(ss[t.sid])
      /\ FullEnd(ss[t.sid]) \in Nat /\ FullEnd(tt[t.sid]) \in Nat
      /\ FullEnd(ss[t.sid]) <= FullEnd(tt[t.sid])
  BY <1>2, <1>3, EndsStay
<1>. QED  BY <1>1, <1>2, <1>4 DEF Honest, Gained, Token

\* With no session changed, nothing is lost.
LEMMA GainedRefl ==
    ASSUME NEW ss \in Seq(Session)
    PROVE  Gained(ss, ss)
<1>. SUFFICES ASSUME NEW sid \in 1..Len(ss)
              PROVE  ss[sid].late <= ss[sid].late
  BY DEF Gained
<1>1. ss[sid] \in Session
  OBVIOUS
<1>. QED  BY <1>1 DEF Session

-----------------------------------------------------------------------------
\* The values Init and the steps put into place are of their types.
LEMMA Values == NoRequest \in Requests /\ NoReply \in Reply
  BY DEF NoRequest, Requests, AnyPath, Unlisted, Methods, NoReply, Reply, Bearer, Status

\* Answering a request keeps the types of what it changes.
LEMMA AnswerTypes ==
    ASSUME TypeOK, NEW l \in Lines, NEW status \in Status,
           NEW token \in Token \cup {NoToken}, Answer(l, status, token)
    PROVE  /\ phase' \in [Lines -> Phases]
           /\ request' \in [Lines -> Requests]
           /\ checked' \in [Lines -> Nat]
           /\ reply' \in [Lines -> Reply]
<1>1. [status |-> status, token |-> token] \in Reply
  BY DEF Reply
<1>. QED  BY <1>1, Values DEF TypeOK, Answer, Phases

\* Whatever a client asks is a request, without a token or with one delivered.
Fair(r) == r.bearer \in Token => r.bearer \in held

LEMMA AskedTypes ==
    ASSUME TypeOK, NEW l \in Lines, Ask(l)
    PROVE  \E r \in Requests : Fair(r) /\ Send(l, r)
<1>1. held \subseteq Bearer /\ NoToken \in Bearer /\ ApiKey \in Bearer
  BY DEF TypeOK, Bearer
<1>2. -1 \in Nat \cup {-1} /\ TotpStep(now) \in Nat \cup {-1}
  BY Times DEF TypeOK
<1>3. CASE \E path \in Paths \cup Unlisted :
             \E bearer \in held \cup {NoToken, ApiKey}, code \in Codes(path) :
             Send(l, [path |-> path, method |-> "post", originAllowed |-> TRUE,
                      bearer |-> bearer, valid |-> TRUE, code |-> code])
  <2>0. PICK path \in Paths \cup Unlisted :
             \E bearer \in held \cup {NoToken, ApiKey}, code \in Codes(path) :
             Send(l, [path |-> path, method |-> "post", originAllowed |-> TRUE,
                      bearer |-> bearer, valid |-> TRUE, code |-> code])
    BY <1>3
  <2>1. PICK bearer \in held \cup {NoToken, ApiKey}, code \in Codes(path) :
             Send(l, [path |-> path, method |-> "post", originAllowed |-> TRUE,
                      bearer |-> bearer, valid |-> TRUE, code |-> code])
    BY <2>0
  <2>2. code \in Nat \cup {-1}
    BY <1>2 DEF Codes
  <2>4. [path |-> path, method |-> "post", originAllowed |-> TRUE,
         bearer |-> bearer, valid |-> TRUE, code |-> code] \in Requests
    BY <1>1, <2>2 DEF Requests, AnyPath, Methods
  <2>. QED  BY <2>1, <2>4, NotTokens DEF Fair
<1>4. CASE \E path \in AnyPath, method \in Methods, originAllowed \in BOOLEAN :
             Send(l, [path |-> path, method |-> method, originAllowed |-> originAllowed,
                      bearer |-> NoToken, valid |-> FALSE, code |-> -1])
  <2>1. PICK path \in AnyPath, method \in Methods, originAllowed \in BOOLEAN :
             Send(l, [path |-> path, method |-> method, originAllowed |-> originAllowed,
                      bearer |-> NoToken, valid |-> FALSE, code |-> -1])
    BY <1>4
  <2>2. [path |-> path, method |-> method, originAllowed |-> originAllowed,
         bearer |-> NoToken, valid |-> FALSE, code |-> -1] \in Requests
    BY <1>1, <1>2 DEF Requests
  <2>. QED  BY <2>1, <2>2, NotTokens DEF Fair
<1>5. CASE Send(l, [path |-> "/metrics", method |-> "get", originAllowed |-> TRUE,
                    bearer |-> ApiKey, valid |-> TRUE, code |-> -1])
  <2>1. [path |-> "/metrics", method |-> "get", originAllowed |-> TRUE,
         bearer |-> ApiKey, valid |-> TRUE, code |-> -1] \in Requests
    BY <1>1, <1>2 DEF Requests, AnyPath, Internal, Methods
  <2>. QED  BY <1>5, <2>1, NotTokens DEF Fair
<1>. QED  BY <1>3, <1>4, <1>5 DEF Ask

-----------------------------------------------------------------------------
\* Honest tokens stay honest when sessions gain and no other token appears.
LEMMA HonestHeld ==
    ASSUME TypeOK, NEW ss \in Seq(Session), Gained(sessions, ss),
           NEW t \in Token, Honest(t, sessions)
    PROVE  Honest(t, ss)
  BY HonestStays DEF TypeOK

\* The bearer and the token of a connection without request or answer are none.
LEMMA NoneIsNoToken == NoRequest.bearer \notin Token /\ NoReply.token \notin Token
  BY NotTokens DEF NoRequest, NoReply

\* A step that answers one request with an honest token, or with none, keeps
\* the invariant, whatever else it does to make sessions gain.
LEMMA AnswerKeeps ==
    ASSUME IInv, NEW l \in Lines, NEW status \in Status,
           NEW token \in Token \cup {NoToken}, Answer(l, status, token),
           UNCHANGED <<service, held>>,
           sessions' \in Seq(Session), Gained(sessions, sessions'),
           token \in Token => Honest(token, sessions')
    PROVE  IInv'
<1>. USE DEF IInv
<1>1. TypeOK'
  BY AnswerTypes DEF TypeOK, service
<1>2. HonestTokens'
  <2>1. ASSUME NEW t \in held'  PROVE  Honest(t, sessions')
    BY HonestHeld DEF HonestTokens, TypeOK
  <2>2. ASSUME NEW k \in Lines, reply'[k].token \in Token
        PROVE  Honest(reply'[k].token, sessions')
    <3>1. CASE k = l
      <4>1. reply'[l].token = token
        BY DEF Answer, TypeOK
      <4>. QED  BY <2>2, <3>1, <4>1
    <3>2. CASE k # l
      <4>1. reply'[k] = reply[k]
        BY <3>2 DEF Answer, TypeOK
      <4>. QED  BY <2>2, <4>1, HonestHeld DEF HonestTokens
    <3>. QED  BY <3>1, <3>2
  <2>3. ASSUME NEW k \in Lines, request'[k].bearer \in Token
        PROVE  Honest(request'[k].bearer, sessions')
    <3>1. k # l
      BY <2>3, NoneIsNoToken DEF Answer, TypeOK
    <3>2. request'[k] = request[k]
      BY <3>1 DEF Answer, TypeOK
    <3>. QED  BY <2>3, <3>2, HonestHeld DEF HonestTokens
  <2>. QED  BY <2>1, <2>2, <2>3 DEF HonestTokens
<1>3. HandledAreAdmitted'
  <2>. SUFFICES ASSUME NEW k \in Lines
                PROVE  phase'[k] = "handling" => Admitted(k)'
    BY DEF HandledAreAdmitted
  <2>1. CASE k = l
    <3>1. phase'[k] = "answered"
      BY <2>1 DEF Answer, TypeOK
    <3>. QED  BY <3>1
  <2>2. CASE k # l
    <3>1. phase'[k] = phase[k] /\ request'[k] = request[k] /\ checked'[k] = checked[k]
      BY <2>2 DEF Answer, TypeOK
    <3>. QED  BY <3>1 DEF HandledAreAdmitted, Admitted, service
  <2>. QED  BY <2>1, <2>2
<1>. QED  BY <1>1, <1>2, <1>3

\* The same for an answer that brings no token and touches no session.
LEMMA PlainAnswerKeeps ==
    ASSUME IInv, NEW l \in Lines, NEW status \in Status, Answer(l, status, NoToken),
           UNCHANGED <<service, sessions, held>>
    PROVE  IInv'
<1>1. sessions' \in Seq(Session) /\ Gained(sessions, sessions')
  BY GainedRefl DEF IInv, TypeOK
<1>. QED  BY <1>1, AnswerKeeps, NotTokens

-----------------------------------------------------------------------------
(* Each action keeps the invariant.                                           *)
LEMMA SendKeeps ==
    ASSUME IInv, NEW l \in Lines, NEW r \in Requests, Fair(r), Send(l, r)
    PROVE  IInv'
<1>1. CASE ForPool(r) /\ Answer(l, 503, NoToken)
  BY <1>1, PlainAnswerKeeps DEF Send, Status
<1>2. CASE ~ForPool(r) /\ Answer(l, RoutedStatus(r), NoToken)
  <2>1. RoutedStatus(r) \in Status
    BY DEF RoutedStatus, InternalStatus, Status
  <2>. QED  BY <1>2, <2>1, PlainAnswerKeeps DEF Send
<1>3. CASE /\ ForPool(r)
           /\ phase' = [phase EXCEPT ![l] = "queued"]
           /\ request' = [request EXCEPT ![l] = r]
           /\ UNCHANGED <<checked, reply>>
  <2>. USE <1>3 DEF IInv
  <2>0. UNCHANGED <<service, sessions, held>>
    BY DEF Send
  <2>1. TypeOK'
    BY <2>0 DEF TypeOK, Phases, service
  <2>2. HonestTokens'
    <3>1. ASSUME NEW k \in Lines, request'[k].bearer \in Token
          PROVE  Honest(request'[k].bearer, sessions')
      <4>1. CASE k = l
        BY <2>0, <3>1, <4>1 DEF HonestTokens, TypeOK, Fair
      <4>2. CASE k # l
        BY <2>0, <3>1, <4>2 DEF HonestTokens, TypeOK
      <4>. QED  BY <4>1, <4>2
    <3>. QED  BY <2>0, <3>1 DEF HonestTokens
  <2>3. HandledAreAdmitted'
    BY <2>0 DEF HandledAreAdmitted, Admitted, TypeOK, service
  <2>. QED  BY <2>1, <2>2, <2>3
<1>. QED  BY <1>1, <1>2, <1>3 DEF Send

LEMMA ExecuteKeeps ==
    ASSUME IInv, NEW l \in Lines, Execute(l)
    PROVE  IInv'
<1>. DEFINE r == request[l]
            endpoint == find_handler(r.path)
<1>0. UNCHANGED <<service, sessions, held>> /\ phase[l] = "queued"
  BY DEF Execute
<1>1. CASE Answer(l, 400, NoToken) \/ Answer(l, 401, NoToken)
  BY <1>0, <1>1, PlainAnswerKeeps DEF Status
<1>2. CASE /\ endpoint.secure => validate_token(r)
           /\ phase' = [phase EXCEPT ![l] = "handling"]
           /\ checked' = [checked EXCEPT ![l] = now]
           /\ UNCHANGED <<request, reply>>
  <2>. USE DEF IInv
  <2>1. TypeOK'
    BY <1>0, <1>2 DEF TypeOK, Phases, service
  <2>2. HonestTokens'
    BY <1>0, <1>2 DEF HonestTokens
  <2>3. HandledAreAdmitted'
    <3>. SUFFICES ASSUME NEW k \in Lines, phase'[k] = "handling"
                  PROVE  Admitted(k)'
      BY DEF HandledAreAdmitted
    <3>1. CASE k = l
      <4>1. checked'[l] = now /\ now' = now /\ request'[l] = r
        BY <1>0, <1>2 DEF TypeOK, service
      <4>2. now \in Nat
        BY DEF TypeOK
      <4>3. ASSUME endpoint.secure
            PROVE  /\ r.bearer \in Token
                   /\ now <= r.bearer.exp
                   /\ r.bearer.preauth <=> r.path = MfaUri
        <5>1. validate_token(r)
          BY <1>2, <4>3
        <5>2. r.bearer \in Token /\ ~(now > r.bearer.exp)
          BY <5>1 DEF validate_token, is_valid
        <5>3. r.bearer.exp \in Nat
          BY <5>2 DEF Token
        <5>. QED  BY <4>2, <5>1, <5>2, <5>3 DEF validate_token
      <4>. QED  BY <3>1, <4>1, <4>2, <4>3 DEF Admitted
    <3>2. CASE k # l
      <4>1. phase[k] = "handling" /\ checked'[k] = checked[k] /\ request'[k] = request[k] /\ now' = now
        BY <1>0, <1>2, <3>2 DEF TypeOK, service
      <4>. QED  BY <4>1 DEF HandledAreAdmitted, Admitted
    <3>. QED  BY <3>1, <3>2
  <2>. QED  BY <2>1, <2>2, <2>3
<1>. QED  BY <1>1, <1>2 DEF Execute

LEMMA LoginKeeps ==
    ASSUME IInv, NEW l \in Lines, HandleLogin(l)
    PROVE  IInv'
<1>. DEFINE new == [born |-> now, mfa |-> mfa_enabled, proven |-> FALSE, late |-> 0]
            token == get_token(NewSession, mfa_enabled)
<1>. USE DEF IInv
<1>1. CASE Answer(l, 401, NoToken) /\ UNCHANGED sessions
  BY <1>1, PlainAnswerKeeps DEF HandleLogin, Status
<1>2. CASE sessions' = Append(sessions, new) /\ Answer(l, 200, token)
  <2>1. new \in Session /\ sessions \in Seq(Session)
    BY DEF Session, TypeOK
  <2>2. /\ sessions' \in Seq(Session)
        /\ Len(sessions') = NewSession
        /\ NewSession \in Nat \ {0}
        /\ sessions'[NewSession] = new
        /\ \A sid \in 1..Len(sessions) :
              sid \in 1..Len(sessions') /\ sessions'[sid] = sessions[sid]
    BY <1>2, <2>1 DEF NewSession
  <2>3. Gained(sessions, sessions')
    <3>. SUFFICES ASSUME NEW sid \in 1..Len(sessions)
                  PROVE  sessions[sid].late <= sessions'[sid].late
      BY <2>2 DEF Gained
    <3>1. sessions[sid] \in Session
      BY <2>1
    <3>. QED  BY <2>2, <3>1 DEF Session
  <2>4. token \in Token /\ Honest(token, sessions')
    <3>0. mfa_enabled = TRUE \/ mfa_enabled = FALSE
      BY DEF TypeOK
    <3>1. CASE mfa_enabled = TRUE
      <4>2. /\ token \in Token /\ token.sid = NewSession /\ token.preauth
            /\ token.exp <= now + FirstLifetime
        BY <2>2, <3>1, FirstTokenMade
      <4>3. FirstEnd(new) = now + FirstLifetime
        BY DEF FirstEnd
      <4>4. new.mfa
        BY <3>1
      <4>. HIDE DEF token, new, IInv
      <4>5. token.sid \in 1..Len(sessions') /\ sessions'[token.sid] = new
        BY <2>2, <4>2
      <4>. QED  BY <4>2, <4>3, <4>4, <4>5 DEF Honest
    <3>2. CASE mfa_enabled = FALSE
      <4>2. /\ token \in Token /\ token.sid = NewSession /\ ~token.preauth
            /\ token.exp <= now + FullLifetime
        BY <2>2, <3>2, FullTokenMade
      <4>3. ~new.mfa /\ new.born = now /\ new.late = 0
        BY <3>2
      <4>4. FullEnd(new) = now + FullLifetime
        BY <4>3, Times DEF FullEnd, TypeOK
      <4>. HIDE DEF token, new, IInv
      <4>5. token.sid \in 1..Len(sessions') /\ sessions'[token.sid] = new
        BY <2>2, <4>2
      <4>. QED  BY <4>2, <4>3, <4>4, <4>5 DEF Honest
    <3>. HIDE DEF token, new
    <3>. QED  BY <3>0, <3>1, <3>2
  <2>5. 200 \in Status /\ UNCHANGED <<service, held>>
    BY DEF HandleLogin, Status
  <2>. HIDE DEF token, new, IInv
  <2>. QED  BY <1>2, <2>2, <2>3, <2>4, <2>5, AnswerKeeps
<1>. QED  BY <1>1, <1>2 DEF HandleLogin

LEMMA TotpKeeps ==
    ASSUME IInv, NEW l \in Lines, HandleTotp(l)
    PROVE  IInv'
<1>. DEFINE t == request[l].bearer
            lateness == now - checked[l]
            s == sessions[t.sid]
            after == ProvenAfter(s, lateness)
<1>. USE DEF IInv
<1>0. /\ phase[l] = "handling" /\ request[l].path = MfaUri
      /\ UNCHANGED <<service, held>>
  BY DEF HandleTotp
<1>1. CASE Answer(l, IF t.preauth THEN 401 ELSE 403, NoToken) /\ UNCHANGED sessions
  <2>1. (IF t.preauth THEN 401 ELSE 403) \in Status
    BY DEF Status
  <2>. QED  BY <1>0, <1>1, <2>1, PlainAnswerKeeps
<1>2. CASE /\ t.preauth
           /\ sessions' = [sessions EXCEPT ![t.sid] = ProvenAfter(@, lateness)]
           /\ Answer(l, 200, PostAuthToken(t))
  <2>1. /\ t \in Token /\ t.preauth /\ checked[l] <= now /\ checked[l] <= t.exp
        /\ Honest(t, sessions)
    <3>1. find_handler(MfaUri).secure
      BY SecuredIsFound DEF Secured, Paths, Endpoint, MfaUri, Login
    <3>. QED  BY <1>0, <1>2, <3>1 DEF HandledAreAdmitted, Admitted, HonestTokens
  <2>2. /\ t.sid \in 1..Len(sessions) /\ t.sid \in Nat \ {0} /\ s \in Session
        /\ s.mfa /\ t.exp <= FirstEnd(s)
    BY <2>1 DEF Honest, Token, TypeOK
  <2>3. /\ lateness \in Nat /\ after \in Session
        /\ after.born = s.born /\ after.mfa = s.mfa /\ after.proven
        /\ s.late <= after.late /\ lateness <= after.late
    <3>1. lateness \in Nat
      BY <2>1 DEF TypeOK
    <3>2. s.late \in Nat /\ s.born \in Nat /\ s.mfa \in BOOLEAN
      BY <2>2 DEF Session
    <3>. HIDE DEF lateness, s
    <3>. QED  BY <3>1, <3>2 DEF ProvenAfter, Session
  <2>4. sessions' = [sessions EXCEPT ![t.sid] = after]
    BY <1>2, <2>2 DEF TypeOK
  <2>5. /\ sessions' \in Seq(Session) /\ Len(sessions') = Len(sessions)
        /\ sessions'[t.sid] = after
        /\ \A sid \in 1..Len(sessions) : sid # t.sid => sessions'[sid] = sessions[sid]
    <3>1. sessions \in Seq(Session)
      BY DEF TypeOK
    <3>. HIDE DEF after
    <3>. QED  BY <2>2, <2>3, <2>4, <3>1
  <2>6. Gained(sessions, sessions')
    <3>. SUFFICES ASSUME NEW sid \in 1..Len(sessions)
                  PROVE  /\ sessions'[sid].born = sessions[sid].born
                         /\ sessions'[sid].mfa = sessions[sid].mfa
                         /\ sessions[sid].proven => sessions'[sid].proven
                         /\ sessions[sid].late <= sessions'[sid].late
      BY <2>5 DEF Gained
    <3>1. CASE sid = t.sid
      BY <2>3, <2>5, <3>1
    <3>2. CASE sid # t.sid
      <4>1. sessions[sid] \in Session
        BY DEF TypeOK
      <4>. QED  BY <2>5, <3>2, <4>1 DEF Session
    <3>. QED  BY <3>1, <3>2
  <2>7. PostAuthToken(t) \in Token /\ Honest(PostAuthToken(t), sessions')
    <3>1. /\ PostAuthToken(t) \in Token /\ PostAuthToken(t).sid = t.sid
          /\ ~PostAuthToken(t).preauth
          /\ PostAuthToken(t).exp <= now + FullLifetime
      BY <2>2, FullTokenMade DEF PostAuthToken
    <3>2. FullEnd(after) = s.born + FirstLifetime + after.late + FullLifetime
      BY <2>2, <2>3 DEF FullEnd, FirstEnd
    <3>3. now + FullLifetime <= FullEnd(after)
      <4>1. /\ now \in Nat /\ checked[l] \in Nat /\ t.exp \in Nat /\ s.born \in Nat
            /\ after.late \in Nat /\ FirstLifetime \in Nat /\ FullLifetime \in Nat
        BY <2>1, <2>2, <2>3, Times DEF TypeOK, Token, Session
      <4>2. checked[l] <= s.born + FirstLifetime
        <5>1. t.exp <= s.born + FirstLifetime
          BY <2>2 DEF FirstEnd
        <5>. HIDE DEF t, s
        <5>. QED  BY <2>1, <4>1, <5>1
      <4>. QED  BY <2>3, <3>2, <4>1, <4>2
    <3>4. PostAuthToken(t).exp \in Nat /\ FullEnd(after) \in Nat /\ now + FullLifetime \in Nat
      <4>1. PostAuthToken(t).exp \in Nat
        BY <3>1 DEF Token
      <4>2. FullEnd(after) \in Nat
        BY <2>3, EndsStay DEF Session
      <4>. QED  BY <4>1, <4>2, Times DEF TypeOK
    <3>5. PostAuthToken(t).exp <= FullEnd(after)
      BY <3>1, <3>3, <3>4
    <3>. QED  BY <2>2, <2>3, <2>5, <3>1, <3>5 DEF Honest
  <2>8. 200 \in Status
    BY DEF Status
  <2>. HIDE DEF t, s, lateness, after, IInv
  <2>. QED  BY <1>0, <1>2, <2>5, <2>6, <2>7, <2>8, AnswerKeeps
<1>. QED  BY <1>1, <1>2 DEF HandleTotp

LEMMA ReceiveKeeps ==
    ASSUME IInv, NEW l \in Lines, Receive(l)
    PROVE  IInv'
<1>. USE DEF IInv
<1>1. /\ held' = held \cup ({reply[l].token} \ {NoToken})
      /\ phase' = [phase EXCEPT ![l] = "idle"]
      /\ reply' = [reply EXCEPT ![l] = NoReply]
      /\ UNCHANGED <<service, sessions, request, checked>>
  BY DEF Receive
<1>2. reply[l].token \in Token \cup {NoToken}
  BY DEF TypeOK, Reply
<1>3. TypeOK'
  BY <1>1, <1>2, Values DEF TypeOK, Phases, service
<1>4. HonestTokens'
  <2>1. ASSUME NEW t \in held'  PROVE  Honest(t, sessions')
    <3>1. t \in held \/ (t = reply[l].token /\ t \in Token)
      BY <1>1, <1>2, <2>1
    <3>. QED  BY <1>1, <3>1 DEF HonestTokens
  <2>2. ASSUME NEW k \in Lines, reply'[k].token \in Token
        PROVE  Honest(reply'[k].token, sessions')
    <3>1. k # l
      BY <1>1, <2>2, NoneIsNoToken DEF TypeOK
    <3>2. reply'[k] = reply[k]
      BY <1>1, <3>1 DEF TypeOK
    <3>. QED  BY <1>1, <2>2, <3>2 DEF HonestTokens
  <2>. QED  BY <1>1, <2>1, <2>2 DEF HonestTokens
<1>5. HandledAreAdmitted'
  BY <1>1 DEF HandledAreAdmitted, Admitted, TypeOK, service
<1>. QED  BY <1>3, <1>4, <1>5

LEMMA RestartKeeps ==
    ASSUME IInv, NEW rotate \in BOOLEAN, NEW mfa \in BOOLEAN, Restart(rotate, mfa)
    PROVE  IInv'
<1>. USE DEF IInv
<1>1. /\ restarts' = restarts + 1
      /\ secret' = secret + 1 \/ secret' = secret
      /\ mfa_enabled' = mfa
      /\ phase' = [l \in Lines |-> IF phase[l] = "idle" THEN "idle" ELSE "answered"]
      /\ reply' = [l \in Lines |-> NoReply]
      /\ request' = [l \in Lines |-> NoRequest]
      /\ checked' = [l \in Lines |-> 0]
      /\ UNCHANGED <<now, sessions, held>>
  BY DEF Restart
<1>2. TypeOK'
  BY <1>1, Values DEF TypeOK, Phases
<1>3. HonestTokens'
  BY <1>1, NoneIsNoToken DEF HonestTokens
<1>4. HandledAreAdmitted'
  BY <1>1 DEF HandledAreAdmitted
<1>. QED  BY <1>2, <1>3, <1>4

LEMMA TickKeeps ==
    ASSUME IInv, Tick
    PROVE  IInv'
<1>1. /\ now \in Nat /\ now' = now + 1
      /\ UNCHANGED <<secret, mfa_enabled, restarts, sessions, phase, request, checked, reply, held>>
  BY DEF Tick, IInv, TypeOK
<1>2. TypeOK'
  BY <1>1 DEF IInv, TypeOK
<1>3. HonestTokens'
  BY <1>1 DEF IInv, HonestTokens
<1>4. HandledAreAdmitted'
  <2>. SUFFICES ASSUME NEW l \in Lines, phase[l] = "handling"
                PROVE  Admitted(l)'
    BY <1>1 DEF HandledAreAdmitted
  <2>1. Admitted(l) /\ checked[l] \in Nat
    BY DEF IInv, HandledAreAdmitted, TypeOK
  <2>. QED  BY <1>1, <2>1 DEF Admitted
<1>. QED  BY <1>2, <1>3, <1>4 DEF IInv

-----------------------------------------------------------------------------
\* The server starts with no token and no request.
LEMMA InitHolds == Init => IInv
<1>. SUFFICES ASSUME Init PROVE IInv
  OBVIOUS
<1>1. TypeOK
  BY Values DEF Init, TypeOK, Phases
<1>2. HonestTokens
  BY NoneIsNoToken DEF Init, HonestTokens
<1>3. HandledAreAdmitted
  BY DEF Init, HandledAreAdmitted
<1>. QED  BY <1>1, <1>2, <1>3 DEF IInv

\* No step of the server, of a client or of time breaks it.
LEMMA NextKeeps == IInv /\ [Next]_vars => IInv'
<1>. SUFFICES ASSUME IInv, [Next]_vars PROVE IInv'
  OBVIOUS
<1>1. ASSUME NEW l \in Lines, Ask(l)  PROVE  IInv'
  <2>1. PICK r \in Requests : Fair(r) /\ Send(l, r)
    BY <1>1, AskedTypes DEF IInv
  <2>. QED  BY <2>1, SendKeeps
<1>2. ASSUME NEW l \in Lines, Serve(l)  PROVE  IInv'
  <2>1. CASE HandleData(l)
    BY <2>1, PlainAnswerKeeps DEF HandleData, Status
  <2>2. CASE HandleRegex(l)
    BY <2>2, PlainAnswerKeeps DEF HandleRegex, Status
  <2>3. CASE HandlerThrows(l)
    BY <2>3, PlainAnswerKeeps DEF HandlerThrows, Status
  <2>. QED  BY <1>2, <2>1, <2>2, <2>3, ExecuteKeeps, LoginKeeps, TotpKeeps DEF Serve
<1>3. ASSUME NEW l \in Lines, Lose(l)  PROVE  IInv'
  BY <1>3, PlainAnswerKeeps DEF Lose, Status
<1>4. CASE Environment
  BY <1>4, TickKeeps, RestartKeeps DEF Environment
<1>5. CASE UNCHANGED vars
  BY <1>5 DEF vars, IInv, TypeOK, HonestTokens, HandledAreAdmitted, Admitted
<1>. QED  BY <1>1, <1>2, <1>3, <1>4, <1>5, ReceiveKeeps DEF Next

\* A request being handled for a session has the token of one, and is admitted.
LEMMA AuthorisedForSession ==
    ASSUME IInv, NEW l \in Lines, Authorised(l)
    PROVE  /\ request[l].bearer \in Token
           /\ Honest(request[l].bearer, sessions)
           /\ checked[l] <= request[l].bearer.exp
           /\ request[l].bearer.preauth <=> request[l].path = MfaUri
  BY SecuredIsFound DEF IInv, Authorised, HandledAreAdmitted, Admitted, HonestTokens

\* What the invariant says of the request a handler works for is what the two
\* properties say.
LEMMA InvHolds == IInv => TypeOK /\ SecondFactor /\ SessionBounded
<1>. SUFFICES ASSUME IInv PROVE TypeOK /\ SecondFactor /\ SessionBounded
  OBVIOUS
<1>1. TypeOK
  BY DEF IInv
<1>2. SecondFactor
  <2>. SUFFICES ASSUME NEW l \in Lines, Authorised(l), request[l].path # MfaUri
                PROVE  /\ request[l].bearer \in Token
                       /\ sessions[request[l].bearer.sid].mfa =>
                             sessions[request[l].bearer.sid].proven
    BY DEF SecondFactor
  <2>. QED  BY AuthorisedForSession DEF Honest
<1>3. SessionBounded
  <2>. SUFFICES ASSUME NEW l \in Lines, Authorised(l)
                PROVE  LET s == sessions[request[l].bearer.sid]
                       IN  checked[l] <= IF request[l].path = MfaUri THEN FirstEnd(s)
                                         ELSE FullEnd(s)
    BY DEF SessionBounded, FirstEnd, FullEnd
  <2>. DEFINE t == request[l].bearer
              s == sessions[t.sid]
  <2>1. /\ t \in Token /\ checked[l] <= t.exp
        /\ t.sid \in 1..Len(sessions)
        /\ t.exp <= IF t.preauth THEN FirstEnd(s) ELSE FullEnd(s)
        /\ t.preauth <=> request[l].path = MfaUri
    BY AuthorisedForSession DEF Honest
  <2>2. s \in Session /\ checked[l] \in Nat
    BY <1>1, <2>1 DEF TypeOK
  <2>3. t.exp \in Nat /\ FirstEnd(s) \in Nat /\ FullEnd(s) \in Nat
    <3>1. s.late <= s.late
      BY <2>2 DEF Session
    <3>. QED  BY <2>1, <2>2, <3>1, EndsStay DEF Token
  <2>. HIDE DEF t, s
  <2>4. CASE t.preauth
    BY <2>1, <2>2, <2>3, <2>4 DEF t, s
  <2>5. CASE ~t.preauth
    BY <2>1, <2>2, <2>3, <2>5 DEF t, s
  <2>. QED  BY <2>4, <2>5
<1>. QED  BY <1>1, <1>2, <1>3

-----------------------------------------------------------------------------
\* Every value the server holds is of its type: an answer's status is one the
\* code sends, and every token delivered is one get_token can make.
THEOREM TypeCorrect == Spec => []TypeOK
<1>1. IInv => TypeOK
  BY InvHolds
<1>. QED  BY InitHolds, NextKeeps, <1>1, PTL DEF Spec

\* find_handler, validate_token and the handlers of login and TOTP together: no
\* secured resource is handled without the token of a session, nor for one that
\* asked for a second factor before a code was accepted for it, for any patterns
\* registered, any number of connections and tokens, in any order, across
\* restarts that change MFA_ENABLED or JWT_SECRET.
THEOREM SecondFactorHolds == Spec => []SecondFactor
<1>1. IInv => SecondFactor
  BY InvHolds
<1>. QED  BY InitHolds, NextKeeps, <1>1, PTL DEF Spec

\* jwt::get_token, is_valid and validate_totp together: exchanging tokens never
\* makes a session last longer than its login allows, for any lifetimes and
\* any fraction of a second that exp loses.
THEOREM SessionBoundedHolds == Spec => []SessionBounded
<1>1. IInv => SessionBounded
  BY InvHolds
<1>. QED  BY InitHolds, NextKeeps, <1>1, PTL DEF Spec
=============================================================================
