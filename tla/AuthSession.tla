----------------------------- MODULE AuthSession -----------------------------
(* How a request is routed, authorised and handled, and how the tokens come   *)
(* about that authorise it: the routing of src/src/server.cpp, jwt.cpp,       *)
(* mfa.hpp, otp.hpp and the login and TOTP handlers of main_example.cpp.      *)
(*                                                                            *)
(* Requests come over Lines (connections, of browsers or other services), one *)
(* at a time on each; a token may be sent over any line once it was delivered *)
(* over one.  Routing is done by the I/O thread when the request is complete; *)
(* a pool thread authorises it at one reading of the clock (Execute) and the  *)
(* handler ends later, after its database calls, at another.  The process may *)
(* stop and start again, with the same JWT_SECRET or another one, with        *)
(* MFA_ENABLED or without it; tokens outlive it, nothing else does.           *)
(*                                                                            *)
(* Time is counted in ticks; the exp claim is in whole seconds.  A signature  *)
(* is sound: a token exists if the server made it.  API_KEY is set, MFA_URI   *)
(* has its default; /metrics stands for /metricsp and /version too.           *)
EXTENDS Integers, Sequences

CONSTANTS
    Lines,           \* connections of clients
    Timeout,         \* JWT_TIMEOUT_SECONDS
    MfaTimeout,      \* JWT_MFA_TIMEOUT_SECONDS
    TicksPerSecond,
    StepSeconds,     \* otp::Duration, the time one TOTP code is good for
    RegexRoutes,     \* the regex routes, in the order they were registered in
    NoToken,         \* a request without a bearer token
    ApiKey,          \* the bearer token API_KEY
    MaxClock,        \* bound: ticks the clock is followed for
    MaxSessions,     \* bound: sessions a login ever opens
    MaxRestarts      \* bound: times the process starts again

-----------------------------------------------------------------------------
(* A token is its claims and the JWT_SECRET it is signed with.  The claims    *)
(* user, email, roles and sessionId are those of the session sid.             *)
Token == [sid : Nat \ {0}, preauth : BOOLEAN, exp : Nat, secret : Nat]
Bearer == Token \cup {NoToken, ApiKey}

ASSUME TimesAreNat ==
    /\ Timeout \in Nat
    /\ MfaTimeout \in Nat
    /\ TicksPerSecond \in Nat \ {0}
    /\ StepSeconds \in Nat \ {0}

ASSUME NotTokens == NoToken \notin Token /\ ApiKey \notin Token /\ NoToken # ApiKey

-----------------------------------------------------------------------------
(* The internal routes, and those an application registers: literal paths,    *)
(* and patterns, of which only the paths asked for that match are known.      *)
Login == "/login"
MfaUri == "/validate/totp"
Customer == "/customer"
Paths == {Login, MfaUri, Customer}
Internal == {"/metrics", "/ping"}
Unlisted == {"/report", "/nowhere"}
AnyPath == Paths \cup Internal \cup Unlisted

Methods == {"get", "post", "options"}

Endpoint == [path \in Paths |-> [method |-> "post", secure |-> path # Login]]

\* What register_api_regex keeps of a pattern.
RegexRoute == [matches : SUBSET AnyPath, method : Methods \cup {"any"}, secure : BOOLEAN]

ASSUME RoutesAreTyped == RegexRoutes \in Seq(RegexRoute)

(* valid: the parameters satisfy the endpoint's validator.  code: the time    *)
(* step of the TOTP code among them, -1 for a code of no step.                *)
Requests == [path : AnyPath,
             method : Methods,
             originAllowed : BOOLEAN,
             bearer : Bearer,
             valid : BOOLEAN,
             code : Nat \cup {-1}]

NoRequest == [path |-> "/nowhere", method |-> "options", originAllowed |-> TRUE,
              bearer |-> NoToken, valid |-> FALSE, code |-> -1]

VARIABLES
    now,             \* system_clock, in ticks
    secret,          \* JWT_SECRET of the running process
    mfa_enabled,     \* MFA_ENABLED of the running process
    sessions,        \* the sessions logins opened, by sid
    phase,           \* where the request of each line is
    request,         \* that request
    checked,         \* when it was authorised
    reply,           \* its answer
    held,            \* the tokens delivered to clients
    restarts         \* times the process started again

vars == <<now, secret, mfa_enabled, sessions, phase, request, checked, reply, held, restarts>>
service == <<now, secret, mfa_enabled, restarts>>

(* A session as the login left it (when, and whether a second factor was      *)
(* asked for), and what was seen of it since: whether a TOTP code was         *)
(* accepted for it, and the longest a TOTP request took from its              *)
(* authorisation to the new token.                                            *)
Session == [born : Nat, mfa : BOOLEAN, proven : BOOLEAN, late : Nat]

Phases == {"idle", "queued", "handling", "answered"}
Status == {0, 200, 204, 400, 401, 403, 404, 500, 503}
Reply == [status : Status, token : Token \cup {NoToken}]
NoReply == [status |-> 0, token |-> NoToken]

TypeOK ==
    /\ now \in Nat /\ secret \in Nat /\ restarts \in Nat
    /\ mfa_enabled \in BOOLEAN
    /\ sessions \in Seq(Session)
    /\ phase \in [Lines -> Phases]
    /\ request \in [Lines -> Requests]
    /\ checked \in [Lines -> Nat]
    /\ reply \in [Lines -> Reply]
    /\ held \in SUBSET Token

-----------------------------------------------------------------------------
(* jwt.cpp                                                                    *)

\* The lifetime depends on the preauth claim; exp loses the fraction of a second.
FirstLifetime == TicksPerSecond * MfaTimeout
FullLifetime == TicksPerSecond * Timeout
WholeSeconds(t) == t - (t % TicksPerSecond)

get_token(sid, preauth) ==
    [sid |-> sid, preauth |-> preauth,
     exp |-> WholeSeconds(now + IF preauth THEN FirstLifetime ELSE FullLifetime), secret |-> secret]

is_valid(bearer) ==
    /\ bearer \in Token
    /\ bearer.secret = secret
    /\ ~(now > bearer.exp)

(* io_worker::validate_token: the first token opens the MFA URI and nothing   *)
(* else, the second one everything else.                                      *)
\* Bug: the preauth claim is not looked at.
AnyTokenAnywhere(r) == is_valid(r.bearer)
validate_token(r) ==
    /\ is_valid(r.bearer)
    /\ ~(r.bearer.preauth /\ r.path # MfaUri)
    /\ ~(~r.bearer.preauth /\ r.path = MfaUri)

(* otp::is_valid_token with Window::Strict: the code of the current step.     *)
TotpStep(t) == t \div (TicksPerSecond * StepSeconds)
TotpAccepted(r) == r.code = TotpStep(now)

(* mfa.hpp: the claims of the second token are copied without preauth.        *)
\* Bug: preauth is copied with the others.
CopiesEveryClaim(t) == get_token(t.sid, t.preauth)
PostAuthToken(t) == get_token(t.sid, FALSE)

-----------------------------------------------------------------------------
(* api_router::find_handler: the literal path, or else the first pattern that *)
(* matches the path.                                                          *)
Matching(path) == {i \in DOMAIN RegexRoutes : path \in RegexRoutes[i].matches}
Found(path) == path \in Paths \/ Matching(path) # {}
FirstMatch(path) == CHOOSE i \in Matching(path) : \A j \in Matching(path) : i <= j

\* Bug: the patterns are looked at first.
PatternsFirst(path) ==
    IF Matching(path) # {} THEN RegexRoutes[FirstMatch(path)] ELSE Endpoint[path]
find_handler(path) ==
    IF path \in Paths THEN Endpoint[path] ELSE RegexRoutes[FirstMatch(path)]

-----------------------------------------------------------------------------
Init ==
    /\ now = 0
    /\ secret = 0
    /\ restarts = 0
    /\ mfa_enabled \in BOOLEAN
    /\ sessions = <<>>
    /\ phase = [l \in Lines |-> "idle"]
    /\ request = [l \in Lines |-> NoRequest]
    /\ checked = [l \in Lines |-> 0]
    /\ reply = [l \in Lines |-> NoReply]
    /\ held = {}

Answer(l, status, token) ==
    /\ phase' = [phase EXCEPT ![l] = "answered"]
    /\ reply' = [reply EXCEPT ![l] = [status |-> status, token |-> token]]
    /\ request' = [request EXCEPT ![l] = NoRequest]
    /\ checked' = [checked EXCEPT ![l] = 0]

(* io_worker::handle_internal_api                                             *)
InternalStatus(r) == IF r.path = "/metrics" /\ r.bearer # ApiKey THEN 400 ELSE 200

(* io_worker::route_parsed_request: what the I/O thread answers by itself.    *)
RoutedStatus(r) ==
    CASE ~r.originAllowed -> 403
      [] r.originAllowed /\ r.method = "options" -> 204
      [] r.originAllowed /\ r.method # "options" /\ r.path \in Internal -> InternalStatus(r)
      [] OTHER -> 404

ForPool(r) ==
    /\ r.originAllowed /\ r.method # "options"
    /\ r.path \notin Internal
    /\ Found(r.path)

(* A complete request on line l is routed; it may find the pool's queue       *)
(* full.                                                                      *)
Send(l, r) ==
    /\ phase[l] = "idle"
    /\ \/ /\ ForPool(r)
          /\ phase' = [phase EXCEPT ![l] = "queued"]
          /\ request' = [request EXCEPT ![l] = r]
          /\ UNCHANGED <<checked, reply>>
       \/ ForPool(r) /\ Answer(l, 503, NoToken)
       \/ ~ForPool(r) /\ Answer(l, RoutedStatus(r), NoToken)
    /\ UNCHANGED <<service, sessions, held>>

(* validator::validate: every rule of the endpoint finds its parameter, in its *)
(* format and as its predicate wants it; else a validation_error is thrown.   *)
(* The endpoint of a pattern has no rules.                                    *)
Validated(r) == r.path \notin Paths \/ r.valid

(* io_worker::execute_handler up to the handler: method, token, validator.    *)
Execute(l) ==
    LET r == request[l]
        endpoint == find_handler(r.path)
        methodMatches == endpoint.method \in {"any", r.method}
    IN  /\ phase[l] = "queued"
        /\ \/ ~methodMatches /\ Answer(l, 400, NoToken)
           \/ /\ methodMatches
              /\ endpoint.secure /\ ~validate_token(r)
              /\ Answer(l, 401, NoToken)
           \/ /\ methodMatches
              /\ endpoint.secure => validate_token(r)
              /\ ~Validated(r)
              /\ Answer(l, 400, NoToken)
           \/ /\ methodMatches
              /\ endpoint.secure => validate_token(r)
              /\ Validated(r)
              /\ phase' = [phase EXCEPT ![l] = "handling"]
              /\ checked' = [checked EXCEPT ![l] = now]
              /\ UNCHANGED <<request, reply>>
        /\ UNCHANGED <<service, sessions, held>>

\* util::get_uuid: the session id of a login is new.
NewSession == Len(sessions) + 1

(* main_example.cpp: login.  cpp_dblogin refuses the credentials, or the      *)
(* login opens a session with an id of its own.                               *)
HandleLogin(l) ==
    /\ phase[l] = "handling" /\ request[l].path = Login
    /\ \/ Answer(l, 401, NoToken) /\ UNCHANGED sessions
       \/ /\ Len(sessions) < MaxSessions
          /\ sessions' = Append(sessions,
                [born |-> now, mfa |-> mfa_enabled, proven |-> FALSE, late |-> 0])
          /\ Answer(l, 200, get_token(NewSession, mfa_enabled))
    /\ UNCHANGED <<service, held>>

ProvenAfter(s, lateness) ==
    [born |-> s.born, mfa |-> s.mfa, proven |-> TRUE,
     late |-> IF lateness > s.late THEN lateness ELSE s.late]

(* main_example.cpp: validate_totp.  It reads the claims of the token again,  *)
(* without their expiry, and looks up the user's TOTP secret.  A refusal is   *)
(* always possible: the user may have no secret, or the wrong one.            *)
HandleTotp(l) ==
    LET r == request[l]
        t == r.bearer
    IN  /\ phase[l] = "handling" /\ r.path = MfaUri
        /\ \/ Answer(l, IF t.preauth THEN 401 ELSE 403, NoToken) /\ UNCHANGED sessions
           \/ /\ t.preauth /\ TotpAccepted(r)
              /\ sessions' = [sessions EXCEPT ![t.sid] = ProvenAfter(@, now - checked[l])]
              /\ Answer(l, 200, PostAuthToken(t))
        /\ UNCHANGED <<service, held>>

(* main_example.cpp: get_customer: 200, or 404 for no customer.               *)
HandleData(l) ==
    /\ phase[l] = "handling" /\ request[l].path = Customer
    /\ \/ Answer(l, 200, NoToken)
       \/ Answer(l, 404, NoToken)
    /\ UNCHANGED <<service, sessions, held>>

(* main.cpp: the handler of its pattern, which gives the body back.           *)
HandleRegex(l) ==
    /\ phase[l] = "handling" /\ request[l].path \notin Paths
    /\ Answer(l, 200, NoToken)
    /\ UNCHANGED <<service, sessions, held>>

(* An exception of a handler of main_example.cpp, which all call the          *)
(* database, is a 500.                                                        *)
HandlerThrows(l) ==
    /\ phase[l] = "handling" /\ request[l].path \in Paths
    /\ Answer(l, 500, NoToken)
    /\ UNCHANGED <<service, sessions, held>>

(* The answer arrives; status 0 is a request that had none.                   *)
Receive(l) ==
    /\ phase[l] = "answered"
    /\ held' = held \cup ({reply[l].token} \ {NoToken})
    /\ phase' = [phase EXCEPT ![l] = "idle"]
    /\ reply' = [reply EXCEPT ![l] = NoReply]
    /\ UNCHANGED <<service, sessions, request, checked>>

(* The connection breaks, or the client stops waiting: what the handler       *)
(* may still compute reaches nobody.                                          *)
Lose(l) ==
    /\ phase[l] \in {"queued", "handling"}
    /\ Answer(l, 0, NoToken)
    /\ UNCHANGED <<service, sessions, held>>

(* The process starts again with the environment of its deployment.           *)
Restart(rotate, mfa) ==
    /\ restarts < MaxRestarts
    /\ restarts' = restarts + 1
    /\ secret' = IF rotate THEN secret + 1 ELSE secret
    /\ mfa_enabled' = mfa
    /\ phase' = [l \in Lines |-> IF phase[l] = "idle" THEN "idle" ELSE "answered"]
    /\ reply' = [l \in Lines |-> NoReply]
    /\ request' = [l \in Lines |-> NoRequest]
    /\ checked' = [l \in Lines |-> 0]
    /\ UNCHANGED <<now, sessions, held>>

Tick ==
    /\ now < MaxClock
    /\ now' = now + 1
    /\ UNCHANGED <<secret, mfa_enabled, restarts, sessions, phase, request, checked, reply, held>>

-----------------------------------------------------------------------------
(* What a client may send: with any token delivered and the code its user can *)
(* read at that time, what an endpoint expects; or any other request with no  *)
(* token or with the API key.                                                 *)
Codes(path) == IF path = MfaUri THEN {TotpStep(now), -1} ELSE {-1}

Ask(l) ==
    \/ \E path \in Paths \cup Unlisted : \E bearer \in held \cup {NoToken, ApiKey}, code \in Codes(path) :
          Send(l, [path |-> path, method |-> "post", originAllowed |-> TRUE,
                   bearer |-> bearer, valid |-> TRUE, code |-> code])
    \/ \E path \in AnyPath, method \in Methods, originAllowed \in BOOLEAN :
          Send(l, [path |-> path, method |-> method, originAllowed |-> originAllowed,
                   bearer |-> NoToken, valid |-> FALSE, code |-> -1])
    \/ Send(l, [path |-> "/metrics", method |-> "get", originAllowed |-> TRUE,
                bearer |-> ApiKey, valid |-> TRUE, code |-> -1])

Serve(l) == Execute(l) \/ HandleLogin(l) \/ HandleTotp(l) \/ HandleData(l)
            \/ HandleRegex(l) \/ HandlerThrows(l)

Environment == Tick \/ \E rotate, mfa \in BOOLEAN : Restart(rotate, mfa)

Next ==
    \/ \E l \in Lines : Ask(l) \/ Serve(l) \/ Receive(l) \/ Lose(l)
    \/ Environment

Spec == Init /\ [][Next]_vars

-----------------------------------------------------------------------------
(* What the application registered as secured: a literal path, or a pattern   *)
(* before every other that matches the path.                                  *)
Secured(path) ==
    IF path \in Paths THEN Endpoint[path].secure
    ELSE \E i \in Matching(path) :
            RegexRoutes[i].secure /\ \A j \in 1..(i - 1) : j \notin Matching(path)

Authorised(l) == phase[l] = "handling" /\ Secured(request[l].path)

(* A secured resource is handled for a session only, and for one whose login  *)
(* asked for a second factor only after a TOTP code was accepted for it:      *)
(* whatever tokens its user kept, however often the process started again,    *)
(* and whatever patterns match the path too, such as the one that lets        *)
(* everybody in.                                                              *)
SecondFactor ==
    \A l \in Lines :
        Authorised(l) /\ request[l].path # MfaUri =>
            /\ request[l].bearer \in Token
            /\ LET s == sessions[request[l].bearer.sid] IN s.mfa => s.proven

(* A session ends: no second factor is looked at later than MfaTimeout after  *)
(* the login, and no resource is handled later than one Timeout after that,   *)
(* plus what the TOTP handler took: no token can be exchanged for another     *)
(* again and again.                                                           *)
SessionBounded ==
    \A l \in Lines :
        Authorised(l) /\ request[l].bearer \in Token =>
            LET s == sessions[request[l].bearer.sid]
                second == s.born + FirstLifetime
            IN  checked[l] <= IF request[l].path = MfaUri THEN second
                              ELSE (IF s.mfa THEN second ELSE s.born) + s.late + FullLifetime
=============================================================================
