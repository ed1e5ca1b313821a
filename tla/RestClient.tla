------------------------------ MODULE RestClient ------------------------------
(* RemoteCustomerService of src/src/restclient.hpp over http_client.cpp: pool *)
(* threads of one process that call the API of another process of this        *)
(* program (AuthSession), each with a thread_local connection and a           *)
(* thread_local session token.  The clocks of the two machines differ.        *)
(*                                                                            *)
(* One call of get_customer_info is Begin (the cache is read, and one request *)
(* sent), after a login LoginAnswered and PostCustomer, then CustomerAnswered.*)
(* perform_request waits for the whole answer; an answer with status 0 is a   *)
(* curl_exception.                                                            *)
EXTENDS AuthSession

CONSTANT MaxSkew     \* how far the clocks of the two machines may be apart

ASSUME SkewIsNat == MaxSkew \in Nat

Skews == -MaxSkew..MaxSkew

VARIABLES
    skew,            \* what the caller's clock is ahead of the service's
    client,          \* where get_customer_info of each thread is
    session,         \* m_session of each thread
    obtained,        \* the tokens each thread got from a login
    refused          \* those it was answered 401 for

clientVars == <<skew, client, session, obtained, refused>>
allVars == <<vars, clientVars>>

Threads == Lines
LocalClock == now + skew

ClientTypeOK ==
    /\ skew \in Skews
    /\ client \in [Threads -> {"idle", "login", "loggedIn", "customer"}]
    /\ session \in [Threads -> [token : Token \cup {NoToken}, expires_at : Nat]]
    /\ obtained \in [Threads -> SUBSET Token]
    /\ refused \in [Threads -> SUBSET Token]

ClientInit ==
    /\ Init
    /\ skew \in Skews
    /\ client = [t \in Threads |-> "idle"]
    /\ session = [t \in Threads |-> [token |-> NoToken, expires_at |-> 0]]
    /\ obtained = [t \in Threads |-> {}]
    /\ refused = [t \in Threads |-> {}]

-----------------------------------------------------------------------------
Post(path, bearer) ==
    [path |-> path, method |-> "post", originAllowed |-> TRUE,
     bearer |-> bearer, valid |-> TRUE, code |-> -1]

\* The cache of login_and_get_token.
Cached(t) == session[t].token # NoToken /\ LocalClock < session[t].expires_at

Goto(t, where) == client' = [client EXCEPT ![t] = where]

(* get_customer_info: with the cached token, or after a login.                *)
Begin(t) ==
    /\ client[t] = "idle"
    /\ IF Cached(t)
         THEN Send(t, Post(Customer, session[t].token)) /\ Goto(t, "customer")
         ELSE Send(t, Post(Login, NoToken)) /\ Goto(t, "login")
    /\ UNCHANGED <<skew, session, obtained, refused>>

(* The session as a successful login leaves it: exp is read from the claims.  *)
\* Bug: expires_at is not assigned.
ExpiryForgotten(token) == [token |-> token, expires_at |-> 0]
SessionOf(token) == [token |-> token, expires_at |-> token.exp]

(* login_and_get_token, once the login is answered: anything but 200 throws   *)
(* RemoteServiceError, and leaves the session as it was.                      *)
LoginAnswered(t) ==
    /\ client[t] = "login"
    /\ Receive(t)
    /\ \/ /\ reply[t].status = 200
          /\ session' = [session EXCEPT ![t] = SessionOf(reply[t].token)]
          /\ obtained' = [obtained EXCEPT ![t] = @ \cup {reply[t].token}]
          /\ Goto(t, "loggedIn")
       \/ /\ reply[t].status # 200
          /\ Goto(t, "idle")
          /\ UNCHANGED <<session, obtained>>
    /\ UNCHANGED <<skew, refused>>

PostCustomer(t) ==
    /\ client[t] = "loggedIn"
    /\ Send(t, Post(Customer, session[t].token))
    /\ Goto(t, "customer")
    /\ UNCHANGED <<skew, session, obtained, refused>>

\* After a 401 the next call logs in again; expires_at is left as it was.
\* Bug: the token is kept after a 401.
SessionKept(t, status) == session[t]
SessionAfter(t, status) ==
    IF status = 401 THEN [session[t] EXCEPT !.token = NoToken] ELSE session[t]

(* get_customer_info, once the call is answered: anything but 200 throws.     *)
CustomerAnswered(t) ==
    /\ client[t] = "customer"
    /\ Receive(t)
    /\ session' = [session EXCEPT ![t] = SessionAfter(t, reply[t].status)]
    /\ refused' = [refused EXCEPT ![t] =
                     IF reply[t].status = 401 THEN @ \cup {session[t].token} ELSE @]
    /\ Goto(t, "idle")
    /\ UNCHANGED <<skew, obtained>>

ClientNext ==
    \/ \E t \in Threads :
          Begin(t) \/ LoginAnswered(t) \/ PostCustomer(t) \/ CustomerAnswered(t)
    \/ (Environment \/ \E t \in Threads : Serve(t) \/ Lose(t)) /\ UNCHANGED clientVars

ClientSpec == ClientInit /\ [][ClientNext]_allVars

-----------------------------------------------------------------------------
\* The customer call t has under way.
CustomerCall(t) == phase[t] \in {"queued", "handling"} /\ request[t].path = Customer

(* A token the service refused is never sent to it again by the thread that   *)
(* was refused: after its secret changed, or when the clocks disagree about   *)
(* the expiry, a thread fails one call and not every call until the expiry.   *)
RefusedTokenDropped ==
    \A t \in Threads : CustomerCall(t) => request[t].bearer \notin refused[t]

(* A thread logs in only when every token it ever obtained has expired by its *)
(* own clock or was refused: one login serves all calls in between, those     *)
(* that failed for another reason included.                                   *)
LoginStarts(t) == client[t] = "idle" /\ client'[t] = "login"
NoNeedlessLogin ==
    [][\A t \in Threads : LoginStarts(t) =>
          \A token \in obtained[t] : token \in refused[t] \/ LocalClock >= token.exp]_allVars
=============================================================================
