----------------------------- MODULE HttpService -----------------------------
(***************************************************************************)
(* What an I/O worker promises its clients (server.cpp), with no           *)
(* descriptor, event, timer, worker thread or queue in sight: who is       *)
(* admitted, what a client receives and in which order, whom the service   *)
(* may leave while it owes an answer, and what it has done when it stops.  *)
(*                                                                         *)
(* IoWorker implements this module.  Two kinds of clients are promised     *)
(* less: the slow, who do not take a response at once, and the disturbed,  *)
(* whose connection was handed an event of their descriptor's former       *)
(* owner.                                                                  *)
(***************************************************************************)
EXTENDS Naturals, Sequences, FiniteSets

CONSTANTS
    Clients,
    Places,     \* connections at a time
    Frags,      \* fragments of a request
    Pieces,     \* pieces of a response
    Slow

VARIABLES
    link,       \* link[c]: "new", "backlog", "open" or "closed"
    line,       \* clients waiting to be admitted, oldest first
    sent,       \* sent[c]: fragments of requests
    reset,      \* clients that have reset their connection
    answers,    \* answers[c]: pieces of responses that c has received
    accepted,   \* requests that were accepted for execution
    thrown,     \* requests whose task threw
    disturbed,
    phase       \* "serving", "draining", "stopped" or "dead"

serviceVars == <<link, line, sent, reset, answers, accepted, thrown, disturbed, phase>>

ServiceInit ==
    /\ link = [c \in Clients |-> "new"] /\ line = <<>>
    /\ sent = [c \in Clients |-> 0] /\ reset = {}
    /\ answers = [c \in Clients |-> <<>>]
    /\ accepted = {} /\ thrown = {} /\ disturbed = {}
    /\ phase = "serving"

\* Piece i of all that c may receive: the response to what it asked first, then
\* the response to what it asked next.
Piece(c, i) == << <<c, ((i - 1) \div Pieces) + 1>>, ((i - 1) % Pieces) + 1 >>

\* The requests that c has sent whole.
Asked(c) == sent[c] \div Frags

Answered(r) == Pieces * r[2] <= Len(answers[r[1]])

\* Nothing is said of what a slow client receives once it was disturbed.
Garbled(c) == c \in disturbed \cap Slow
-----------------------------------------------------------------------------
(* The clients *)

Arrive(c) ==
    /\ link[c] = "new"
    /\ link' = [link EXCEPT ![c] = "backlog"] /\ line' = Append(line, c)
    /\ UNCHANGED <<sent, reset, answers, accepted, thrown, disturbed, phase>>

Present(c) == link[c] \in {"backlog", "open"} /\ c \notin reset

Ask(c) ==
    /\ Present(c)
    /\ sent' = [sent EXCEPT ![c] = @ + 1]
    /\ UNCHANGED <<link, line, reset, answers, accepted, thrown, disturbed, phase>>

Reset(c) ==
    /\ Present(c)
    /\ reset' = reset \cup {c}
    /\ UNCHANGED <<link, line, sent, answers, accepted, thrown, disturbed, phase>>
-----------------------------------------------------------------------------
(* The service *)

\* First come, first admitted, or turned away if the registration fails.
Admit ==
    /\ phase = "serving" /\ line # <<>>
    /\ Cardinality({c \in Clients : link[c] = "open"}) < Places
    /\ \E l \in {"open", "closed"} : link' = [link EXCEPT ![Head(line)] = l]
    /\ line' = Tail(line)
    /\ UNCHANGED <<sent, reset, answers, accepted, thrown, disturbed, phase>>

\* A client that is owed the answer to an accepted request is left only after it
\* has reset the connection, unless it is slow or disturbed.
MayLeave(c) ==
    \/ c \in reset \cup Slow \cup disturbed'
    \/ \A r \in accepted' \ thrown : r[1] = c => Answered(r)'

\* What a step may do besides to the connection it is about: hand it another's
\* event, and close it.
Besides(c) ==
    /\ link[c] = "open"
    /\ disturbed' \in {disturbed, disturbed \cup {c}}
    /\ \/ UNCHANGED link
       \/ link' = [link EXCEPT ![c] = "closed"] /\ MayLeave(c)
    /\ UNCHANGED <<line, sent, reset, thrown, phase>>

\* c receives the next n pieces.
Receive(c, n) ==
    answers' = [answers EXCEPT ![c] =
                    IF Garbled(c)' THEN <<>> ELSE @ \o [i \in 1..n |-> Piece(c, Len(@) + i)]]

\* Responses go to clients that have sent a whole request.
Give(c, n) ==
    /\ phase \in {"serving", "draining"}
    /\ Garbled(c)' \/ Len(answers[c]) + n <= Pieces * Asked(c)
    /\ Receive(c, n)
    /\ Besides(c)
    /\ UNCHANGED accepted

\* The request that c has sent last is accepted, once, and after all its former
\* requests have been answered whole.
Take(c) ==
    /\ phase = "serving"
    /\ <<c, Asked(c)>> \notin accepted
    /\ Garbled(c)' \/ Len(answers[c]) = Pieces * (Asked(c) - 1)
    /\ accepted' = accepted \cup {<<c, Asked(c)>>}
    /\ Receive(c, 0)
    /\ Besides(c)

\* The timer closes connections.
Reap(S) ==
    /\ phase = "serving"
    /\ \A c \in S : link[c] = "open" /\ MayLeave(c)
    /\ link' = [c \in Clients |-> IF c \in S THEN "closed" ELSE link[c]]
    /\ UNCHANGED <<line, sent, reset, answers, accepted, thrown, disturbed, phase>>

Throw(r) ==
    /\ r \in accepted \ thrown
    /\ thrown' = thrown \cup {r}
    /\ UNCHANGED <<link, line, sent, reset, answers, accepted, disturbed, phase>>

Stop ==
    /\ phase = "serving" /\ phase' = "draining"
    /\ UNCHANGED <<link, line, sent, reset, answers, accepted, thrown, disturbed>>

\* All that was accepted has been answered, but for those it may be denied to.
End ==
    /\ phase = "draining" /\ phase' = "stopped"
    /\ \A r \in accepted \ thrown : Answered(r) \/ r[1] \in reset \cup Slow \cup disturbed
    /\ UNCHANGED <<link, line, sent, reset, answers, accepted, thrown, disturbed>>

\* The process dies of a connection that was handed another's event.
Die ==
    /\ phase = "serving" /\ phase' = "dead"
    /\ \E c \in disturbed : link[c] = "open"
    /\ UNCHANGED <<link, line, sent, reset, answers, accepted, thrown, disturbed>>
-----------------------------------------------------------------------------
ServiceNext ==
    \/ \E c \in Clients :
           \/ Arrive(c) \/ Ask(c) \/ Reset(c) \/ Take(c)
           \/ \E n \in 0..Pieces : Give(c, n)
    \/ Admit
    \/ \E S \in SUBSET Clients : Reap(S)
    \/ \E r \in accepted : Throw(r)
    \/ Stop \/ End \/ Die

ServiceSafety == ServiceInit /\ [][ServiceNext]_serviceVars
=============================================================================
