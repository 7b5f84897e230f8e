----------------------------- MODULE HttpExchange -----------------------------
(***************************************************************************)
(* A node that calls another node's server: httpGet and httpPost on one    *)
(* side, the route table on the other, other clients between.  The network *)
(* (external) delivers a request and its answer in pieces, and may break a *)
(* connection, or outlast the client's timeout, at any moment: the server  *)
(* may still handle a request that its client has given up.                *)
(*                                                                         *)
(* The specification's parts are named Exchange..., so that HttpProofs can *)
(* extend this module and HttpServer.                                      *)
(***************************************************************************)
EXTENDS Integers, SequencesExt, FiniteSets

CONSTANTS
    Paths, Handlers, NoHandler, Codes, MAX_ROUTES, InboxMax,
    BodyMax,
    AnswerBodies,       \* the lengths of answered bodies
    MaxCalls            \* bound of the client's calls

ASSUME ExchangeAssumption ==
    /\ NoHandler \notin Handlers
    /\ Codes \subseteq 200 .. 599
    /\ MAX_ROUTES \in Nat /\ InboxMax \in Nat \ {0}
    /\ BodyMax \in Nat /\ AnswerBodies \subseteq Nat /\ MaxCalls \in Nat

VARIABLES
    running, wildcards, routes, notFoundHandler, inbox,     \* the server
    performing, result,                                     \* the client
    calls,              \* the number of the client's last call
    conn,               \* its connection: the answer, once there is one, and
                        \* how much of the body has been received
    servedBy,           \* history: the route handler each request last met
    ran                 \* history: how often this call's handler ran

Server == INSTANCE HttpRoutes
Client == INSTANCE HttpClient

serverSide   == <<running, wildcards, routes, notFoundHandler, inbox>>
client       == <<performing, result>>
network      == <<calls, conn>>
record       == <<servedBy, ran>>
exchangeVars == <<serverSide, client, network, record>>

(* Requests of the client's calls, or (call 0) of others.                  *)
Request == [call : 0 .. MaxCalls, method : Server!Methods, path : Paths]

(* The bytes of a body say whose they are.                                 *)
BodyOf(call, n) == [i \in 1 .. n |-> <<call, i>>]

Closed == [open |-> FALSE, answers |-> {}, body |-> <<>>, got |-> 0]
Opened == [Closed EXCEPT !.open = TRUE]

ExchangeTypeOK ==
    /\ Server!TypeOK
    /\ Client!TypeOK
    /\ inbox \subseteq Request
    /\ calls \in 0 .. MaxCalls
    /\ conn.open \in BOOLEAN
    /\ Cardinality(conn.answers) <= 1
    /\ conn.got \in 0 .. Len(conn.body)
    /\ servedBy \in [Server!Methods \X Paths -> Server!MaybeHandler]
    /\ ran \in 0 .. 1

ExchangeInit ==
    /\ Server!Init /\ Client!Init
    /\ calls = 0 /\ conn = Closed
    /\ servedBy = [k \in Server!Methods \X Paths |-> NoHandler]
    /\ ran = 0
-----------------------------------------------------------------------------
(* A stop loses the requests that are not answered.                        *)
ServerSetup ==
    /\ Server!Setup
    /\ conn' = IF ~running' /\ conn.answers = {} THEN Closed ELSE conn
    /\ UNCHANGED <<client, calls, record>>

(* httpGet or httpPost.                                                    *)
HttpCall(m, p) ==
    /\ m \in {"GET", "POST"}
    /\ calls < MaxCalls
    /\ Client!Call
    /\ calls' = calls + 1 /\ ran' = 0
    /\ \/ /\ Server!Receive([call |-> calls', method |-> m, path |-> p])
          /\ conn' = Opened
       \/ conn' = Closed /\ UNCHANGED serverSide   \* nobody listens
    /\ UNCHANGED servedBy

HttpCallRefused ==
    /\ calls < MaxCalls
    /\ Client!CallRefused
    /\ calls' = calls + 1 /\ ran' = 0
    /\ conn' = Closed
    /\ UNCHANGED <<serverSide, servedBy>>

OtherRequest(m, p) ==
    /\ Server!Receive([call |-> 0, method |-> m, path |-> p])
    /\ UNCHANGED <<client, network, record>>

ThisCall(r) == r.call = calls /\ r.call # 0

(* httpd handles a request, and the answer has a body of n bytes.          *)
HandleRequest(r, n) ==
    \E a \in Server!Answers(r) :
        /\ Server!Handle(r)
        /\ conn' = IF ThisCall(r) /\ conn.open
                   THEN [conn EXCEPT !.answers = {a},
                                     !.body = BodyOf(r.call, n)]
                   ELSE conn
        /\ ran' = IF ThisCall(r) /\ a.by # NoHandler THEN ran + 1 ELSE ran
        /\ servedBy' = IF Server!Matches(r.method, r.path) # {} /\ a.by # NoHandler
                       THEN [servedBy EXCEPT ![<<r.method, r.path>>] = a.by]
                       ELSE servedBy
        /\ UNCHANGED <<client, calls>>

(* A piece of the answer's body.                                           *)
DataArrives(k) ==
    /\ conn.answers # {} /\ conn.got + k <= Len(conn.body)
    /\ Client!OnData(SubSeq(conn.body, conn.got + 1, conn.got + k))
    /\ conn' = [conn EXCEPT !.got = @ + k]
    /\ UNCHANGED <<serverSide, calls, record>>

AnswerComplete ==
    /\ conn.got = Len(conn.body)
    /\ \E a \in conn.answers : Client!Performed(a.status)
    /\ UNCHANGED <<serverSide, network, record>>

(* The connection breaks, or connect, read or the whole takes too long.    *)
CallFails ==
    /\ Client!PerformFails
    /\ conn' = Closed
    /\ UNCHANGED <<serverSide, calls, record>>

ExchangeNext ==
    \/ ServerSetup
    \/ \E m \in Server!Methods, p \in Paths :
          HttpCall(m, p) \/ OtherRequest(m, p)
    \/ HttpCallRefused
    \/ \E r \in inbox, n \in AnswerBodies : HandleRequest(r, n)
    \/ \E k \in AnswerBodies \ {0} : DataArrives(k)
    \/ AnswerComplete \/ CallFails

ExchangeSpec == ExchangeInit /\ [][ExchangeNext]_exchangeVars
-----------------------------------------------------------------------------
(***************************************************************************)
(* Properties.                                                             *)
(***************************************************************************)
Returned == calls > 0 /\ ~performing

(* A call that reports success had its request handled, once, and by the   *)
(* answer of this call: an answer of an earlier call that timed out is not *)
(* taken for it, and one that says 400, 404 or 500 is no success.  A call  *)
(* that reports failure may have been handled, too, but never twice.       *)
SuccessEarned ==
    (Returned /\ result.success) =>
        /\ ran = 1
        /\ \A a \in conn.answers : a.code \notin Server!KnownCodes \ {200}

(* The body is what this call's server sent, from its start and without a  *)
(* gap, and all of it that fits unless the call failed ("truncated if      *)
(* larger"), in whatever pieces it came.                                   *)
BodyFaithful ==
    /\ IsPrefix(result.body, BodyOf(calls, Len(result.body)))
    /\ (Returned /\ result.statusCode # 0) =>
          Len(result.body) = IF Len(conn.body) < BodyMax THEN Len(conn.body)
                                                         ELSE BodyMax

(* A request that a route has served is served by the same handler for     *)
(* ever: routes registered later, again after a restart of the server or   *)
(* over a full table, take nothing from it.                                *)
RoutesKept ==
    [][\A k \in DOMAIN servedBy :
          servedBy[k] # NoHandler => servedBy'[k] = servedBy[k]]_exchangeVars

(* No handler of the application is special.                               *)
HandlerSymmetry == Permutations(Handlers)
=============================================================================
