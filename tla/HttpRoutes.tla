------------------------------ MODULE HttpRoutes ------------------------------
(***************************************************************************)
(* src/http/http_server.cpp: the route table and the dispatch of requests. *)
(*                                                                         *)
(* The application registers its routes and then calls ready(), which      *)
(* makes httpd pass requests to generic_handler; it may stop the server    *)
(* and start it again.  httpd handles one request at a time, in a task of  *)
(* its own.  What a route handler does is the application's: here, it      *)
(* answers with one of Codes.                                              *)
(***************************************************************************)
EXTENDS Integers, Sequences, FiniteSetsExt

CONSTANTS
    Paths,              \* the paths of routes and requests
    Handlers,           \* the application's route handlers
    NoHandler,          \* a null pointer
    Codes,              \* the status codes handlers answer with
    MAX_ROUTES,         \* 40 in the code
    InboxMax            \* bound: requests that httpd has not handled

VARIABLES
    running,            \* impl_ and s_instance are set
    wildcards,          \* the methods that httpd passes to generic_handler
    routes,             \* routes_, up to routeCount_
    notFoundHandler,
    inbox               \* requests on httpd's sockets

table  == <<routes, notFoundHandler>>
server == <<running, wildcards, table, inbox>>

Methods == {"GET", "POST", "PUT", "DELETE_"}
Route   == [method : Methods, path : Paths, handler : Handlers]
MaybeHandler == Handlers \cup {NoHandler}

TypeOK ==
    /\ running \in BOOLEAN
    /\ wildcards \in SUBSET Methods
    /\ routes \in Seq(Route) /\ Len(routes) <= MAX_ROUTES
    /\ notFoundHandler \in MaybeHandler
    /\ Cardinality(inbox) <= InboxMax

Init ==
    /\ running = FALSE /\ wildcards = {}
    /\ routes = <<>> /\ notFoundHandler = NoHandler
    /\ inbox = {}
-----------------------------------------------------------------------------
(***************************************************************************)
(* The application's set-up, in any order, again after every stop().       *)
(***************************************************************************)
Start ==
    /\ ~running
    /\ running' = TRUE
    /\ UNCHANGED <<wildcards, table, inbox>>

(* Routes come before ready(), so that no request finds the table changing.*)
SettingUp == running /\ wildcards = {}

RoomForRoute == Len(routes) < MAX_ROUTES

(* route(): a table that is full stays as it is, and only the log tells.   *)
RegisterRoute(m, p, h) ==
    /\ SettingUp
    /\ routes' = IF RoomForRoute
                 THEN Append(routes, [method |-> m, path |-> p, handler |-> h])
                 ELSE routes
    /\ UNCHANGED <<running, wildcards, notFoundHandler, inbox>>

SetNotFoundHandler(h) ==
    /\ SettingUp
    /\ notFoundHandler' = h
    /\ UNCHANGED <<running, wildcards, routes, inbox>>

(* No wildcard is registered for DELETE_.                                  *)
Ready ==
    /\ SettingUp
    /\ wildcards' = {"GET", "POST", "PUT"}
    /\ UNCHANGED <<running, table, inbox>>

(* httpd closes its sockets; the table is kept.                            *)
Stop ==
    /\ running
    /\ running' = FALSE /\ wildcards' = {} /\ inbox' = {}
    /\ UNCHANGED table
-----------------------------------------------------------------------------
(***************************************************************************)
(* generic_handler.                                                        *)
(***************************************************************************)
Matches(m, p) ==
    {i \in DOMAIN routes : routes[i].method = m /\ routes[i].path = p}

(* Mutant of Chosen: the search does not stop at the first match.          *)
ChosenLast(matches) == Max(matches)

Chosen(matches) == Min(matches)

HandlerFor(m, p) ==
    IF Matches(m, p) # {} THEN routes[Chosen(Matches(m, p))].handler
                          ELSE notFoundHandler

(* HttpRequest::send knows four status lines, and sends "200 OK" for a     *)
(* code that is none of them.                                              *)
KnownCodes == {200, 400, 404, 500}
SentStatus(code) == IF code \in KnownCodes THEN code ELSE 200

(* The answers to r: httpd's own to a method nobody registered, the        *)
(* default for a path without a handler, or a handler's.                   *)
Answer(by, code, status) == [by |-> by, code |-> code, status |-> status]

Answers(r) ==
    LET h == HandlerFor(r.method, r.path) IN
    IF wildcards = {} THEN {Answer(NoHandler, 404, 404)}
    ELSE IF r.method \notin wildcards THEN {Answer(NoHandler, 405, 405)}
    ELSE IF h = NoHandler THEN {Answer(NoHandler, 404, 404)}
    ELSE {Answer(h, c, SentStatus(c)) : c \in Codes}

Receive(r) ==
    /\ running /\ Cardinality(inbox) < InboxMax
    /\ inbox' = inbox \cup {r}
    /\ UNCHANGED <<running, wildcards, table>>

Handle(r) ==
    /\ running /\ r \in inbox
    /\ inbox' = inbox \ {r}
    /\ UNCHANGED <<running, wildcards, table>>
-----------------------------------------------------------------------------
Setup ==
    \/ Start \/ Ready \/ Stop
    \/ \E m \in Methods, p \in Paths, h \in Handlers : RegisterRoute(m, p, h)
    \/ \E h \in Handlers : SetNotFoundHandler(h)
=============================================================================
