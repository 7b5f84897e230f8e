----------------------------- MODULE HttpServer -----------------------------
(***************************************************************************)
(* src/http/http_server.cpp: the list of WebSocket clients and the life of *)
(* the server.                                                             *)
(*                                                                         *)
(* ESP-IDF's httpd runs the request handlers and on_close in a task of its *)
(* own; wsBroadcast and wsPing run in whatever task the application calls  *)
(* them from.  Both change wsClientFds_ and wsClientCount_, which nothing  *)
(* guards.  Every access to them is a step here.  With concurrent the      *)
(* steps of the tasks interleave; without it the application broadcasts    *)
(* from its request handlers, so that one operation ends before the next   *)
(* begins.                                                                 *)
(***************************************************************************)
EXTENDS Integers, FiniteSets

CONSTANTS
    Fds,                \* the sockets httpd may have open: MAX_WS_CLIENTS + 4
    NoFd,               \* an element of wsClientFds_ that was never written
    MAX_WS_CLIENTS,
    Httpd, Senders,     \* httpd's task, the tasks that broadcast
    Modes               \* the values of concurrent that a run considers

ASSUME ServerAssumption ==
    /\ NoFd \notin Fds
    /\ MAX_WS_CLIENTS \in Nat \ {0}
    /\ Httpd \notin Senders
    /\ Modes \subseteq BOOLEAN

VARIABLES
    phase,              \* impl_ is null, set, or about to be freed by stop()
    handlers,           \* the handlers registered with httpd
    wsClientFds, wsClientCount,
    session,            \* what httpd has on each socket
    call,               \* where each task is, and its local variables
    concurrent,
    excused,            \* history: clients that no broadcast need reach
    due, tried          \* history: the clients a broadcast began with, and
                        \* those it sent to

list    == <<wsClientFds, wsClientCount>>
server  == <<phase, handlers, concurrent>>
history == <<excused, due, tried>>
vars    == <<server, list, session, call, history>>

Tasks == Senders \cup {Httpd}
Slots == 0 .. MAX_WS_CLIENTS - 1
Descriptors == Fds \cup {NoFd}

(* seen is a reading of wsClientCount_ that is about to be stored back, at *)
(* a broadcast's index, next where httpd_ws_disconnect returns to.         *)
Call == [pc : {"idle", "known", "append", "find", "shift", "drop", "close",
               "send", "failed"},
         fd : Descriptors, idx : Nat, seen : Int, at : Int,
         next : {"idle", "close", "send"}]

CallAt(label, f, i, return) ==
    [pc |-> label, fd |-> f, idx |-> 0, seen |-> 0, at |-> i, next |-> return]

Idle          == CallAt("idle", NoFd, -1, "idle")
Closing(f)    == CallAt("close", f, -1, "idle")
Connecting(f) == CallAt("known", f, -1, "idle")
Sending(i)    == CallAt("send", NoFd, i, "idle")

TypeOK ==
    /\ phase \in {"off", "on", "stopping"}
    /\ handlers \in SUBSET {"websocket", "wildcard"}
    /\ wsClientFds \in [Slots -> Descriptors]
    /\ wsClientCount \in Int /\ wsClientCount <= MAX_WS_CLIENTS
    /\ session \in [Fds -> {"none", "http", "ws"}]
    /\ call \in [Tasks -> Call]
    /\ concurrent \in BOOLEAN
    /\ excused \in SUBSET Fds
    /\ due \in [Senders -> SUBSET Descriptors]
    /\ tried \in [Senders -> SUBSET Descriptors]

At(t, label) == call[t].pc = label
AllIdle      == \A t \in Tasks : At(t, "idle")
SendersIdle  == \A s \in Senders : At(s, "idle")

(* A task takes a step: any time, or only while no other is in the middle  *)
(* of something.                                                           *)
MayRun(t) == concurrent \/ \A u \in Tasks \ {t} : At(u, "idle")

Listed == {wsClientFds[i] : i \in 0 .. wsClientCount - 1}

Become(t, c)    == call' = [call EXCEPT ![t] = c]
Goto(t, label)  == call' = [call EXCEPT ![t].pc = label]
NextIndex(t)    == call' = [call EXCEPT ![t].idx = @ + 1]
Read(t, label)  == call' = [call EXCEPT ![t].pc = label,
                                        ![t].seen = wsClientCount]
-----------------------------------------------------------------------------
Init ==
    /\ phase = "off" /\ handlers = {} /\ concurrent \in Modes
    /\ wsClientFds = [i \in Slots |-> NoFd] /\ wsClientCount = 0
    /\ session = [f \in Fds |-> "none"]
    /\ call = [t \in Tasks |-> Idle]
    /\ excused = {}
    /\ due = [s \in Senders |-> {}] /\ tried = [s \in Senders |-> {}]

(***************************************************************************)
(* The application sets the server up and stops it while none of its tasks *)
(* broadcasts.                                                             *)
(***************************************************************************)
Start ==
    /\ SendersIdle
    /\ phase = "off"
    /\ phase' = "on"
    /\ UNCHANGED <<handlers, concurrent, list, session, call, history>>

(* httpd refuses a path that a registered handler matches already, so the  *)
(* wildcard must come last.                                                *)
EnableWebSocket ==
    /\ SendersIdle
    /\ phase = "on"
    /\ handlers = {}
    /\ handlers' = {"websocket"}
    /\ UNCHANGED <<phase, concurrent, list, session, call, history>>

Ready ==
    /\ SendersIdle
    /\ phase = "on"
    /\ "wildcard" \notin handlers
    /\ handlers' = handlers \cup {"wildcard"}
    /\ UNCHANGED <<phase, concurrent, list, session, call, history>>

(* stop() waits in httpd_stop until httpd has closed every session ...     *)
Stop ==
    /\ SendersIdle
    /\ phase = "on"
    /\ phase' = "stopping"
    /\ UNCHANGED <<handlers, concurrent, list, session, call, history>>

(* ... and then forgets the server and its clients.                        *)
Stopped ==
    /\ SendersIdle /\ At(Httpd, "idle")
    /\ phase = "stopping"
    /\ \A f \in Fds : session[f] = "none"
    /\ phase' = "off"
    /\ handlers' = {}
    /\ wsClientCount' = 0
    /\ UNCHANGED <<concurrent, wsClientFds, session, call, history>>
-----------------------------------------------------------------------------
(***************************************************************************)
(* httpd's task.                                                           *)
(***************************************************************************)
HttpdFree == At(Httpd, "idle") /\ MayRun(Httpd)

Accept(f) ==
    /\ HttpdFree /\ phase = "on"
    /\ session[f] = "none"
    /\ session' = [session EXCEPT ![f] = "http"]
    /\ UNCHANGED <<server, list, call, history>>

(* Mutant of ListFull: one client too many is taken.                       *)
ListFullLate == wsClientCount > MAX_WS_CLIENTS

ListFull == wsClientCount >= MAX_WS_CLIENTS

(* The WebSocket handshake: ws_handler calls httpd_ws_connect, which takes *)
(* nobody into a full list but lets the connection live.                   *)
Upgrade(f) ==
    /\ HttpdFree /\ phase = "on"
    /\ session[f] = "http" /\ "websocket" \in handlers
    /\ session' = [session EXCEPT ![f] = "ws"]
    /\ IF ListFull
       THEN excused' = excused \cup {f} /\ UNCHANGED call
       ELSE /\ Become(Httpd, Connecting(f))
            /\ UNCHANGED excused
    /\ UNCHANGED <<server, list, due, tried>>

(* Is the client listed already?  If not, it is appended.                  *)
Known ==
    /\ At(Httpd, "known") /\ MayRun(Httpd)
    /\ LET i == call[Httpd].idx IN
       IF i >= wsClientCount THEN Read(Httpd, "append")
       ELSE IF wsClientFds[i] = call[Httpd].fd THEN Become(Httpd, Idle)
       ELSE NextIndex(Httpd)
    /\ UNCHANGED <<server, list, session, history>>

(* wsClientFds_[wsClientCount_++] = fd.  After a lost race the count may   *)
(* be negative; the write then falls outside the array.                    *)
AppendClient ==
    /\ At(Httpd, "append") /\ MayRun(Httpd)
    /\ wsClientFds' = [i \in Slots |-> IF i = call[Httpd].seen
                                       THEN call[Httpd].fd ELSE wsClientFds[i]]
    /\ wsClientCount' = call[Httpd].seen + 1
    /\ Become(Httpd, Idle)
    /\ UNCHANGED <<server, session, history>>

(* httpd_ws_disconnect(f) is called by t, which goes on at label.          *)
Disconnect(t, f, label, i) ==
    Become(t, CallAt("find", f, i, label))

(* A close frame of a client.                                              *)
CloseFrame(f) ==
    /\ HttpdFree /\ phase = "on"
    /\ session[f] = "ws"
    /\ Disconnect(Httpd, f, "idle", -1)
    /\ excused' = excused \cup {f}
    /\ UNCHANGED <<server, list, session, due, tried>>

(* Mutant of OnClose: the client is not taken off the list.                *)
OnCloseUnlisted(f) ==
    /\ HttpdFree
    /\ session[f] # "none"
    /\ Become(Httpd, Closing(f))
    /\ UNCHANGED <<server, list, session, history>>

(* on_close(f): httpd ends a session, because the peer did or in stop().   *)
OnClose(f) ==
    /\ HttpdFree
    /\ session[f] # "none"
    /\ Disconnect(Httpd, f, "close", -1)
    /\ UNCHANGED <<server, list, session, history>>

(* close(sockfd): the number can be that of another connection from now on.*)
Close ==
    /\ At(Httpd, "close") /\ MayRun(Httpd)
    /\ session' = [session EXCEPT ![call[Httpd].fd] = "none"]
    /\ excused' = excused \ {call[Httpd].fd}
    /\ Become(Httpd, Idle)
    /\ UNCHANGED <<server, list, due, tried>>
-----------------------------------------------------------------------------
(***************************************************************************)
(* httpd_ws_disconnect, in either task.                                    *)
(***************************************************************************)
Return(t) ==
    Become(t, CASE call[t].next = "idle" -> Idle
                [] call[t].next = "close" -> Closing(call[t].fd)
                [] call[t].next = "send" -> Sending(call[t].at))

Find(t) ==
    /\ At(t, "find") /\ MayRun(t)
    /\ LET i == call[t].idx IN
       IF i >= wsClientCount THEN Return(t)
       ELSE IF wsClientFds[i] = call[t].fd THEN Goto(t, "shift")
       ELSE NextIndex(t)
    /\ UNCHANGED <<server, list, session, history>>

(* Mutant of MoreToShift: the last client is not moved down.               *)
MoreToShiftButLast(i) == i < wsClientCount - 2

MoreToShift(i) == i < wsClientCount - 1

Shift(t) ==
    /\ At(t, "shift") /\ MayRun(t)
    /\ LET i == call[t].idx IN
       IF MoreToShift(i)
       THEN /\ wsClientFds' = [wsClientFds EXCEPT ![i] = wsClientFds[i + 1]]
            /\ NextIndex(t)
       ELSE Read(t, "drop") /\ UNCHANGED wsClientFds
    /\ UNCHANGED <<server, wsClientCount, session, history>>

(* --wsClientCount_, a store of a value read before.                       *)
Drop(t) ==
    /\ At(t, "drop") /\ MayRun(t)
    /\ wsClientCount' = call[t].seen - 1
    /\ Return(t)
    /\ UNCHANGED <<server, wsClientFds, session, history>>
-----------------------------------------------------------------------------
(***************************************************************************)
(* wsBroadcast and wsPing, which differ in the frame only.                 *)
(***************************************************************************)
WsBroadcast(s) ==
    /\ At(s, "idle") /\ MayRun(s)
    /\ phase = "on" /\ wsClientCount # 0
    /\ Become(s, Sending(wsClientCount - 1))
    /\ due' = [due EXCEPT ![s] = Listed]
    /\ UNCHANGED <<server, list, session, excused, tried>>

(* Mutant of MoreToSend: the loop ends before the first client.            *)
MoreToSendButFirst(i) == i > 0

(* The loop runs down, so a removal moves only clients it has sent to.     *)
MoreToSend(i) == i >= 0

(* A send fails on a closed socket, and may fail on any other.             *)
Send(s) ==
    /\ At(s, "send") /\ MayRun(s)
    /\ MoreToSend(call[s].at)
    /\ LET f == wsClientFds[call[s].at] IN
       /\ tried' = [tried EXCEPT ![s] = @ \cup {f}]
       /\ \/ /\ f \in Fds /\ session[f] # "none"
             /\ call' = [call EXCEPT ![s].at = @ - 1]
             /\ UNCHANGED excused
          \/ /\ Goto(s, "failed")
             /\ excused' = excused \cup ({f} \cap Fds)
    /\ UNCHANGED <<server, list, session, due>>

(* The removal looks the descriptor up again.                              *)
Failed(s) ==
    /\ At(s, "failed") /\ MayRun(s)
    /\ Disconnect(s, wsClientFds[call[s].at], "send", call[s].at - 1)
    /\ UNCHANGED <<server, list, session, history>>

Sent(s) ==
    /\ At(s, "send") /\ MayRun(s)
    /\ ~MoreToSend(call[s].at)
    /\ Become(s, Idle)
    /\ due' = [due EXCEPT ![s] = {}] /\ tried' = [tried EXCEPT ![s] = {}]
    /\ UNCHANGED <<server, list, session, excused>>
-----------------------------------------------------------------------------
HttpdTask ==
    \/ Known \/ AppendClient
    \/ Find(Httpd) \/ Shift(Httpd) \/ Drop(Httpd) \/ Close
    \/ \E f \in Fds : Accept(f) \/ Upgrade(f) \/ CloseFrame(f) \/ OnClose(f)

SenderTask(s) ==
    WsBroadcast(s) \/ Send(s) \/ Failed(s) \/ Sent(s)
    \/ Find(s) \/ Shift(s) \/ Drop(s)

Setup == Start \/ EnableWebSocket \/ Ready \/ Stop \/ Stopped

Next == Setup \/ HttpdTask \/ \E s \in Senders : SenderTask(s)

Spec == Init /\ [][Next]_vars
-----------------------------------------------------------------------------
(***************************************************************************)
(* Properties.                                                             *)
(***************************************************************************)

(* The list names open WebSocket connections, each once.                   *)
Sound ==
    /\ wsClientCount >= 0
    /\ \A i \in 0 .. wsClientCount - 1 :
          /\ wsClientFds[i] \in Fds /\ session[wsClientFds[i]] = "ws"
          /\ \A j \in 0 .. wsClientCount - 1 :
                wsClientFds[i] = wsClientFds[j] => i = j

(* Between operations of an application that does not broadcast from other *)
(* tasks, the list is sound, so that no descriptor of a closed, or since   *)
(* reused, socket is ever sent to.                                         *)
ListSound == (AllIdle /\ ~concurrent) => Sound

(* Nobody is forgotten: a WebSocket connection is listed unless the list   *)
(* was full when it came, a send to it failed or it sent a close frame     *)
(* ("Broadcast a text message to all connected WebSocket clients").        *)
EveryClientListed ==
    (AllIdle /\ ~concurrent) =>
        \A f \in Fds : session[f] = "ws" => f \in Listed \cup excused

(* A broadcast that removes clients as it goes still sends to every client *)
(* that was listed when it began, and to nobody else.                      *)
BroadcastComplete ==
    [][\A s \in Senders :
          (~concurrent /\ At(s, "send") /\ call'[s].pc = "idle")
              => tried[s] = due[s]]_vars
-----------------------------------------------------------------------------
(* http_server.h:109 "Number of connected WebSocket clients", with tasks   *)
(* that broadcast while httpd works.  The code does not keep it.           *)
ClientCountTruthful == wsClientCount \in 0 .. MAX_WS_CLIENTS
=============================================================================
