----------------------------- MODULE HttpProofs -----------------------------
(***************************************************************************)
(* What is proved of the HTTP components: of HttpServer, for every number  *)
(* of sockets, places and broadcasting tasks, what its list of WebSocket   *)
(* clients says; of HttpExchange, for every table of routes, buffer, number*)
(* of calls and pieces an answer comes in, that what the client reports is *)
(* what the server did for this call, and that the server's dispatch never *)
(* changes for a request it has served.                                    *)
(***************************************************************************)
EXTENDS HttpServer, HttpExchange, SequenceTheorems, WellFoundedInduction,
        TLAPS


-----------------------------------------------------------------------------
(***************************************************************************)
(* Types.                                                                  *)
(***************************************************************************)

(* What a task may carry about: a count it stores back is in bounds, a     *)
(* broadcast's index is one of the array's.                                *)
Bounded(c) ==
    /\ c.at < MAX_WS_CLIENTS
    /\ c.pc = "append" => c.seen < MAX_WS_CLIENTS
    /\ c.pc = "drop" => c.seen <= MAX_WS_CLIENTS
    /\ c.pc = "failed" => c.at >= 0

(* The test for a full list stays true until the client is appended,       *)
(* because only httpd's task appends.                                      *)
RoomKept == At(Httpd, "known") => wsClientCount < MAX_WS_CLIENTS

TypeInv == TypeOK /\ (\A t \in Tasks : Bounded(call[t])) /\ RoomKept

(* What is left of the types when the calls are set aside.                 *)
StateTyped ==
    /\ phase \in {"off", "on", "stopping"}
    /\ handlers \in SUBSET {"websocket", "wildcard"}
    /\ wsClientFds \in [Slots -> Descriptors]
    /\ wsClientCount \in Int /\ wsClientCount <= MAX_WS_CLIENTS
    /\ session \in [Fds -> {"none", "http", "ws"}]
    /\ concurrent \in BOOLEAN
    /\ excused \in SUBSET Fds
    /\ due \in [Senders -> SUBSET Descriptors]
    /\ tried \in [Senders -> SUBSET Descriptors]

CallsTyped ==
    call \in [Tasks -> Call] /\ \A t \in Tasks : Bounded(call[t])

(* The invariant by its parts: the list, the calls, and the room left.     *)
LEMMA TypeParts == TypeInv <=> StateTyped /\ CallsTyped /\ RoomKept
  BY DEF TypeInv, TypeOK, StateTyped, CallsTyped

(* A task that takes a well-typed call leaves the others alone.            *)
LEMMA CallTaken ==
    ASSUME CallsTyped, NEW t \in Tasks, NEW c \in Call, Bounded(c),
           Become(t, c)
    PROVE  /\ CallsTyped'
           /\ call'[t] = c
           /\ \A u \in Tasks \ {t} : call'[u] = call[u]
  <1>1. call' = [call EXCEPT ![t] = c]
    BY DEF Become
  <1>2. call' \in [Tasks -> Call]
    BY <1>1 DEF CallsTyped
  <1>3. call'[t] = c /\ \A u \in Tasks \ {t} : call'[u] = call[u]
    BY <1>1 DEF CallsTyped
  <1>4. \A u \in Tasks : Bounded(call'[u])
    BY <1>3 DEF CallsTyped
  <1> QED BY <1>2, <1>3, <1>4 DEF CallsTyped, Bounded

(* The positions an operation starts at.                                   *)
LEMMA StartsTyped ==
    ASSUME NEW label \in {"idle", "known", "close", "send", "find"},
           NEW f \in Descriptors, NEW i \in Int, i < MAX_WS_CLIENTS,
           NEW return \in {"idle", "close", "send"}
    PROVE  CallAt(label, f, i, return) \in Call
           /\ Bounded(CallAt(label, f, i, return))
  BY DEF CallAt, Call, Bounded

(* The positions inside an operation: each is a call like any other.       *)
LEMMA MovesTyped ==
    ASSUME TypeInv, NEW t \in Tasks
    PROVE  /\ call[t] \in Call
           /\ \A label \in {"shift", "failed"} :
                 /\ [call[t] EXCEPT !.pc = label] \in Call
                 /\ Goto(t, label)
                       => Become(t, [call[t] EXCEPT !.pc = label])
           /\ [call[t] EXCEPT !.idx = @ + 1] \in Call
           /\ NextIndex(t) => Become(t, [call[t] EXCEPT !.idx = @ + 1])
           /\ \A label \in {"append", "drop"} :
                 /\ [call[t] EXCEPT !.pc = label, !.seen = wsClientCount]
                       \in Call
                 /\ Read(t, label)
                       => Become(t, [call[t] EXCEPT !.pc = label,
                                                    !.seen = wsClientCount])
  <1>1. call[t] \in Call /\ call \in [Tasks -> Call] /\ wsClientCount \in Int
    BY DEF TypeInv, TypeOK
  <1>2. ASSUME NEW label \in {"shift", "failed"}
        PROVE  /\ [call[t] EXCEPT !.pc = label] \in Call
               /\ Goto(t, label)
                     => Become(t, [call[t] EXCEPT !.pc = label])
    BY <1>1 DEF Goto, Become, Call
  <1>3. /\ [call[t] EXCEPT !.idx = @ + 1] \in Call
        /\ NextIndex(t) => Become(t, [call[t] EXCEPT !.idx = @ + 1])
    BY <1>1 DEF NextIndex, Become, Call
  <1>4. ASSUME NEW label \in {"append", "drop"}
        PROVE  /\ [call[t] EXCEPT !.pc = label, !.seen = wsClientCount]
                     \in Call
               /\ Read(t, label)
                     => Become(t, [call[t] EXCEPT !.pc = label,
                                                  !.seen = wsClientCount])
    BY <1>1 DEF Read, Become, Call
  <1> QED BY <1>1, <1>2, <1>3, <1>4
(* A step that takes a well-typed call keeps the calls typed, and the room *)
(* found for a new client if the count allows.                             *)
LEMMA CallStep ==
    ASSUME TypeInv, NEW t \in Tasks, NEW c \in Call, Bounded(c),
           Become(t, c),
           wsClientCount' = wsClientCount \/ wsClientCount' < MAX_WS_CLIENTS,
           (t = Httpd /\ c.pc = "known") => wsClientCount' < MAX_WS_CLIENTS
    PROVE  CallsTyped' /\ RoomKept'
  <1>1. /\ CallsTyped' /\ call'[t] = c
        /\ \A u \in Tasks \ {t} : call'[u] = call[u]
    BY CallTaken, TypeParts
  <1>2. ASSUME call'[Httpd].pc = "known" PROVE wsClientCount' < MAX_WS_CLIENTS
    <2>1. CASE t = Httpd
      BY <1>1, <1>2, <2>1
    <2>2. CASE t # Httpd
      <3>1. call'[Httpd] = call[Httpd]
        BY <1>1, <2>2 DEF Tasks
      <3> QED BY <1>2, <3>1 DEF TypeInv, RoomKept, At
    <2> QED BY <2>1, <2>2
  <1> QED BY <1>1, <1>2 DEF RoomKept, At

(* Steps that leave the calls and the count alone.                         *)
LEMMA CallsAlone ==
    ASSUME TypeInv, UNCHANGED call,
           wsClientCount' = wsClientCount \/ wsClientCount' < MAX_WS_CLIENTS
    PROVE  CallsTyped' /\ RoomKept'
  BY DEF TypeInv, TypeOK, CallsTyped, RoomKept, At, Bounded

(* A finished removal hands its task back with a call that is in bounds.   *)
LEMMA ReturnTyped ==
    ASSUME TypeInv, NEW t \in Tasks, Return(t)
    PROVE  \E c \in Call : Bounded(c) /\ Become(t, c) /\ c.pc # "known"
  <1>1. /\ call[t].fd \in Descriptors /\ call[t].at \in Int
        /\ call[t].at < MAX_WS_CLIENTS
        /\ call[t].next \in {"idle", "close", "send"}
    BY DEF TypeInv, TypeOK, Call, Bounded
  <1>2. /\ -1 \in Int /\ -1 < MAX_WS_CLIENTS /\ NoFd \in Descriptors
    BY ServerAssumption DEF Descriptors
  <1>3. CASE call[t].next = "idle"
    <2>1. Become(t, Idle)
      BY <1>3 DEF Return
    <2>2. Idle \in Call /\ Bounded(Idle) /\ Idle.pc # "known"
      BY <1>2, StartsTyped DEF Idle, CallAt
    <2> QED BY <2>1, <2>2
  <1>4. CASE call[t].next = "close"
    <2>1. Become(t, Closing(call[t].fd))
      BY <1>4 DEF Return
    <2>2. /\ Closing(call[t].fd) \in Call /\ Bounded(Closing(call[t].fd))
          /\ Closing(call[t].fd).pc # "known"
      BY <1>1, <1>2, StartsTyped DEF Closing, CallAt
    <2> QED BY <2>1, <2>2
  <1>5. CASE call[t].next = "send"
    <2>1. Become(t, Sending(call[t].at))
      BY <1>5 DEF Return
    <2>2. /\ Sending(call[t].at) \in Call /\ Bounded(Sending(call[t].at))
          /\ Sending(call[t].at).pc # "known"
      BY <1>1, <1>2, StartsTyped DEF Sending, CallAt
    <2> QED BY <2>1, <2>2
  <1> QED BY <1>1, <1>3, <1>4, <1>5

(* httpd_ws_disconnect keeps the types, whichever task runs it.            *)
LEMMA RemovalTyped ==
    ASSUME TypeInv, NEW t \in Tasks, Find(t) \/ Shift(t) \/ Drop(t)
    PROVE  StateTyped' /\ CallsTyped' /\ RoomKept'
  <1>1. /\ StateTyped /\ call[t] \in Call /\ Bounded(call[t])
        /\ MAX_WS_CLIENTS \in Nat
    BY TypeParts, MovesTyped, ServerAssumption DEF CallsTyped
  <1>2. CASE Find(t)
    <2>1. StateTyped'
      BY <1>1, <1>2 DEF Find, StateTyped, server, list, history
    <2>2. UNCHANGED wsClientCount
      BY <1>2 DEF Find, list
    <2>3. CASE Return(t)
      BY <2>1, <2>2, <2>3, ReturnTyped, CallStep
    <2>4. CASE Goto(t, "shift")
      <3>1. /\ [call[t] EXCEPT !.pc = "shift"] \in Call
            /\ Become(t, [call[t] EXCEPT !.pc = "shift"])
        BY <2>4, MovesTyped
      <3>2. /\ Bounded([call[t] EXCEPT !.pc = "shift"])
            /\ [call[t] EXCEPT !.pc = "shift"].pc # "known"
        BY <1>1 DEF Bounded, Call
      <3> QED BY <2>1, <2>2, <3>1, <3>2, CallStep
    <2>5. CASE NextIndex(t)
      <3>1. /\ [call[t] EXCEPT !.idx = @ + 1] \in Call
            /\ Become(t, [call[t] EXCEPT !.idx = @ + 1])
        BY <2>5, MovesTyped
      <3>2. /\ Bounded([call[t] EXCEPT !.idx = @ + 1])
            /\ [call[t] EXCEPT !.idx = @ + 1].pc # "known"
        BY <1>1, <1>2 DEF Bounded, Call, Find, At
      <3> QED BY <2>1, <2>2, <3>1, <3>2, CallStep
    <2> QED BY <1>2, <2>3, <2>4, <2>5 DEF Find
  <1>3. CASE Shift(t)
    <2>1. UNCHANGED wsClientCount
      BY <1>3 DEF Shift
    <2>2. CASE MoreToShift(call[t].idx)
      <3>1. call[t].idx + 1 \in Slots /\ call[t].idx \in Slots
        BY <1>1, <2>2 DEF MoreToShift, Slots, StateTyped, Call
      <3>2. StateTyped'
        BY <1>1, <1>3, <2>2, <3>1 DEF Shift, StateTyped, server, history
      <3>3. /\ [call[t] EXCEPT !.idx = @ + 1] \in Call
            /\ Become(t, [call[t] EXCEPT !.idx = @ + 1])
        BY <1>3, <2>2, MovesTyped DEF Shift
      <3>4. /\ Bounded([call[t] EXCEPT !.idx = @ + 1])
            /\ [call[t] EXCEPT !.idx = @ + 1].pc # "known"
        BY <1>1, <1>3 DEF Bounded, Call, Shift, At
      <3> QED BY <2>1, <3>2, <3>3, <3>4, CallStep
    <2>3. CASE ~MoreToShift(call[t].idx)
      <3>1. StateTyped'
        BY <1>1, <1>3, <2>3 DEF Shift, StateTyped, server, history
      <3> DEFINE c == [call[t] EXCEPT !.pc = "drop", !.seen = wsClientCount]
      <3>2. c \in Call /\ Become(t, c)
        BY <1>3, <2>3, MovesTyped DEF Shift
      <3>3. Bounded(c) /\ c.pc # "known"
        BY <1>1 DEF Bounded, Call, StateTyped
      <3> QED BY <2>1, <3>1, <3>2, <3>3, CallStep
    <2> QED BY <2>2, <2>3
  <1>4. CASE Drop(t)
    <2>1. wsClientCount' \in Int /\ wsClientCount' < MAX_WS_CLIENTS
      BY <1>1, <1>4 DEF Drop, At, Bounded, Call
    <2>2. StateTyped'
      BY <1>1, <1>4, <2>1 DEF Drop, StateTyped, server, history
    <2> QED BY <1>4, <2>1, <2>2, ReturnTyped, CallStep DEF Drop
  <1> QED BY <1>2, <1>3, <1>4

(* What httpd's own task does keeps the list and the calls well typed.     *)
LEMMA HttpdTyped ==
    ASSUME TypeInv,
           \/ Known \/ AppendClient \/ Close
           \/ \E f \in Fds : Accept(f) \/ Upgrade(f) \/ CloseFrame(f) \/ OnClose(f)
    PROVE  StateTyped' /\ CallsTyped' /\ RoomKept'
  <1> DEFINE h == call[Httpd]
  <1>1. /\ StateTyped /\ Httpd \in Tasks /\ h \in Call /\ Bounded(h)
        /\ MAX_WS_CLIENTS \in Nat /\ MAX_WS_CLIENTS > 0
        /\ At(Httpd, "known") => wsClientCount < MAX_WS_CLIENTS
    <2>1. Httpd \in Tasks /\ MAX_WS_CLIENTS \in Nat /\ MAX_WS_CLIENTS > 0
      BY ServerAssumption DEF Tasks
    <2>2. StateTyped /\ CallsTyped /\ RoomKept
      BY TypeParts
    <2>3. h \in Call
      BY <2>1, MovesTyped
    <2> QED BY <2>1, <2>2, <2>3 DEF CallsTyped, RoomKept
  <1>2. /\ -1 \in Int /\ -1 < MAX_WS_CLIENTS /\ NoFd \in Descriptors
        /\ Fds \subseteq Descriptors
    BY <1>1 DEF Descriptors
  <1>3. Idle \in Call /\ Bounded(Idle) /\ Idle.pc = "idle"
    BY <1>2, StartsTyped DEF Idle, CallAt
  <1>4. CASE Known
    <2>1. StateTyped' /\ UNCHANGED wsClientCount
      BY <1>1, <1>4 DEF Known, StateTyped, server, list, history
    <2>2. wsClientCount < MAX_WS_CLIENTS
      BY <1>1, <1>4 DEF Known
    <2>3. CASE Read(Httpd, "append")
      <3> DEFINE c == [call[Httpd] EXCEPT !.pc = "append", !.seen = wsClientCount]
      <3>1. c \in Call /\ Become(Httpd, c)
        BY <1>1, <2>3, MovesTyped
      <3>2. Bounded(c)
        BY <1>1, <2>2 DEF Bounded, Call
      <3> QED BY <1>1, <2>1, <2>2, <3>1, <3>2, CallStep
    <2>4. CASE Become(Httpd, Idle)
      BY <1>1, <1>3, <2>1, <2>4, CallStep
    <2>5. CASE NextIndex(Httpd)
      <3> DEFINE c == [call[Httpd] EXCEPT !.idx = @ + 1]
      <3>1. c \in Call /\ Become(Httpd, c)
        BY <1>1, <2>5, MovesTyped
      <3>2. Bounded(c)
        BY <1>1 DEF Bounded, Call
      <3> QED BY <1>1, <2>1, <2>2, <3>1, <3>2, CallStep
    <2> QED BY <1>4, <2>3, <2>4, <2>5 DEF Known
  <1>5. CASE AppendClient
    <2>1. h.seen \in Int /\ h.seen < MAX_WS_CLIENTS /\ h.fd \in Descriptors
      BY <1>1, <1>5 DEF AppendClient, At, Bounded, Call
    <2>2. StateTyped'
      BY <1>1, <1>5, <2>1 DEF AppendClient, StateTyped, server, history
    <2>3. CallsTyped' /\ call'[Httpd] = Idle
      BY <1>1, <1>3, <1>5, CallTaken, TypeParts DEF AppendClient
    <2>4. RoomKept'
      BY <1>3, <2>3 DEF RoomKept, At
    <2> QED BY <2>2, <2>3, <2>4
  <1>6. CASE Close
    <2>1. StateTyped' /\ UNCHANGED wsClientCount
      BY <1>1, <1>6 DEF Close, StateTyped, server, list
    <2> QED BY <1>1, <1>3, <1>6, <2>1, CallStep DEF Close
  <1>7. ASSUME NEW f \in Fds, Accept(f)
        PROVE  StateTyped' /\ CallsTyped' /\ RoomKept'
    <2>1. StateTyped' /\ UNCHANGED <<call, wsClientCount>>
      BY <1>1, <1>7 DEF Accept, StateTyped, server, list, history
    <2> QED BY <2>1, CallsAlone
  <1>8. ASSUME NEW f \in Fds, Upgrade(f)
        PROVE  StateTyped' /\ CallsTyped' /\ RoomKept'
    <2>1. StateTyped' /\ UNCHANGED wsClientCount
      BY <1>1, <1>8 DEF Upgrade, StateTyped, server, list
    <2>2. CASE UNCHANGED call
      BY <2>1, <2>2, CallsAlone
    <2>3. CASE ~ListFull /\ Become(Httpd, Connecting(f))
      <3>1. wsClientCount < MAX_WS_CLIENTS
        BY <1>1, <2>3 DEF ListFull, StateTyped
      <3>2. Connecting(f) \in Call /\ Bounded(Connecting(f))
        BY <1>2, StartsTyped DEF Connecting
      <3> QED BY <1>1, <2>1, <2>3, <3>1, <3>2, CallStep
    <2> QED BY <1>8, <2>2, <2>3 DEF Upgrade
  <1>9. ASSUME NEW f \in Fds, NEW label \in {"idle", "close"},
               Disconnect(Httpd, f, label, -1), StateTyped',
               UNCHANGED wsClientCount
        PROVE  StateTyped' /\ CallsTyped' /\ RoomKept'
    <2>1. /\ CallAt("find", f, -1, label) \in Call
          /\ Bounded(CallAt("find", f, -1, label))
          /\ CallAt("find", f, -1, label).pc = "find"
      BY <1>2, StartsTyped DEF CallAt
    <2> QED BY <1>1, <1>9, <2>1, CallStep DEF Disconnect
  <1>10. ASSUME NEW f \in Fds, CloseFrame(f) \/ OnClose(f)
         PROVE  StateTyped' /\ CallsTyped' /\ RoomKept'
    <2>1. StateTyped' /\ UNCHANGED wsClientCount
      BY <1>1, <1>10
      DEF CloseFrame, OnClose, StateTyped, server, list, history
    <2> QED BY <1>9, <1>10, <2>1 DEF CloseFrame, OnClose
  <1> QED BY <1>4, <1>5, <1>6, <1>7, <1>8, <1>10

(* So does every step of a broadcasting task.                              *)
LEMMA SenderTyped ==
    ASSUME TypeInv, NEW s \in Senders,
           WsBroadcast(s) \/ Send(s) \/ Failed(s) \/ Sent(s)
    PROVE  StateTyped' /\ CallsTyped' /\ RoomKept'
  <1> DEFINE c == call[s]
  <1>1. /\ StateTyped /\ s \in Tasks /\ s # Httpd /\ c \in Call /\ Bounded(c)
        /\ MAX_WS_CLIENTS \in Nat /\ NoFd \in Descriptors
    BY TypeParts, MovesTyped, ServerAssumption
    DEF CallsTyped, Tasks, Descriptors
  <1>2. UNCHANGED wsClientCount
    BY DEF WsBroadcast, Send, Failed, Sent, list
  <1>3. CASE WsBroadcast(s)
    <2>1. wsClientCount - 1 \in Int /\ wsClientCount - 1 < MAX_WS_CLIENTS
      BY <1>1 DEF StateTyped
    <2>2. Listed \subseteq Descriptors
      BY <1>1 DEF Listed, StateTyped, Slots
    <2>3. StateTyped'
      BY <1>1, <1>3, <2>2 DEF WsBroadcast, StateTyped, server, list
    <2>4. /\ Sending(wsClientCount - 1) \in Call
          /\ Bounded(Sending(wsClientCount - 1))
      BY <1>1, <2>1, StartsTyped DEF Sending
    <2> QED BY <1>1, <1>2, <1>3, <2>3, <2>4, CallStep DEF WsBroadcast
  <1>4. CASE Send(s)
    <2>1. c.at \in Slots /\ wsClientFds[c.at] \in Descriptors
      BY <1>1, <1>4 DEF Send, MoreToSend, Slots, Bounded, Call, StateTyped
    <2>2. StateTyped'
      BY <1>1, <1>4, <2>1 DEF Send, StateTyped, server, list
    <2>3. CASE Goto(s, "failed")
      <3> DEFINE d == [call[s] EXCEPT !.pc = "failed"]
      <3>1. d \in Call /\ Become(s, d)
        BY <1>1, <2>3, MovesTyped
      <3>2. Bounded(d)
        BY <1>1, <2>1 DEF Bounded, Call, Slots
      <3> QED BY <1>1, <1>2, <2>2, <3>1, <3>2, CallStep
    <2>4. CASE call' = [call EXCEPT ![s].at = @ - 1]
      <3> DEFINE d == [call[s] EXCEPT !.at = @ - 1]
      <3>1. d \in Call /\ Become(s, d)
        BY <1>1, <2>4 DEF Call, Become
      <3>2. Bounded(d)
        BY <1>1, <1>4, <2>1 DEF Bounded, Call, Slots, Send, At
      <3> QED BY <1>1, <1>2, <2>2, <3>1, <3>2, CallStep
    <2> QED BY <1>4, <2>3, <2>4 DEF Send
  <1>5. CASE Failed(s)
    <2>1. c.at \in Slots /\ wsClientFds[c.at] \in Descriptors
      BY <1>1, <1>5 DEF Failed, At, Slots, Bounded, Call, StateTyped
    <2>2. StateTyped'
      BY <1>1, <1>5 DEF Failed, StateTyped, server, list, history
    <2> DEFINE d == CallAt("find", wsClientFds[c.at], c.at - 1, "send")
    <2>3. c.at - 1 \in Int /\ c.at - 1 < MAX_WS_CLIENTS
      BY <1>1, <2>1 DEF Slots
    <2>4. d \in Call /\ Bounded(d)
      BY <2>1, <2>3, StartsTyped
    <2>5. Become(s, d)
      BY <1>5 DEF Failed, Disconnect
    <2> QED BY <1>1, <1>2, <2>2, <2>4, <2>5, CallStep
  <1>6. CASE Sent(s)
    <2>1. StateTyped'
      BY <1>1, <1>6 DEF Sent, StateTyped, server, list
    <2>2. -1 \in Int /\ -1 < MAX_WS_CLIENTS
      BY <1>1
    <2>3. Idle \in Call /\ Bounded(Idle)
      BY <1>1, <2>2, StartsTyped DEF Idle
    <2> QED BY <1>1, <1>2, <1>6, <2>1, <2>3, CallStep DEF Sent
  <1> QED BY <1>3, <1>4, <1>5, <1>6

(* Hence every step does, the removals both kinds of task share included.  *)
LEMMA TypeStep == TypeInv /\ [Next]_vars => TypeInv'
  <1> SUFFICES ASSUME TypeInv, [Next]_vars
               PROVE  StateTyped' /\ CallsTyped' /\ RoomKept'
    BY DEF TypeInv, TypeOK, StateTyped, CallsTyped
  <1>1. StateTyped /\ MAX_WS_CLIENTS \in Nat /\ MAX_WS_CLIENTS > 0
    BY TypeParts, ServerAssumption
  <1>2. CASE Setup
    <2>1. StateTyped'
      <3>1. CASE Start \/ Stop
        BY <1>1, <3>1 DEF Start, Stop, StateTyped, list, history
      <3>2. CASE EnableWebSocket \/ Ready
        <4>1. handlers' \in SUBSET {"websocket", "wildcard"}
          BY <1>1, <3>2 DEF EnableWebSocket, Ready, StateTyped
        <4> QED
          BY <1>1, <3>2, <4>1
          DEF EnableWebSocket, Ready, StateTyped, list, history
      <3>3. CASE Stopped
        <4>1. handlers' \in SUBSET {"websocket", "wildcard"}
          BY <3>3 DEF Stopped
        <4> QED BY <1>1, <3>3, <4>1 DEF Stopped, StateTyped, history
      <3> QED BY <1>2, <3>1, <3>2, <3>3 DEF Setup
    <2>2. /\ UNCHANGED call
          /\ wsClientCount' = wsClientCount \/ wsClientCount' < MAX_WS_CLIENTS
      BY <1>1, <1>2 DEF Setup, Start, EnableWebSocket, Ready, Stop, Stopped, list
    <2> QED BY <2>1, <2>2, CallsAlone
  <1>3. CASE HttpdTask
    BY <1>3, HttpdTyped, RemovalTyped DEF HttpdTask, Tasks
  <1>4. ASSUME NEW s \in Senders, SenderTask(s)
        PROVE  StateTyped' /\ CallsTyped' /\ RoomKept'
    BY <1>4, SenderTyped, RemovalTyped DEF SenderTask, Tasks
  <1>5. CASE UNCHANGED vars
    <2>1. StateTyped' /\ UNCHANGED <<call, wsClientCount>>
      BY <1>1, <1>5 DEF vars, server, list, history, StateTyped
    <2> QED BY <2>1, CallsAlone
  <1> QED BY <1>2, <1>3, <1>4, <1>5 DEF Next

(* The server starts with an empty list and idle tasks.                    *)
LEMMA TypeInit == Init => TypeInv
  <1> SUFFICES ASSUME Init PROVE TypeInv
    OBVIOUS
  <1>1. StateTyped
    BY ServerAssumption DEF Init, StateTyped, Descriptors
  <1>2. Idle \in Call /\ Bounded(Idle) /\ Idle.pc = "idle"
    <2>1. /\ NoFd \in Descriptors /\ -1 \in Int /\ -1 < MAX_WS_CLIENTS
      BY ServerAssumption DEF Descriptors
    <2> QED BY <2>1, StartsTyped DEF Idle, CallAt
  <1>3. CallsTyped /\ RoomKept
    BY <1>2 DEF Init, CallsTyped, RoomKept, At, Tasks
  <1> QED BY <1>1, <1>3, TypeParts

(* In every behaviour.                                                     *)
LEMMA TypeInvariant == Spec => []TypeInv
  BY TypeInit, TypeStep, PTL DEF Spec

(* Whatever the tasks' races do to the list of clients, its count never    *)
(* exceeds MAX_WS_CLIENTS and no task reads or writes beyond its end: only *)
(* httpd's task appends, and what a removal stores back is below the limit.*)
THEOREM TypeCorrect == Spec => []TypeOK
  <1>1. TypeInv => TypeOK
    BY DEF TypeInv
  <1> QED BY <1>1, TypeInvariant, PTL
-----------------------------------------------------------------------------
(***************************************************************************)
(* The list, when operations do not interleave.                            *)
(***************************************************************************)
OneAtATime ==
    \A t, u \in Tasks : t # u => At(t, "idle") \/ At(u, "idle")

(* Some place of the list may hold anything while a client is removed.     *)
SoundBut(hole) ==
    /\ wsClientCount >= 0
    /\ \A i \in (0 .. wsClientCount - 1) \ {hole} :
          /\ wsClientFds[i] \in Fds /\ session[wsClientFds[i]] = "ws"
          /\ \A j \in (0 .. wsClientCount - 1) \ {hole} :
                wsClientFds[i] = wsClientFds[j] => i = j

(* f is at none of the first n places, the hole aside.                     *)
Absent(f, n, hole) == \A i \in (0 .. n - 1) \ {hole} : wsClientFds[i] # f

Removing(c) == c.pc \in {"shift", "drop"}

(* What each position inside an operation implies of the list.             *)
Midway(c) ==
    /\ ~Removing(c) => SoundBut(-1)
    /\ c.pc \in {"known", "append"} =>
          c.fd \in Fds /\ session[c.fd] = "ws"
    /\ c.pc \in {"known", "find"} => Absent(c.fd, c.idx, -1)
    /\ c.pc \in {"known", "find"} => c.idx <= wsClientCount
    /\ c.pc = "append" =>
          c.seen = wsClientCount /\ Absent(c.fd, wsClientCount, -1)
    /\ c.pc = "close" => Absent(c.fd, wsClientCount, -1)
    /\ c.pc = "shift" =>
          /\ c.idx \in 0 .. wsClientCount - 1
          /\ SoundBut(c.idx) /\ Absent(c.fd, wsClientCount, c.idx)
    /\ c.pc = "drop" =>
          /\ wsClientCount > 0 /\ c.seen = wsClientCount
          /\ SoundBut(wsClientCount - 1)
          /\ Absent(c.fd, wsClientCount, wsClientCount - 1)

(* With one operation at a time the busy task's position, or none, says    *)
(* what is true of the list.                                               *)
SerialInv ==
    ~concurrent =>
        /\ OneAtATime
        /\ AllIdle => SoundBut(-1)
        /\ \A t \in Tasks : ~At(t, "idle") => Midway(call[t])
-----------------------------------------------------------------------------
(* SerialInv as the task that may run sees it.                             *)
Here(t) == IF At(t, "idle") THEN SoundBut(-1) ELSE Midway(call[t])

(* While calls take turns, the task that may run finds Here to hold.       *)
LEMMA SerialHere ==
    ASSUME SerialInv, ~concurrent, NEW t \in Tasks, MayRun(t)
    PROVE  Here(t)
  BY DEF SerialInv, MayRun, Here, AllIdle

(* If its step leaves Here true and the other calls alone, SerialInv holds. *)
LEMMA SerialCall ==
    ASSUME ~concurrent, ~concurrent', NEW t \in Tasks, MayRun(t),
           \A u \in Tasks \ {t} : call'[u] = call[u], Here(t)'
    PROVE  SerialInv'
  <1>1. \A u \in Tasks \ {t} : call'[u].pc = "idle"
    BY DEF MayRun, At
  <1>2. OneAtATime'
    BY <1>1 DEF OneAtATime, At
  <1>3. AllIdle' => SoundBut(-1)'
    BY DEF AllIdle, Here, At
  <1>4. \A u \in Tasks : ~At(u, "idle")' => Midway(call[u])'
    <2> SUFFICES ASSUME NEW u \in Tasks, ~At(u, "idle")'
                 PROVE  Midway(call[u])'
      OBVIOUS
    <2>1. u = t
      BY <1>1 DEF At
    <2> QED BY <2>1 DEF Here
  <1> QED BY <1>2, <1>3, <1>4 DEF SerialInv

(* Positions at which nothing is said of the list but that it is sound.    *)
LEMMA HereSound ==
    ASSUME NEW t \in Tasks, SoundBut(-1)',
           call'[t].pc \in {"idle", "send", "failed"}
    PROVE  Here(t)'
  BY DEF Here, At, Midway, Removing

(* The start of a removal.                                                 *)
LEMMA HereFind ==
    ASSUME NEW t \in Tasks, SoundBut(-1)',
           call'[t].pc = "find", call'[t].idx = 0
    PROVE  Here(t)'
  <1>1. /\ Absent(call[t].fd, call[t].idx, -1)'
        /\ (call[t].idx <= wsClientCount)'
    BY DEF Absent, SoundBut
  <1> QED BY <1>1 DEF Here, At, Midway, Removing

(* The end of a removal: the client is at no place of the list.            *)
LEMMA HereReturn ==
    ASSUME TypeInv, NEW t \in Tasks, Return(t), SoundBut(-1)',
           \A i \in 0 .. wsClientCount' - 1 : wsClientFds'[i] # call[t].fd
    PROVE  Here(t)' /\ \A u \in Tasks \ {t} : call'[u] = call[u]
  <1>1. /\ call \in [Tasks -> Call]
        /\ call[t].next \in {"idle", "close", "send"}
    BY DEF TypeInv, TypeOK, Call
  <1>2. CASE call[t].next = "idle"
    <2>1. call' = [call EXCEPT ![t] = Idle]
      BY <1>2 DEF Return, Become
    <2> QED BY <1>1, <2>1, HereSound DEF Idle, CallAt
  <1>3. CASE call[t].next = "close"
    <2>1. call' = [call EXCEPT ![t] = Closing(call[t].fd)]
      BY <1>3 DEF Return, Become
    <2>2. call'[t].pc = "close" /\ call'[t].fd = call[t].fd
      BY <1>1, <2>1 DEF Closing, CallAt
    <2>3. Absent(call[t].fd, wsClientCount, -1)'
      BY <2>2 DEF Absent
    <2>4. Here(t)'
      BY <2>2, <2>3 DEF Here, At, Midway, Removing
    <2> QED BY <1>1, <2>1, <2>4
  <1>4. CASE call[t].next = "send"
    <2>1. call' = [call EXCEPT ![t] = Sending(call[t].at)]
      BY <1>4 DEF Return, Become
    <2> QED BY <1>1, <2>1, HereSound DEF Sending, CallAt
  <1> QED BY <1>1, <1>2, <1>3, <1>4

(* httpd_ws_disconnect: the hole left by the client that goes moves up to  *)
(* the end of the list and is dropped there.                               *)
LEMMA SerialFind ==
    ASSUME TypeInv, NEW t \in Tasks, Here(t), Find(t)
    PROVE  Here(t)' /\ \A u \in Tasks \ {t} : call'[u] = call[u]
  <1> DEFINE i == call[t].idx
  <1>1. /\ call \in [Tasks -> Call] /\ i \in Nat /\ wsClientCount \in Int
        /\ At(t, "find")
    BY DEF TypeInv, TypeOK, Call, Find
  <1>2. /\ SoundBut(-1) /\ Absent(call[t].fd, i, -1) /\ i <= wsClientCount
    BY <1>1 DEF Here, Midway, Removing, At
  <1>3. UNCHANGED <<wsClientFds, wsClientCount, session>>
    BY DEF Find, list
  <1>4. SoundBut(-1)'
    BY <1>2, <1>3 DEF SoundBut
  <1>5. CASE i >= wsClientCount
    <2>1. Return(t)
      BY <1>5 DEF Find
    <2>2. \A j \in 0 .. wsClientCount' - 1 : wsClientFds'[j] # call[t].fd
      BY <1>1, <1>2, <1>3, <1>5 DEF Absent
    <2> QED BY <1>4, <2>1, <2>2, HereReturn
  <1>6. CASE i < wsClientCount /\ wsClientFds[i] = call[t].fd
    <2>1. call' = [call EXCEPT ![t].pc = "shift"]
      BY <1>1, <1>6 DEF Find, Goto
    <2>2. /\ call'[t].pc = "shift" /\ call'[t].idx = i
          /\ call'[t].fd = call[t].fd
      BY <1>1, <2>1 DEF Call
    <2>3. SoundBut(i)'
      BY <1>2, <1>3 DEF SoundBut
    <2>4. Absent(call[t].fd, wsClientCount, i)'
      BY <1>1, <1>2, <1>3, <1>6, <2>2 DEF SoundBut, Absent
    <2>5. Here(t)'
      BY <1>1, <1>3, <1>6, <2>2, <2>3, <2>4 DEF Here, At, Midway, Removing
    <2> QED BY <1>1, <2>1, <2>5
  <1>7. CASE i < wsClientCount /\ wsClientFds[i] # call[t].fd
    <2>1. call' = [call EXCEPT ![t].idx = @ + 1]
      BY <1>1, <1>7 DEF Find, NextIndex
    <2>2. /\ call'[t].pc = "find" /\ call'[t].idx = i + 1
          /\ call'[t].fd = call[t].fd
      BY <1>1, <2>1 DEF Call, At
    <2>3. Absent(call[t].fd, i, -1)'
      BY <1>1, <1>2, <1>3, <1>7, <2>2 DEF Absent
    <2>4. Here(t)'
      BY <1>1, <1>3, <1>4, <1>7, <2>2, <2>3 DEF Here, At, Midway, Removing
    <2> QED BY <1>1, <2>1, <2>4
  <1> QED BY <1>1, <1>5, <1>6, <1>7

(* Moving one entry down leaves the list as a removal midway expects it.   *)
LEMMA SerialShift ==
    ASSUME TypeInv, NEW t \in Tasks, Here(t), Shift(t)
    PROVE  Here(t)' /\ \A u \in Tasks \ {t} : call'[u] = call[u]
  <1> DEFINE i == call[t].idx
  <1>1. /\ call \in [Tasks -> Call] /\ i \in Nat /\ wsClientCount \in Int
        /\ wsClientFds \in [Slots -> Descriptors]
        /\ wsClientCount <= MAX_WS_CLIENTS /\ MAX_WS_CLIENTS \in Nat
        /\ At(t, "shift")
    BY ServerAssumption DEF TypeInv, TypeOK, Call, Shift
  <1>2. /\ i \in 0 .. wsClientCount - 1
        /\ SoundBut(i) /\ Absent(call[t].fd, wsClientCount, i)
    BY <1>1 DEF Here, Midway, At
  <1>3. UNCHANGED <<wsClientCount, session>>
    BY DEF Shift
  <1>4. CASE MoreToShift(i)
    <2>1. /\ wsClientFds' = [wsClientFds EXCEPT ![i] = wsClientFds[i + 1]]
          /\ call' = [call EXCEPT ![t].idx = @ + 1]
      BY <1>4 DEF Shift, NextIndex
    <2>2. /\ call'[t].pc = "shift" /\ call'[t].idx = i + 1
          /\ call'[t].fd = call[t].fd
      BY <1>1, <2>1 DEF Call, At
    <2>3. i \in Slots /\ i + 1 \in Slots /\ i + 1 \in 0 .. wsClientCount - 1
      BY <1>1, <1>2, <1>4 DEF MoreToShift, Slots
    <2>4. \A j \in (0 .. wsClientCount - 1) \ {i + 1} :
             /\ j \in Slots
             /\ wsClientFds'[j] = wsClientFds[IF j = i THEN i + 1 ELSE j]
      BY <1>1, <2>1, <2>3 DEF Slots
    <2>5. SoundBut(i)'
      BY <1>1, <1>2, <1>3, <2>2, <2>3, <2>4 DEF SoundBut
    <2>6. Absent(call[t].fd, wsClientCount, i)'
      BY <1>1, <1>2, <1>3, <2>2, <2>3, <2>4 DEF Absent
    <2>7. Here(t)'
      BY <1>1, <1>3, <2>2, <2>3, <2>5, <2>6 DEF Here, At, Midway, Removing
    <2> QED BY <1>1, <2>1, <2>7
  <1>5. CASE ~MoreToShift(i)
    <2>1. /\ UNCHANGED wsClientFds
          /\ call' = [call EXCEPT ![t].pc = "drop", ![t].seen = wsClientCount]
      BY <1>5 DEF Shift, Read
    <2>2. /\ call'[t].pc = "drop" /\ call'[t].seen = wsClientCount
          /\ call'[t].fd = call[t].fd
      BY <1>1, <2>1 DEF Call
    <2>3. i = wsClientCount - 1
      BY <1>1, <1>2, <1>5 DEF MoreToShift
    <2>4. /\ SoundBut(wsClientCount - 1)'
          /\ Absent(call[t].fd, wsClientCount, wsClientCount - 1)'
      BY <1>2, <1>3, <2>1, <2>2, <2>3 DEF SoundBut, Absent
    <2>5. Here(t)'
      BY <1>1, <1>2, <1>3, <2>2, <2>4 DEF Here, At, Midway, Removing
    <2> QED BY <1>1, <2>1, <2>5
  <1> QED BY <1>4, <1>5

(* Lowering the count ends a removal with a sound list.                    *)
LEMMA SerialDrop ==
    ASSUME TypeInv, NEW t \in Tasks, Here(t), Drop(t)
    PROVE  Here(t)' /\ \A u \in Tasks \ {t} : call'[u] = call[u]
  <1>1. At(t, "drop") /\ Return(t) /\ wsClientCount \in Int
    BY DEF TypeInv, TypeOK, Drop
  <1>2. /\ wsClientCount > 0 /\ call[t].seen = wsClientCount
        /\ SoundBut(wsClientCount - 1)
        /\ Absent(call[t].fd, wsClientCount, wsClientCount - 1)
    BY <1>1 DEF Here, Midway, At
  <1>3. UNCHANGED <<wsClientFds, session>> /\ wsClientCount' = wsClientCount - 1
    BY <1>2 DEF Drop
  <1>4. SoundBut(-1)'
    BY <1>1, <1>2, <1>3 DEF SoundBut
  <1>5. \A j \in 0 .. wsClientCount' - 1 : wsClientFds'[j] # call[t].fd
    BY <1>1, <1>2, <1>3 DEF Absent
  <1> QED BY <1>1, <1>4, <1>5, HereReturn

(* httpd's handlers: a client is appended once it was not found, and its   *)
(* descriptor is free again only when it is no longer listed.              *)
LEMMA SerialHttpd ==
    ASSUME TypeInv, Here(Httpd),
           \/ Known \/ AppendClient \/ Close
           \/ \E f \in Fds : Accept(f) \/ Upgrade(f) \/ CloseFrame(f) \/ OnClose(f)
    PROVE  /\ Here(Httpd)'
           /\ \A u \in Tasks \ {Httpd} : call'[u] = call[u]
  <1> DEFINE i == call[Httpd].idx
  <1>1. /\ Httpd \in Tasks /\ call \in [Tasks -> Call] /\ i \in Nat
        /\ wsClientCount \in Int /\ wsClientFds \in [Slots -> Descriptors]
        /\ wsClientCount <= MAX_WS_CLIENTS /\ MAX_WS_CLIENTS \in Nat
        /\ session \in [Fds -> {"none", "http", "ws"}]
        /\ call[Httpd] \in Call /\ Bounded(call[Httpd])
    BY ServerAssumption DEF TypeInv, TypeOK, Call, Tasks
  <1>2. ASSUME Become(Httpd, Idle), SoundBut(-1)'
        PROVE  /\ Here(Httpd)'
               /\ \A u \in Tasks \ {Httpd} : call'[u] = call[u]
    BY <1>1, <1>2, HereSound DEF Become, Idle, CallAt
  <1>3. CASE Known
    <2>1. /\ SoundBut(-1) /\ Absent(call[Httpd].fd, i, -1) /\ i <= wsClientCount
          /\ call[Httpd].fd \in Fds /\ session[call[Httpd].fd] = "ws"
      BY <1>3 DEF Known, At, Here, Midway, Removing
    <2>2. UNCHANGED <<wsClientFds, wsClientCount, session>>
      BY <1>3 DEF Known, list
    <2>3. SoundBut(-1)'
      BY <2>1, <2>2 DEF SoundBut
    <2>4. CASE i >= wsClientCount
      <3>1. call' = [call EXCEPT ![Httpd].pc = "append",
                                 ![Httpd].seen = wsClientCount]
        BY <1>3, <2>4 DEF Known, Read
      <3>2. /\ call'[Httpd].pc = "append" /\ call'[Httpd].seen = wsClientCount
            /\ call'[Httpd].fd = call[Httpd].fd
        BY <1>1, <3>1 DEF Call
      <3>3. Absent(call[Httpd].fd, wsClientCount, -1)'
        BY <1>1, <2>1, <2>2, <2>4, <3>2 DEF Absent
      <3>4. Here(Httpd)'
        BY <2>1, <2>2, <2>3, <3>2, <3>3 DEF Here, At, Midway, Removing
      <3> QED BY <1>1, <3>1, <3>4
    <2>5. CASE i < wsClientCount /\ wsClientFds[i] = call[Httpd].fd
      BY <1>1, <1>2, <1>3, <2>3, <2>5 DEF Known
    <2>6. CASE i < wsClientCount /\ wsClientFds[i] # call[Httpd].fd
      <3>1. call' = [call EXCEPT ![Httpd].idx = @ + 1]
        BY <1>1, <1>3, <2>6 DEF Known, NextIndex
      <3>2. /\ call'[Httpd].pc = "known" /\ call'[Httpd].idx = i + 1
            /\ call'[Httpd].fd = call[Httpd].fd
        BY <1>1, <1>3, <3>1 DEF Call, At, Known
      <3>3. Absent(call[Httpd].fd, i, -1)'
        BY <1>1, <2>1, <2>2, <2>6, <3>2 DEF Absent
      <3>4. Here(Httpd)'
        BY <1>1, <2>1, <2>2, <2>3, <2>6, <3>2, <3>3
        DEF Here, At, Midway, Removing
      <3> QED BY <1>1, <3>1, <3>4
    <2> QED BY <1>1, <2>4, <2>5, <2>6
  <1>4. CASE AppendClient
    <2> DEFINE n == wsClientCount
               f == call[Httpd].fd
    <2>1. /\ At(Httpd, "append") /\ SoundBut(-1) /\ Absent(f, n, -1)
          /\ f \in Fds /\ session[f] = "ws" /\ call[Httpd].seen = n
      BY <1>4 DEF AppendClient, At, Here, Midway, Removing
    <2>2. n \in Slots /\ n < MAX_WS_CLIENTS
      BY <1>1, <2>1 DEF SoundBut, Bounded, At, Slots
    <2>3. /\ wsClientCount' = n + 1 /\ session' = session
          /\ \A j \in Slots : wsClientFds'[j] = IF j = n THEN f ELSE wsClientFds[j]
      BY <1>4, <2>1 DEF AppendClient
    <2>4. \A j \in 0 .. n : j \in Slots
      BY <1>1, <2>2 DEF Slots
    <2>5. SoundBut(-1)'
      BY <1>1, <2>1, <2>2, <2>3, <2>4 DEF SoundBut, Absent
    <2> QED BY <1>2, <1>4, <2>5 DEF AppendClient
  <1>5. CASE Close
    <2>1. SoundBut(-1) /\ Absent(call[Httpd].fd, wsClientCount, -1)
      BY <1>5 DEF Close, At, Here, Midway, Removing
    <2>2. /\ session' = [session EXCEPT ![call[Httpd].fd] = "none"]
          /\ UNCHANGED <<wsClientFds, wsClientCount>>
      BY <1>5 DEF Close, list
    <2>3. SoundBut(-1)'
      BY <1>1, <2>1, <2>2 DEF SoundBut, Absent
    <2> QED BY <1>2, <1>5, <2>3 DEF Close
  <1>6. ASSUME NEW f \in Fds, Accept(f)
        PROVE  /\ Here(Httpd)'
               /\ \A u \in Tasks \ {Httpd} : call'[u] = call[u]
    <2>1. /\ SoundBut(-1) /\ session[f] = "none" /\ At(Httpd, "idle")
          /\ session' = [session EXCEPT ![f] = "http"]
          /\ UNCHANGED <<wsClientFds, wsClientCount, call>>
      BY <1>6 DEF Accept, HttpdFree, Here, list
    <2>2. SoundBut(-1)'
      BY <1>1, <2>1 DEF SoundBut
    <2> QED BY <1>1, <2>1, <2>2, HereSound DEF At
  <1>7. ASSUME NEW f \in Fds, Upgrade(f)
        PROVE  /\ Here(Httpd)'
               /\ \A u \in Tasks \ {Httpd} : call'[u] = call[u]
    <2>1. /\ SoundBut(-1) /\ session[f] = "http" /\ At(Httpd, "idle")
          /\ session' = [session EXCEPT ![f] = "ws"]
          /\ UNCHANGED <<wsClientFds, wsClientCount>>
      BY <1>7 DEF Upgrade, HttpdFree, Here, list
    <2>2. SoundBut(-1)'
      BY <1>1, <2>1 DEF SoundBut
    <2>3. CASE UNCHANGED call
      BY <1>1, <2>1, <2>2, <2>3, HereSound DEF At
    <2>4. CASE call' = [call EXCEPT ![Httpd] = Connecting(f)]
      <3>1. /\ call'[Httpd].pc = "known" /\ call'[Httpd].fd = f
            /\ call'[Httpd].idx = 0
        BY <1>1, <2>4 DEF Connecting, CallAt
      <3>2. /\ (call[Httpd].fd \in Fds)' /\ (session[call[Httpd].fd] = "ws")'
            /\ Absent(call[Httpd].fd, i, -1)' /\ (i <= wsClientCount)'
        BY <1>1, <2>1, <2>2, <3>1 DEF Absent, SoundBut
      <3>3. Here(Httpd)'
        BY <2>2, <3>1, <3>2 DEF Here, At, Midway, Removing
      <3> QED BY <1>1, <2>4, <3>3
    <2> QED BY <1>7, <2>3, <2>4 DEF Upgrade, Become
  <1>8. ASSUME NEW f \in Fds, CloseFrame(f) \/ OnClose(f)
        PROVE  /\ Here(Httpd)'
               /\ \A u \in Tasks \ {Httpd} : call'[u] = call[u]
    <2>1. /\ SoundBut(-1)
          /\ UNCHANGED <<wsClientFds, wsClientCount, session>>
      BY <1>8 DEF CloseFrame, OnClose, HttpdFree, Here, list
    <2>2. SoundBut(-1)'
      BY <2>1 DEF SoundBut
    <2>3. PICK label : call' = [call EXCEPT ![Httpd] = CallAt("find", f, -1, label)]
      BY <1>8 DEF CloseFrame, OnClose, Disconnect, Become
    <2>4. call'[Httpd].pc = "find" /\ call'[Httpd].idx = 0
      BY <1>1, <2>3 DEF CallAt
    <2> QED BY <1>1, <2>2, <2>3, <2>4, HereFind
  <1> QED BY <1>3, <1>4, <1>5, <1>6, <1>7, <1>8

(* A broadcast leaves the list alone but for the removals it calls.        *)
LEMMA SerialSender ==
    ASSUME TypeInv, NEW s \in Senders, Here(s),
           WsBroadcast(s) \/ Send(s) \/ Failed(s) \/ Sent(s)
    PROVE  Here(s)' /\ \A u \in Tasks \ {s} : call'[u] = call[u]
  <1>1. s \in Tasks /\ call \in [Tasks -> Call] /\ call[s] \in Call
    BY DEF TypeInv, TypeOK, Tasks
  <1>2. /\ SoundBut(-1)
        /\ UNCHANGED <<wsClientFds, wsClientCount, session>>
    BY DEF WsBroadcast, Send, Failed, Sent, At, Here, Midway, Removing, list
  <1>3. SoundBut(-1)'
    BY <1>2 DEF SoundBut
  <1>4. CASE WsBroadcast(s) \/ Sent(s)
    <2>1. PICK c \in {Idle, Sending(wsClientCount - 1)} :
             call' = [call EXCEPT ![s] = c]
      BY <1>4 DEF WsBroadcast, Sent, Become
    <2>2. call'[s].pc \in {"idle", "send"}
      BY <1>1, <2>1 DEF Idle, Sending, CallAt
    <2> QED BY <1>1, <1>3, <2>1, <2>2, HereSound
  <1>5. CASE Send(s)
    <2>1. \/ call' = [call EXCEPT ![s].at = @ - 1]
          \/ call' = [call EXCEPT ![s].pc = "failed"]
      BY <1>5 DEF Send, Goto
    <2>2. call'[s].pc \in {"send", "failed"}
      BY <1>1, <1>5, <2>1 DEF Send, At, Call
    <2>3. \A u \in Tasks \ {s} : call'[u] = call[u]
      BY <1>1, <2>1
    <2> QED BY <1>1, <1>3, <2>2, <2>3, HereSound
  <1>6. CASE Failed(s)
    <2>1. PICK f, i : call' = [call EXCEPT ![s] = CallAt("find", f, i, "send")]
      BY <1>6 DEF Failed, Disconnect, Become
    <2>2. call'[s].pc = "find" /\ call'[s].idx = 0
      BY <1>1, <2>1 DEF CallAt
    <2> QED BY <1>1, <1>3, <2>1, <2>2, HereFind
  <1> QED BY <1>4, <1>5, <1>6

(* Setting the server up leaves the list alone, and stop() empties it.     *)
LEMMA SerialSetup ==
    ASSUME TypeInv, SerialInv, Setup \/ UNCHANGED vars
    PROVE  SerialInv'
  <1>1. UNCHANGED <<call, concurrent, session, wsClientFds>>
    BY DEF Setup, Start, EnableWebSocket, Ready, Stop, Stopped,
           vars, server, list
  <1>2. CASE UNCHANGED wsClientCount
    BY <1>1, <1>2
    DEF SerialInv, OneAtATime, AllIdle, At, Midway, Removing, SoundBut, Absent
  <1>3. CASE Stopped
    <2>1. AllIdle /\ wsClientCount' = 0
      BY <1>3 DEF Stopped, SendersIdle, AllIdle, Tasks
    <2>2. SoundBut(-1)'
      BY <2>1 DEF SoundBut
    <2>3. OneAtATime' /\ AllIdle'
      BY <1>1, <2>1 DEF OneAtATime, AllIdle, At
    <2> QED BY <2>2, <2>3 DEF SerialInv, AllIdle
  <1> QED
    BY <1>2, <1>3
    DEF Setup, Start, EnableWebSocket, Ready, Stop, vars, list

(* Every step keeps the calls in turn and the list sound between them.     *)
LEMMA SerialStep == TypeInv /\ SerialInv /\ [Next]_vars => SerialInv'
  <1> SUFFICES ASSUME TypeInv, SerialInv, [Next]_vars PROVE SerialInv'
    OBVIOUS
  <1>1. CASE Setup \/ UNCHANGED vars
    BY <1>1, SerialSetup
  <1>2. ASSUME NEW t \in Tasks, concurrent' = concurrent,
               MayRun(t),
               Here(t) => /\ Here(t)'
                          /\ \A u \in Tasks \ {t} : call'[u] = call[u]
        PROVE  SerialInv'
    <2>1. CASE concurrent
      BY <1>2, <2>1 DEF SerialInv
    <2>2. CASE ~concurrent
      BY <1>2, <2>2, SerialHere, SerialCall
    <2> QED BY <2>1, <2>2
  <1>3. ASSUME NEW t \in Tasks, Find(t) \/ Shift(t) \/ Drop(t)
        PROVE  SerialInv'
    <2>1. MayRun(t) /\ concurrent' = concurrent
      BY <1>3 DEF Find, Shift, Drop, server
    <2> QED BY <1>2, <1>3, <2>1, SerialFind, SerialShift, SerialDrop
  <1>4. ASSUME \/ Known \/ AppendClient \/ Close
               \/ \E f \in Fds :
                     Accept(f) \/ Upgrade(f) \/ CloseFrame(f) \/ OnClose(f)
        PROVE  SerialInv'
    <2>1. MayRun(Httpd) /\ concurrent' = concurrent /\ Httpd \in Tasks
      BY <1>4 DEF Known, AppendClient, Close, Accept, Upgrade, CloseFrame, OnClose,
                  HttpdFree, server, Tasks
    <2> QED BY <1>2, <1>4, <2>1, SerialHttpd
  <1>5. ASSUME NEW s \in Senders,
               WsBroadcast(s) \/ Send(s) \/ Failed(s) \/ Sent(s)
        PROVE  SerialInv'
    <2>1. MayRun(s) /\ concurrent' = concurrent /\ s \in Tasks
      BY <1>5 DEF WsBroadcast, Send, Failed, Sent, server, Tasks
    <2> QED BY <1>2, <1>5, <2>1, SerialSender
  <1>6. CASE HttpdTask
    BY <1>3, <1>4, <1>6 DEF HttpdTask, Tasks
  <1>7. ASSUME NEW s \in Senders, SenderTask(s) PROVE SerialInv'
    BY <1>3, <1>5, <1>7 DEF SenderTask, Tasks
  <1> QED BY <1>1, <1>6, <1>7 DEF Next

(* At the start no call is under way and no client is listed.              *)
LEMMA SerialInit == Init => SerialInv
  BY DEF Init, SerialInv, OneAtATime, AllIdle, At, SoundBut, Idle, CallAt

(* In every behaviour.                                                     *)
LEMMA SerialInvariant == Spec => []SerialInv
  BY SerialInit, SerialStep, TypeInvariant, PTL DEF Spec

(* As long as the application broadcasts from httpd's task only, the list  *)
(* names open WebSocket connections, each once, between any two operations:*)
(* a closed socket, whose number may be another connection's by now, is    *)
(* never sent to.                                                          *)
THEOREM ListIsSound == Spec => []ListSound
  <1>1. TypeInv /\ SerialInv => ListSound
    <2> SUFFICES ASSUME TypeInv, SerialInv, AllIdle, ~concurrent PROVE Sound
      BY DEF ListSound
    <2>1. SoundBut(-1)
      BY DEF SerialInv
    <2> QED BY <2>1 DEF SoundBut, Sound
  <1> QED BY <1>1, SerialInvariant, TypeInvariant, PTL
-----------------------------------------------------------------------------
(***************************************************************************)
(* Nobody is forgotten.                                                    *)
(***************************************************************************)
Leaving(c) == c.pc \in {"find", "shift", "drop"}

(* The place that means nothing while a client is removed.                 *)
Hole(c) == CASE c.pc = "shift" -> c.idx
             [] c.pc = "drop" -> wsClientCount - 1
             [] OTHER -> -1

Present(f, hole) ==
    \E i \in (0 .. wsClientCount - 1) \ {hole} : wsClientFds[i] = f

(* The client the running operation is about: it is being taken into the   *)
(* list, or its session is about to end.                                   *)
OnItsWay(c, f) ==
    f = c.fd /\ \/ c.pc \in {"known", "append", "close"}
                \/ Leaving(c) /\ c.next = "close"

(* EveryClientListed at every position of an operation: what is removed    *)
(* without its session's end was excused before.                           *)
Remembered(c) ==
    /\ \A f \in Fds : session[f] = "ws" =>
          f \in excused \/ Present(f, Hole(c)) \/ OnItsWay(c, f)
    /\ Leaving(c) /\ c.next # "close" => c.fd \in excused \cup {NoFd}
    /\ c.pc = "failed" => wsClientFds[c.at] \in excused \cup {NoFd}

RememberInv ==
    ~concurrent => \A t \in Tasks : MayRun(t) => Remembered(call[t])

(* Between operations an idle task remembers what any other does.          *)
LEMMA RememberCall ==
    ASSUME ~concurrent, ~concurrent', NEW t \in Tasks, MayRun(t),
           \A u \in Tasks \ {t} : call'[u] = call[u], Remembered(call[t])'
    PROVE  RememberInv'
  <1> SUFFICES ASSUME NEW u \in Tasks, MayRun(u)', u # t
               PROVE  Remembered(call[u])'
    BY DEF RememberInv
  <1>1. call'[u].pc = "idle" /\ call'[t].pc = "idle"
    BY DEF MayRun, At
  <1> QED BY <1>1 DEF Remembered, Hole, OnItsWay, Leaving

(* Positions outside a removal, at which everybody is listed or excused.   *)
LEMMA RememberAll ==
    ASSUME NEW t \in Tasks,
           call'[t].pc \in {"idle", "send"},
           \A f \in Fds : session'[f] = "ws" =>
               f \in excused' \/ Present(f, -1)'
    PROVE  Remembered(call[t])'
  BY DEF Remembered, Hole, OnItsWay, Leaving

(* The start of a removal, by httpd or by a broadcast.                     *)
LEMMA RememberFindStarts ==
    ASSUME NEW t \in Tasks, call'[t].pc = "find",
           \A f \in Fds : session'[f] = "ws" =>
               \/ f \in excused' \/ Present(f, -1)'
               \/ f = call'[t].fd /\ call'[t].next = "close",
           call'[t].next # "close" => call'[t].fd \in excused' \cup {NoFd}
    PROVE  Remembered(call[t])'
  BY DEF Remembered, Hole, OnItsWay, Leaving

(* Its end.                                                                *)
LEMMA RememberReturn ==
    ASSUME TypeInv, NEW t \in Tasks, Return(t), Leaving(call[t]),
           UNCHANGED excused,
           \A f \in Fds : session'[f] = "ws" =>
               f \in excused \/ Present(f, -1)' \/ OnItsWay(call[t], f),
           call[t].next # "close" => call[t].fd \in excused \cup {NoFd}
    PROVE  Remembered(call[t])'
  <1>1. /\ call \in [Tasks -> Call]
        /\ call[t].next \in {"idle", "close", "send"}
    BY DEF TypeInv, TypeOK, Call
  <1>2. ASSUME NEW f \in Fds, OnItsWay(call[t], f) PROVE f = call[t].fd /\ call[t].next = "close"
    BY <1>2 DEF OnItsWay, Leaving
  <1>3. CASE call[t].next = "close"
    <2>1. call' = [call EXCEPT ![t] = Closing(call[t].fd)]
      BY <1>3 DEF Return, Become
    <2>2. call'[t].pc = "close" /\ call'[t].fd = call[t].fd
      BY <1>1, <2>1 DEF Closing, CallAt
    <2> QED BY <1>2, <2>2 DEF Remembered, Hole, OnItsWay, Leaving
  <1>4. CASE call[t].next # "close"
    <2>1. call' = [call EXCEPT ![t] = Idle]
          \/ call' = [call EXCEPT ![t] = Sending(call[t].at)]
      BY <1>1, <1>4 DEF Return, Become
    <2>2. call'[t].pc \in {"idle", "send"}
      BY <1>1, <2>1 DEF Idle, Sending, CallAt
    <2>3. \A f \in Fds : session'[f] = "ws" => f \in excused' \/ Present(f, -1)'
      BY <1>2, <1>4
    <2> QED BY <2>2, <2>3, RememberAll
  <1> QED BY <1>3, <1>4

(* The removal's own steps.                                                *)
LEMMA RememberRemoval ==
    ASSUME TypeInv, NEW t \in Tasks, Here(t), Remembered(call[t]),
           Find(t) \/ Shift(t) \/ Drop(t)
    PROVE  Remembered(call[t])'
  <1> DEFINE c == call[t]
             n == wsClientCount
  <1>1. /\ call \in [Tasks -> Call] /\ c \in Call /\ c.idx \in Nat /\ n \in Int
        /\ wsClientFds \in [Slots -> Descriptors]
        /\ n <= MAX_WS_CLIENTS /\ MAX_WS_CLIENTS \in Nat
    BY ServerAssumption DEF TypeInv, TypeOK, Call
  <1>2. /\ UNCHANGED <<session, excused>> /\ Leaving(c)
    BY DEF Find, Shift, Drop, At, Leaving, history
  <1>3. c.next # "close" => c.fd \in excused \cup {NoFd}
    BY <1>2 DEF Remembered
  <1>4. \A f \in Fds : session'[f] = "ws" =>
            f \in excused \/ Present(f, Hole(c)) \/ OnItsWay(c, f)
    BY <1>2 DEF Remembered
  <1>5. \A f \in Fds : OnItsWay(c, f) <=> f = c.fd /\ c.next = "close"
    BY <1>2 DEF OnItsWay, Leaving
  <1>6. ASSUME call'[t].pc \in {"find", "shift", "drop"},
               call'[t].fd = c.fd, call'[t].next = c.next,
               \A f \in Fds : session'[f] = "ws" =>
                   f \in excused \/ Present(f, Hole(call[t]))' \/ OnItsWay(c, f)
        PROVE  Remembered(call[t])'
    BY <1>2, <1>3, <1>5, <1>6 DEF Remembered, OnItsWay, Leaving
  <1>7. CASE Find(t)
    <2>1. c.pc = "find" /\ Hole(c) = -1
          /\ UNCHANGED <<wsClientFds, wsClientCount>>
      BY <1>7 DEF Find, At, Hole, list
    <2>2. \A f \in Fds, h \in Int : Present(f, h)' <=> Present(f, h)
      BY <2>1 DEF Present
    <2>3. CASE c.idx >= n
      <3>1. Return(t)
        BY <1>7, <2>3 DEF Find
      <3>2. \A f \in Fds : Present(f, -1)' <=> Present(f, Hole(c))
        BY <2>1, <2>2
      <3> QED BY <1>2, <1>3, <1>4, <3>1, <3>2, RememberReturn
    <2>4. CASE c.idx < n /\ wsClientFds[c.idx] = c.fd
      <3>1. call' = [call EXCEPT ![t].pc = "shift"]
        BY <1>1, <1>7, <2>4 DEF Find, Goto
      <3>2. /\ call'[t].pc = "shift" /\ call'[t].idx = c.idx
            /\ call'[t].fd = c.fd /\ call'[t].next = c.next
        BY <1>1, <3>1 DEF Call
      <3>3. \A f \in Fds : Present(f, -1) => f = c.fd \/ Present(f, c.idx)
        BY <2>4 DEF Present
      <3>4. c.fd \in Fds => c.fd \in excused \/ OnItsWay(c, c.fd)
        BY <1>3, <1>5, ServerAssumption
      <3>5. \A f \in Fds : Present(f, Hole(call[t]))' <=> Present(f, c.idx)
        BY <1>1, <2>2, <3>2 DEF Hole
      <3> QED BY <1>4, <1>6, <2>1, <3>2, <3>3, <3>4, <3>5
    <2>5. CASE c.idx < n /\ wsClientFds[c.idx] # c.fd
      <3>1. call' = [call EXCEPT ![t].idx = @ + 1]
        BY <1>1, <1>7, <2>5 DEF Find, NextIndex
      <3>2. /\ call'[t].pc = "find" /\ call'[t].fd = c.fd
            /\ call'[t].next = c.next
        BY <1>1, <2>1, <3>1 DEF Call
      <3>3. \A f \in Fds : Present(f, Hole(call[t]))' <=> Present(f, Hole(c))
        BY <2>1, <2>2, <3>2 DEF Hole
      <3> QED BY <1>4, <1>6, <3>2, <3>3
    <2> QED BY <1>1, <2>3, <2>4, <2>5
  <1>8. CASE Shift(t)
    <2>1. c.pc = "shift" /\ Hole(c) = c.idx /\ wsClientCount' = n
          /\ c.idx \in 0 .. n - 1
      BY <1>8 DEF Shift, At, Hole, Here, Midway
    <2>2. CASE MoreToShift(c.idx)
      <3>1. /\ wsClientFds' = [wsClientFds EXCEPT ![c.idx] = wsClientFds[c.idx + 1]]
            /\ call' = [call EXCEPT ![t].idx = @ + 1]
        BY <1>8, <2>2 DEF Shift, NextIndex
      <3>2. /\ call'[t].pc = "shift" /\ call'[t].idx = c.idx + 1
            /\ call'[t].fd = c.fd /\ call'[t].next = c.next
        BY <1>1, <2>1, <3>1 DEF Call
      <3>3. c.idx \in Slots /\ c.idx + 1 \in 0 .. n - 1
        BY <1>1, <2>1, <2>2 DEF MoreToShift, Slots
      <3>4. /\ wsClientFds'[c.idx] = wsClientFds[c.idx + 1]
            /\ \A j \in (0 .. n - 1) \ {c.idx} : wsClientFds'[j] = wsClientFds[j]
        BY <1>1, <3>1, <3>3 DEF Slots
      <3>5. \A f \in Fds : Present(f, c.idx) => Present(f, Hole(call[t]))'
        <4> SUFFICES ASSUME NEW f \in Fds, NEW j \in (0 .. n - 1) \ {c.idx},
                            wsClientFds[j] = f
                     PROVE  Present(f, Hole(call[t]))'
          BY DEF Present
        <4>1. Hole(call[t])' = c.idx + 1
          BY <3>2 DEF Hole
        <4>2. CASE j = c.idx + 1
          <5>1. c.idx \in (0 .. n - 1) \ {c.idx + 1} /\ wsClientFds'[c.idx] = f
            BY <1>1, <2>1, <3>4, <4>2
          <5> QED BY <2>1, <4>1, <5>1 DEF Present
        <4>3. CASE j # c.idx + 1
          BY <2>1, <3>4, <4>1, <4>3 DEF Present
        <4> QED BY <4>2, <4>3
      <3> QED BY <1>4, <1>6, <2>1, <3>2, <3>5
    <2>3. CASE ~MoreToShift(c.idx)
      <3>1. /\ UNCHANGED wsClientFds
            /\ call' = [call EXCEPT ![t].pc = "drop", ![t].seen = wsClientCount]
        BY <1>8, <2>3 DEF Shift, Read
      <3>2. /\ call'[t].pc = "drop" /\ call'[t].fd = c.fd
            /\ call'[t].next = c.next
        BY <1>1, <3>1 DEF Call
      <3>3. c.idx = n - 1
        BY <1>1, <2>1, <2>3 DEF MoreToShift
      <3>4. Hole(call[t])' = c.idx
        BY <2>1, <3>2, <3>3 DEF Hole
      <3>5. \A f \in Fds : Present(f, c.idx) => Present(f, Hole(call[t]))'
        BY <2>1, <3>1, <3>4 DEF Present
      <3> QED BY <1>4, <1>6, <2>1, <3>2, <3>5
    <2> QED BY <2>2, <2>3
  <1>9. CASE Drop(t)
    <2>1. /\ c.pc = "drop" /\ Hole(c) = n - 1 /\ Return(t)
          /\ UNCHANGED wsClientFds /\ wsClientCount' = n - 1
      BY <1>9 DEF Drop, At, Hole, Here, Midway
    <2>2. \A f \in Fds : Present(f, Hole(c)) => Present(f, -1)'
      BY <1>1, <2>1 DEF Present
    <2> QED BY <1>2, <1>3, <1>4, <2>1, <2>2, RememberReturn
  <1> QED BY <1>7, <1>8, <1>9

(* httpd's handlers: whoever becomes a WebSocket client is on its way into *)
(* the list, or finds it full.                                             *)
LEMMA RememberHttpd ==
    ASSUME TypeInv, Here(Httpd), Remembered(call[Httpd]),
           \/ Known \/ AppendClient \/ Close
           \/ \E f \in Fds : Accept(f) \/ Upgrade(f) \/ CloseFrame(f) \/ OnClose(f)
    PROVE  Remembered(call[Httpd])'
  <1> DEFINE c == call[Httpd]
             n == wsClientCount
  <1>1. /\ Httpd \in Tasks /\ call \in [Tasks -> Call] /\ c \in Call
        /\ c.idx \in Nat /\ n \in Int
        /\ wsClientFds \in [Slots -> Descriptors]
        /\ n <= MAX_WS_CLIENTS /\ MAX_WS_CLIENTS \in Nat
        /\ session \in [Fds -> {"none", "http", "ws"}]
        /\ Bounded(c)
    BY ServerAssumption DEF TypeInv, TypeOK, Call, Tasks
  <1>2. \A f \in Fds : session[f] = "ws" =>
            f \in excused \/ Present(f, Hole(c)) \/ OnItsWay(c, f)
    BY DEF Remembered
  <1>3. ~Leaving(c) /\ c.pc \in {"idle", "known", "append", "close"}
    BY DEF Known, AppendClient, Close, Accept, Upgrade, CloseFrame, OnClose, HttpdFree,
           At, Leaving
  <1>4. Hole(c) = -1
    BY <1>3 DEF Hole
  <1>5. ASSUME UNCHANGED <<wsClientFds, wsClientCount>>
        PROVE  \A f \in Fds : Present(f, -1)' <=> Present(f, -1)
    BY <1>5 DEF Present
  <1>6. CASE Known
    <2>1. /\ c.pc = "known"
          /\ UNCHANGED <<wsClientFds, wsClientCount, session, excused>>
      BY <1>6 DEF Known, At, list, history
    <2>2. \A f \in Fds : OnItsWay(c, f) <=> f = c.fd
      BY <2>1 DEF OnItsWay
    <2>3. \A f \in Fds : session'[f] = "ws" =>
             f \in excused' \/ Present(f, -1)' \/ f = c.fd
      BY <1>2, <1>4, <1>5, <2>1, <2>2
    <2>4. CASE c.idx >= n
      <3>1. call' = [call EXCEPT ![Httpd].pc = "append",
                                 ![Httpd].seen = wsClientCount]
        BY <1>6, <2>4 DEF Known, Read
      <3>2. call'[Httpd].pc = "append" /\ call'[Httpd].fd = c.fd
        BY <1>1, <3>1 DEF Call
      <3> QED BY <2>3, <3>2 DEF Remembered, Hole, OnItsWay, Leaving
    <2>5. CASE c.idx < n /\ wsClientFds[c.idx] = c.fd
      <3>1. Become(Httpd, Idle)
        BY <1>1, <1>6, <2>5 DEF Known
      <3>2. call'[Httpd].pc = "idle"
        BY <1>1, <3>1 DEF Become, Idle, CallAt
      <3>3. \A f \in Fds : f = c.fd => Present(f, -1)'
        BY <1>1, <2>1, <2>5 DEF Present
      <3> QED BY <1>1, <2>3, <3>2, <3>3, RememberAll
    <2>6. CASE c.idx < n /\ wsClientFds[c.idx] # c.fd
      <3>1. call' = [call EXCEPT ![Httpd].idx = @ + 1]
        BY <1>1, <1>6, <2>6 DEF Known, NextIndex
      <3>2. call'[Httpd].pc = "known" /\ call'[Httpd].fd = c.fd
        BY <1>1, <2>1, <3>1 DEF Call
      <3> QED BY <2>3, <3>2 DEF Remembered, Hole, OnItsWay, Leaving
    <2> QED BY <1>1, <2>4, <2>5, <2>6
  <1>7. CASE AppendClient
    <2>1. /\ c.pc = "append" /\ c.seen = n /\ n >= 0
          /\ UNCHANGED <<session, excused>>
      BY <1>7 DEF AppendClient, At, Here, Midway, Removing, SoundBut, history
    <2>2. \A f \in Fds : OnItsWay(c, f) <=> f = c.fd
      BY <2>1 DEF OnItsWay
    <2>3. n \in Slots /\ n < MAX_WS_CLIENTS
      BY <1>1, <2>1 DEF Bounded, Slots
    <2>4. /\ wsClientCount' = n + 1
          /\ \A j \in Slots :
                wsClientFds'[j] = IF j = n THEN c.fd ELSE wsClientFds[j]
      BY <1>7, <2>1 DEF AppendClient
    <2>5. \A j \in 0 .. n : j \in Slots
      BY <1>1, <2>3 DEF Slots
    <2>6. \A f \in Fds : f = c.fd \/ Present(f, -1) => Present(f, -1)'
      BY <1>1, <2>1, <2>3, <2>4, <2>5 DEF Present
    <2>7. call'[Httpd].pc = "idle"
      BY <1>1, <1>7 DEF AppendClient, Become, Idle, CallAt
    <2> QED BY <1>1, <1>2, <1>4, <2>1, <2>2, <2>6, <2>7, RememberAll
  <1>8. CASE Close
    <2>1. /\ c.pc = "close"
          /\ session' = [session EXCEPT ![c.fd] = "none"]
          /\ excused' = excused \ {c.fd}
          /\ UNCHANGED <<wsClientFds, wsClientCount>>
      BY <1>8 DEF Close, At, list
    <2>2. \A f \in Fds : OnItsWay(c, f) <=> f = c.fd
      BY <2>1 DEF OnItsWay
    <2>3. \A f \in Fds : session'[f] = "ws" => f # c.fd /\ session[f] = "ws"
      BY <1>1, <2>1
    <2>4. call'[Httpd].pc = "idle"
      BY <1>1, <1>8 DEF Close, Become, Idle, CallAt
    <2> QED BY <1>1, <1>2, <1>4, <1>5, <2>1, <2>2, <2>3, <2>4, RememberAll
  <1>9. ASSUME NEW f \in Fds, Accept(f) \/ Upgrade(f) \/ CloseFrame(f) \/ OnClose(f)
        PROVE  Remembered(call[Httpd])'
    <2>1. /\ c.pc = "idle"
          /\ UNCHANGED <<wsClientFds, wsClientCount>>
      BY <1>9 DEF Accept, Upgrade, CloseFrame, OnClose, HttpdFree, At, list
    <2>2. \A g \in Fds : session[g] = "ws" => g \in excused \/ Present(g, -1)'
      BY <1>2, <1>4, <1>5, <2>1 DEF OnItsWay, Leaving
    <2>3. CASE Accept(f)
      BY <1>1, <2>1, <2>2, <2>3, RememberAll DEF Accept, history
    <2>4. CASE Upgrade(f) /\ ListFull
      BY <1>1, <2>1, <2>2, <2>4, RememberAll DEF Upgrade
    <2>5. CASE Upgrade(f) /\ ~ListFull
      <3>1. /\ call' = [call EXCEPT ![Httpd] = Connecting(f)]
            /\ session' = [session EXCEPT ![f] = "ws"] /\ excused' = excused
        BY <2>5 DEF Upgrade, Become
      <3>2. call'[Httpd].pc = "known" /\ call'[Httpd].fd = f
        BY <1>1, <3>1 DEF Connecting, CallAt
      <3> QED BY <1>1, <2>2, <3>1, <3>2 DEF Remembered, Hole, OnItsWay, Leaving
    <2>6. CASE CloseFrame(f)
      <3>1. /\ call' = [call EXCEPT ![Httpd] = CallAt("find", f, -1, "idle")]
            /\ session' = session /\ excused' = excused \cup {f}
        BY <2>6 DEF CloseFrame, Disconnect, Become
      <3>2. call'[Httpd].pc = "find" /\ call'[Httpd].fd = f
        BY <1>1, <3>1 DEF CallAt
      <3> QED BY <1>1, <2>2, <3>1, <3>2, RememberFindStarts
    <2>7. CASE OnClose(f)
      <3>1. /\ call' = [call EXCEPT ![Httpd] = CallAt("find", f, -1, "close")]
            /\ session' = session /\ excused' = excused
        BY <2>7 DEF OnClose, Disconnect, Become, history
      <3>2. call'[Httpd].pc = "find" /\ call'[Httpd].next = "close"
        BY <1>1, <3>1 DEF CallAt
      <3> QED BY <1>1, <2>2, <3>1, <3>2, RememberFindStarts
    <2> QED BY <1>9, <2>3, <2>4, <2>5, <2>6, <2>7
  <1> QED BY <1>6, <1>7, <1>8, <1>9

(* A broadcast excuses a client before it takes it off the list.           *)
LEMMA RememberSender ==
    ASSUME TypeInv, NEW s \in Senders, Remembered(call[s]),
           WsBroadcast(s) \/ Send(s) \/ Failed(s) \/ Sent(s)
    PROVE  Remembered(call[s])'
  <1> DEFINE c == call[s]
  <1>1. s \in Tasks /\ call \in [Tasks -> Call] /\ c \in Call /\ c.at \in Int
        /\ wsClientFds \in [Slots -> Descriptors] /\ Bounded(c)
    BY DEF TypeInv, TypeOK, Tasks, Call
  <1>2. /\ c.pc \in {"idle", "send", "failed"}
        /\ UNCHANGED <<wsClientFds, wsClientCount, session>>
    BY DEF WsBroadcast, Send, Failed, Sent, At, list
  <1>3. \A f \in Fds : session'[f] = "ws" => f \in excused \/ Present(f, -1)
    BY <1>2 DEF Remembered, Hole, OnItsWay, Leaving
  <1>4. \A f \in Fds : Present(f, -1)' <=> Present(f, -1)
    BY <1>2 DEF Present
  <1>5. CASE WsBroadcast(s) \/ Sent(s)
    <2>1. PICK d \in {Idle, Sending(wsClientCount - 1)} :
             call' = [call EXCEPT ![s] = d]
      BY <1>5 DEF WsBroadcast, Sent, Become
    <2>2. call'[s].pc \in {"idle", "send"} /\ excused' = excused
      BY <1>1, <1>5, <2>1 DEF Idle, Sending, CallAt, WsBroadcast, Sent
    <2> QED BY <1>1, <1>3, <1>4, <2>2, RememberAll
  <1>6. CASE Send(s)
    <2>1. CASE call' = [call EXCEPT ![s].at = @ - 1] /\ excused' = excused
      <3>1. call'[s].pc = "send"
        BY <1>1, <1>6, <2>1 DEF Send, At, Call
      <3> QED BY <1>1, <1>3, <1>4, <2>1, <3>1, RememberAll
    <2>2. CASE /\ Goto(s, "failed")
               /\ excused' = excused \cup ({wsClientFds[c.at]} \cap Fds)
      <3>1. call'[s].pc = "failed" /\ call'[s].at = c.at
        BY <1>1, <2>2 DEF Goto, Call
      <3>2. wsClientFds[c.at] \in Descriptors
        BY <1>1, <1>6, ServerAssumption DEF Send, MoreToSend, Bounded, Slots
      <3>3. wsClientFds'[c.at] \in excused' \cup {NoFd}
        BY <1>2, <2>2, <3>2 DEF Descriptors
      <3> QED BY <1>3, <1>4, <2>2, <3>1, <3>3
              DEF Remembered, Hole, OnItsWay, Leaving
    <2> QED BY <1>6, <2>1, <2>2 DEF Send
  <1>7. CASE Failed(s)
    <2>1. /\ call' = [call EXCEPT ![s] =
                        CallAt("find", wsClientFds[c.at], c.at - 1, "send")]
          /\ excused' = excused /\ c.pc = "failed"
      BY <1>7 DEF Failed, Disconnect, Become, At, history
    <2>2. wsClientFds[c.at] \in excused \cup {NoFd}
      BY <2>1 DEF Remembered
    <2>3. call'[s].pc = "find" /\ call'[s].fd = wsClientFds[c.at]
      BY <1>1, <2>1 DEF CallAt
    <2> QED BY <1>1, <1>3, <1>4, <2>1, <2>2, <2>3, RememberFindStarts
  <1> QED BY <1>5, <1>6, <1>7

(* stop() forgets clients whose sessions have all ended.                   *)
LEMMA RememberSetup ==
    ASSUME TypeInv, RememberInv, Setup \/ UNCHANGED vars PROVE RememberInv'
  <1>1. UNCHANGED <<call, concurrent, session, wsClientFds, excused>>
    BY DEF Setup, Start, EnableWebSocket, Ready, Stop, Stopped,
           vars, server, list, history
  <1>2. CASE UNCHANGED wsClientCount
    BY <1>1, <1>2
    DEF RememberInv, MayRun, At, Remembered, Hole, Present, OnItsWay, Leaving
  <1>3. CASE Stopped
    <2>1. AllIdle /\ \A f \in Fds : session[f] = "none"
      BY <1>3 DEF Stopped, SendersIdle, AllIdle, Tasks
    <2> QED BY <1>1, <2>1
            DEF RememberInv, AllIdle, At, Remembered, Leaving
  <1> QED
    BY <1>2, <1>3
    DEF Setup, Start, EnableWebSocket, Ready, Stop, vars, list

(* A step of a task that may run, given what it does to what is remembered.*)
LEMMA RememberStep ==
    TypeInv /\ SerialInv /\ RememberInv /\ [Next]_vars => RememberInv'
  <1> SUFFICES ASSUME TypeInv, SerialInv, RememberInv, [Next]_vars
               PROVE  RememberInv'
    OBVIOUS
  <1>1. CASE Setup \/ UNCHANGED vars
    BY <1>1, RememberSetup
  <1>2. ASSUME NEW t \in Tasks, concurrent' = concurrent,
               MayRun(t),
               Here(t) => \A u \in Tasks \ {t} : call'[u] = call[u],
               Here(t) /\ Remembered(call[t]) => Remembered(call[t])'
        PROVE  RememberInv'
    <2>1. CASE concurrent
      BY <1>2, <2>1 DEF RememberInv
    <2>2. CASE ~concurrent
      <3>1. Here(t) /\ Remembered(call[t])
        BY <1>2, <2>2, SerialHere DEF RememberInv
      <3> QED BY <1>2, <2>2, <3>1, RememberCall
    <2> QED BY <2>1, <2>2
  <1>3. ASSUME NEW t \in Tasks, Find(t) \/ Shift(t) \/ Drop(t)
        PROVE  RememberInv'
    <2>1. MayRun(t) /\ concurrent' = concurrent
      BY <1>3 DEF Find, Shift, Drop, server
    <2> QED BY <1>2, <1>3, <2>1, SerialFind, SerialShift, SerialDrop,
               RememberRemoval
  <1>4. ASSUME \/ Known \/ AppendClient \/ Close
               \/ \E f \in Fds :
                     Accept(f) \/ Upgrade(f) \/ CloseFrame(f) \/ OnClose(f)
        PROVE  RememberInv'
    <2>1. MayRun(Httpd) /\ concurrent' = concurrent /\ Httpd \in Tasks
      BY <1>4 DEF Known, AppendClient, Close, Accept, Upgrade, CloseFrame, OnClose,
                  HttpdFree, server, Tasks
    <2> QED BY <1>2, <1>4, <2>1, SerialHttpd, RememberHttpd
  <1>5. ASSUME NEW s \in Senders,
               WsBroadcast(s) \/ Send(s) \/ Failed(s) \/ Sent(s)
        PROVE  RememberInv'
    <2>1. MayRun(s) /\ concurrent' = concurrent /\ s \in Tasks
      BY <1>5 DEF WsBroadcast, Send, Failed, Sent, server, Tasks
    <2> QED BY <1>2, <1>5, <2>1, SerialSender, RememberSender
  <1>6. CASE HttpdTask
    BY <1>3, <1>4, <1>6 DEF HttpdTask, Tasks
  <1>7. ASSUME NEW s \in Senders, SenderTask(s) PROVE RememberInv'
    BY <1>3, <1>5, <1>7 DEF SenderTask, Tasks
  <1> QED BY <1>1, <1>6, <1>7 DEF Next

(* Nobody is forgotten: for every number of sockets and places, a WebSocket*)
(* connection is in the list of wsBroadcast unless the list was full when  *)
(* it came, a send to it failed or it sent a close frame.                  *)
THEOREM NobodyForgotten == Spec => []EveryClientListed
  <1>1. Init => RememberInv
    BY DEF Init, RememberInv, Remembered, Hole, OnItsWay, Leaving, Idle, CallAt
  <1>2. TypeInv /\ RememberInv => EveryClientListed
    <2> SUFFICES ASSUME TypeInv, RememberInv, AllIdle, ~concurrent,
                        NEW f \in Fds, session[f] = "ws"
                 PROVE  f \in Listed \cup excused
      BY DEF EveryClientListed
    <2>1. Httpd \in Tasks /\ call[Httpd].pc = "idle" /\ MayRun(Httpd)
      BY DEF Tasks, AllIdle, MayRun, At
    <2>2. Remembered(call[Httpd])
      BY <2>1 DEF RememberInv
    <2>3. f \in excused \/ Present(f, -1)
      BY <2>1, <2>2 DEF Remembered, Hole, OnItsWay, Leaving
    <2> QED BY <2>3 DEF Present, Listed
  <1> QED BY <1>1, <1>2, RememberStep, SerialInvariant, TypeInvariant, PTL DEF Spec
-----------------------------------------------------------------------------
(***************************************************************************)
(* A broadcast reaches everybody.                                          *)
(***************************************************************************)

(* The clients a broadcast still has to send to.                           *)
Ahead(s) == {wsClientFds[i] : i \in 0 .. call[s].at}

(* The walk runs down, and what its removals move lies behind it.          *)
Progress(s) ==
    LET c == call[s] IN
    /\ c.pc = "idle" => tried[s] = {}
    /\ c.pc # "idle" =>
          /\ c.pc \in {"send", "failed"} \/ (Leaving(c) /\ c.next = "send")
          /\ due[s] = tried[s] \cup Ahead(s)
          /\ c.at < wsClientCount
    /\ c.pc = "failed" => wsClientFds[c.at] \in tried[s]
    /\ Leaving(c) => \A i \in 0 .. c.at : wsClientFds[i] # c.fd
    /\ c.pc = "shift" => c.at < c.idx
    /\ c.pc = "drop" => c.at < wsClientCount - 1

BroadcastInv == ~concurrent => \A s \in Senders : Progress(s)

(* What a sender's step leaves to the others, which are idle.              *)
LEMMA OthersWait ==
    ASSUME ~concurrent, ~concurrent', NEW t \in Tasks, MayRun(t), BroadcastInv,
           \A u \in Tasks \ {t} : call'[u] = call[u],
           \A u \in Senders \ {t} : tried'[u] = tried[u],
           t \in Senders => Progress(t)'
    PROVE  BroadcastInv'
  <1> SUFFICES ASSUME NEW s \in Senders, s # t PROVE Progress(s)'
    BY DEF BroadcastInv
  <1>1. call'[s].pc = "idle" /\ tried'[s] = {}
    BY DEF BroadcastInv, Progress, MayRun, At, Tasks
  <1> QED BY <1>1 DEF Progress, Leaving

(* A broadcast that goes on from where it was.                             *)
LEMMA ProgressKept ==
    ASSUME TypeInv, NEW s \in Senders, Progress(s), call[s].pc # "idle",
           call'[s].pc \in {"send"} \/ Leaving(call'[s]),
           call'[s].at = call[s].at,
           Leaving(call'[s]) => /\ call'[s].next = "send" /\ Leaving(call[s])
                                /\ call'[s].fd = call[s].fd,
           UNCHANGED <<due, tried>>,
           \A i \in 0 .. call[s].at : wsClientFds'[i] = wsClientFds[i],
           call[s].at < wsClientCount',
           call'[s].pc = "shift" => call[s].at < call'[s].idx,
           call'[s].pc = "drop" => call[s].at < wsClientCount' - 1
    PROVE  Progress(s)'
  <1>1. Ahead(s)' = Ahead(s)
    BY DEF Ahead
  <1>2. call'[s].pc \in {"send", "find", "shift", "drop"}
    BY DEF Leaving
  <1> QED BY <1>1, <1>2 DEF Progress, Leaving

(* The removal a failed send makes.                                        *)
LEMMA ProgressRemoval ==
    ASSUME TypeInv, NEW s \in Senders, Here(s), Progress(s),
           Find(s) \/ Shift(s) \/ Drop(s)
    PROVE  Progress(s)'
  <1> DEFINE c == call[s]
             n == wsClientCount
  <1>1. /\ s \in Tasks /\ call \in [Tasks -> Call] /\ c \in Call
        /\ c.idx \in Nat /\ c.at \in Int /\ n \in Int
        /\ wsClientFds \in [Slots -> Descriptors]
        /\ n <= MAX_WS_CLIENTS /\ MAX_WS_CLIENTS \in Nat
    BY ServerAssumption DEF TypeInv, TypeOK, Tasks, Call
  <1>2. /\ UNCHANGED <<due, tried>> /\ Leaving(c) /\ c.pc # "idle"
    BY DEF Find, Shift, Drop, At, Leaving, history
  <1>3. /\ c.next = "send" /\ c.at < n
        /\ \A i \in 0 .. c.at : wsClientFds[i] # c.fd
    BY <1>2 DEF Progress, Leaving
  <1>4. ASSUME Return(s), \A i \in 0 .. c.at : wsClientFds'[i] = wsClientFds[i],
               c.at < wsClientCount'
        PROVE  Progress(s)'
    <2>1. call' = [call EXCEPT ![s] = Sending(c.at)]
      BY <1>3, <1>4 DEF Return, Become
    <2>2. call'[s].pc = "send" /\ call'[s].at = c.at
      BY <1>1, <2>1 DEF Sending, CallAt
    <2> QED BY <1>2, <1>4, <2>2, ProgressKept DEF Leaving
  <1>5. CASE Find(s)
    <2>1. c.pc = "find" /\ UNCHANGED <<wsClientFds, wsClientCount>>
      BY <1>5 DEF Find, At, list
    <2>2. CASE c.idx >= n
      BY <1>3, <1>4, <1>5, <2>1, <2>2 DEF Find
    <2>3. CASE c.idx < n /\ wsClientFds[c.idx] = c.fd
      <3>1. call' = [call EXCEPT ![s].pc = "shift"]
        BY <1>1, <1>5, <2>3 DEF Find, Goto
      <3>2. /\ call'[s].pc = "shift" /\ call'[s].idx = c.idx
            /\ call'[s].at = c.at /\ call'[s].fd = c.fd
            /\ call'[s].next = c.next
        BY <1>1, <3>1 DEF Call
      <3>3. c.at < c.idx
        BY <1>1, <1>3, <2>3
      <3> QED BY <1>2, <1>3, <2>1, <3>2, <3>3, ProgressKept DEF Leaving
    <2>4. CASE c.idx < n /\ wsClientFds[c.idx] # c.fd
      <3>1. call' = [call EXCEPT ![s].idx = @ + 1]
        BY <1>1, <1>5, <2>4 DEF Find, NextIndex
      <3>2. /\ call'[s].pc = "find" /\ call'[s].at = c.at
            /\ call'[s].fd = c.fd /\ call'[s].next = c.next
        BY <1>1, <2>1, <3>1 DEF Call
      <3> QED BY <1>2, <1>3, <2>1, <3>2, ProgressKept DEF Leaving
    <2> QED BY <1>1, <2>2, <2>3, <2>4
  <1>6. CASE Shift(s)
    <2>1. /\ c.pc = "shift" /\ wsClientCount' = n /\ c.idx \in 0 .. n - 1
          /\ c.at < c.idx
      BY <1>6 DEF Shift, At, Here, Midway, Progress
    <2>2. CASE MoreToShift(c.idx)
      <3>1. /\ wsClientFds' = [wsClientFds EXCEPT ![c.idx] = wsClientFds[c.idx + 1]]
            /\ call' = [call EXCEPT ![s].idx = @ + 1]
        BY <1>6, <2>2 DEF Shift, NextIndex
      <3>2. /\ call'[s].pc = "shift" /\ call'[s].idx = c.idx + 1
            /\ call'[s].at = c.at /\ call'[s].fd = c.fd
            /\ call'[s].next = c.next
        BY <1>1, <2>1, <3>1 DEF Call
      <3>3. \A i \in 0 .. c.at : wsClientFds'[i] = wsClientFds[i]
        BY <1>1, <2>1, <3>1 DEF Slots
      <3>4. c.at < c.idx + 1
        BY <1>1, <2>1
      <3> QED BY <1>2, <1>3, <2>1, <3>2, <3>3, <3>4, ProgressKept DEF Leaving
    <2>3. CASE ~MoreToShift(c.idx)
      <3>1. /\ UNCHANGED wsClientFds
            /\ call' = [call EXCEPT ![s].pc = "drop", ![s].seen = wsClientCount]
        BY <1>6, <2>3 DEF Shift, Read
      <3>2. /\ call'[s].pc = "drop" /\ call'[s].at = c.at
            /\ call'[s].fd = c.fd /\ call'[s].next = c.next
        BY <1>1, <3>1 DEF Call
      <3>3. c.at < n - 1
        BY <1>1, <2>1, <2>3 DEF MoreToShift
      <3> QED BY <1>2, <1>3, <2>1, <3>1, <3>2, <3>3, ProgressKept DEF Leaving
    <2> QED BY <2>2, <2>3
  <1>7. CASE Drop(s)
    <2>1. /\ c.pc = "drop" /\ Return(s) /\ c.at < n - 1
          /\ UNCHANGED wsClientFds /\ wsClientCount' = n - 1
      BY <1>7 DEF Drop, At, Here, Midway, Progress
    <2> QED BY <1>4, <2>1
  <1> QED BY <1>5, <1>6, <1>7

(* The broadcast's own steps.  A failed send looks its client up again, and*)
(* finds it where it was: the places before it hold others.                *)
LEMMA ProgressSender ==
    ASSUME TypeInv, NEW s \in Senders, Here(s), Progress(s),
           WsBroadcast(s) \/ Send(s) \/ Failed(s) \/ Sent(s)
    PROVE  Progress(s)'
  <1> DEFINE c == call[s]
             n == wsClientCount
  <1>1. /\ s \in Tasks /\ call \in [Tasks -> Call] /\ c \in Call
        /\ c.at \in Int /\ n \in Int
        /\ due \in [Senders -> SUBSET Descriptors]
        /\ tried \in [Senders -> SUBSET Descriptors]
    BY DEF TypeInv, TypeOK, Tasks, Call
  <1>2. UNCHANGED <<wsClientFds, wsClientCount>> /\ SoundBut(-1)
    BY DEF WsBroadcast, Send, Failed, Sent, list, At, Here, Midway, Removing
  <1>3. CASE WsBroadcast(s)
    <2>1. /\ c.pc = "idle" /\ call' = [call EXCEPT ![s] = Sending(n - 1)]
          /\ due' = [due EXCEPT ![s] = Listed] /\ tried' = tried
      BY <1>3 DEF WsBroadcast, At, Become
    <2>2. call'[s].pc = "send" /\ call'[s].at = n - 1
      BY <1>1, <2>1 DEF Sending, CallAt
    <2>3. due'[s] = Listed /\ tried'[s] = {}
      BY <1>1, <2>1 DEF Progress
    <2>4. Ahead(s)' = Listed
      BY <1>2, <2>2 DEF Ahead, Listed
    <2> QED BY <1>1, <1>2, <2>2, <2>3, <2>4 DEF Progress, Leaving
  <1>4. CASE Send(s)
    <2>1. /\ c.pc = "send" /\ c.at >= 0 /\ c.at < n
          /\ due[s] = tried[s] \cup Ahead(s)
          /\ due' = due
          /\ tried' = [tried EXCEPT ![s] = @ \cup {wsClientFds[c.at]}]
      BY <1>4 DEF Send, At, MoreToSend, Progress
    <2>2. tried'[s] = tried[s] \cup {wsClientFds[c.at]}
      BY <1>1, <2>1
    <2>3. CASE call' = [call EXCEPT ![s].at = @ - 1]
      <3>1. call'[s].pc = "send" /\ call'[s].at = c.at - 1
        BY <1>1, <2>1, <2>3 DEF Call
      <3>2. Ahead(s) = Ahead(s)' \cup {wsClientFds[c.at]}
        <4>1. \A i : i \in 0 .. c.at <=> i \in 0 .. c.at - 1 \/ i = c.at
          BY <1>1, <2>1
        <4> QED BY <1>2, <3>1, <4>1 DEF Ahead
      <3>3. due'[s] = tried'[s] \cup Ahead(s)'
        BY <2>1, <2>2, <3>2
      <3> QED BY <1>1, <1>2, <2>1, <3>1, <3>3 DEF Progress, Leaving
    <2>4. CASE Goto(s, "failed")
      <3>1. call'[s].pc = "failed" /\ call'[s].at = c.at
        BY <1>1, <2>4 DEF Goto, Call
      <3>2. Ahead(s)' = Ahead(s)
        BY <1>2, <3>1 DEF Ahead
      <3>3. wsClientFds[c.at] \in Ahead(s)
        BY <1>1, <2>1 DEF Ahead
      <3>4. due'[s] = tried'[s] \cup Ahead(s)'
        BY <2>1, <2>2, <3>2, <3>3
      <3> QED BY <1>2, <2>1, <2>2, <3>1, <3>4 DEF Progress, Leaving
    <2> QED BY <1>4, <2>3, <2>4 DEF Send
  <1>5. CASE Failed(s)
    <2>1. /\ c.pc = "failed" /\ c.at >= 0 /\ c.at < n
          /\ wsClientFds[c.at] \in tried[s]
          /\ due[s] = tried[s] \cup Ahead(s)
          /\ UNCHANGED <<due, tried>>
          /\ call' = [call EXCEPT ![s] =
                        CallAt("find", wsClientFds[c.at], c.at - 1, "send")]
      BY <1>1, <1>5
      DEF Failed, Disconnect, Become, At, history, Progress, TypeInv, Bounded
    <2>2. /\ call'[s].pc = "find" /\ call'[s].at = c.at - 1
          /\ call'[s].fd = wsClientFds[c.at] /\ call'[s].next = "send"
      BY <1>1, <2>1 DEF CallAt
    <2>3. Ahead(s) = Ahead(s)' \cup {wsClientFds[c.at]}
      <3>1. \A i : i \in 0 .. c.at <=> i \in 0 .. c.at - 1 \/ i = c.at
        BY <1>1, <2>1
      <3> QED BY <1>2, <2>2, <3>1 DEF Ahead
    <2>4. \A i \in 0 .. c.at - 1 : wsClientFds'[i] # wsClientFds[c.at]
      BY <1>1, <1>2, <2>1 DEF SoundBut
    <2>5. due'[s] = tried'[s] \cup Ahead(s)'
      BY <2>1, <2>3
    <2> QED BY <1>1, <1>2, <2>1, <2>2, <2>4, <2>5 DEF Progress, Leaving
  <1>6. CASE Sent(s)
    <2>1. /\ call' = [call EXCEPT ![s] = Idle]
          /\ tried' = [tried EXCEPT ![s] = {}]
      BY <1>6 DEF Sent, Become
    <2>2. call'[s].pc = "idle" /\ tried'[s] = {}
      BY <1>1, <2>1 DEF Idle, CallAt
    <2> QED BY <2>2 DEF Progress, Leaving
  <1> QED BY <1>3, <1>4, <1>5, <1>6

(* Every step keeps the account each broadcast has of clients yet to reach. *)
LEMMA BroadcastStep ==
    TypeInv /\ SerialInv /\ BroadcastInv /\ [Next]_vars => BroadcastInv'
  <1> SUFFICES ASSUME TypeInv, SerialInv, BroadcastInv, [Next]_vars
               PROVE  BroadcastInv'
    OBVIOUS
  <1>1. CASE UNCHANGED vars
    BY <1>1 DEF vars, server, list, history, BroadcastInv, Progress, Ahead,
                Leaving
  <1>2. CASE Setup
    <2>1. SendersIdle /\ UNCHANGED <<call, concurrent, tried>>
      BY <1>2 DEF Setup, Start, EnableWebSocket, Ready, Stop, Stopped,
                  server, history
    <2> QED BY <2>1 DEF BroadcastInv, SendersIdle, At, Progress, Leaving
  <1>3. ASSUME NEW t \in Tasks, concurrent' = concurrent,
               MayRun(t),
               Here(t) => \A u \in Tasks \ {t} : call'[u] = call[u],
               \A u \in Senders \ {t} : tried'[u] = tried[u],
               t \in Senders /\ Here(t) /\ Progress(t) => Progress(t)'
        PROVE  BroadcastInv'
    <2>1. CASE concurrent
      BY <1>3, <2>1 DEF BroadcastInv
    <2>2. CASE ~concurrent
      <3>1. Here(t) /\ (t \in Senders => Progress(t))
        BY <1>3, <2>2, SerialHere DEF BroadcastInv
      <3> QED BY <1>3, <2>2, <3>1, OthersWait
    <2> QED BY <2>1, <2>2
  <1>4. ASSUME NEW t \in Tasks, Find(t) \/ Shift(t) \/ Drop(t)
        PROVE  BroadcastInv'
    <2>1. MayRun(t) /\ concurrent' = concurrent /\ tried' = tried
      BY <1>4 DEF Find, Shift, Drop, server, history
    <2> QED BY <1>3, <1>4, <2>1, SerialFind, SerialShift, SerialDrop,
               ProgressRemoval
  <1>5. ASSUME \/ Known \/ AppendClient \/ Close
               \/ \E f \in Fds :
                     Accept(f) \/ Upgrade(f) \/ CloseFrame(f) \/ OnClose(f)
        PROVE  BroadcastInv'
    <2>1. MayRun(Httpd) /\ concurrent' = concurrent /\ tried' = tried
          /\ Httpd \in Tasks /\ Httpd \notin Senders
      BY <1>5, ServerAssumption
      DEF Known, AppendClient, Close, Accept, Upgrade, CloseFrame, OnClose,
          HttpdFree, server, history, Tasks
    <2> QED BY <1>3, <1>5, <2>1, SerialHttpd
  <1>6. ASSUME NEW s \in Senders,
               WsBroadcast(s) \/ Send(s) \/ Failed(s) \/ Sent(s)
        PROVE  BroadcastInv'
    <2>1. MayRun(s) /\ concurrent' = concurrent /\ s \in Tasks
      BY <1>6 DEF WsBroadcast, Send, Failed, Sent, server, Tasks
    <2>2. \A u \in Senders \ {s} : tried'[u] = tried[u]
      BY <1>6 DEF WsBroadcast, Send, Failed, Sent, history, TypeInv, TypeOK
    <2> QED BY <1>3, <1>6, <2>1, <2>2, SerialSender, ProgressSender
  <1>7. CASE HttpdTask
    BY <1>4, <1>5, <1>7 DEF HttpdTask, Tasks
  <1>8. ASSUME NEW s \in Senders, SenderTask(s) PROVE BroadcastInv'
    BY <1>4, <1>6, <1>8 DEF SenderTask, Tasks
  <1> QED BY <1>1, <1>2, <1>7, <1>8 DEF Next

(* A broadcast made in httpd's task sends to every client that was listed  *)
(* when it began and to nobody else, however many of them it removes from  *)
(* the list it walks.                                                      *)
THEOREM BroadcastReachesAll == Spec => BroadcastComplete
  <1>1. Init => BroadcastInv
    BY DEF Init, BroadcastInv, Progress, Leaving, Idle, CallAt, Tasks
  <1>2. TypeInv /\ BroadcastInv /\ [Next]_vars
            => [\A s \in Senders :
                  (~concurrent /\ At(s, "send") /\ call'[s].pc = "idle")
                      => tried[s] = due[s]]_vars
    <2> SUFFICES ASSUME TypeInv, BroadcastInv, Next, NEW s \in Senders,
                        ~concurrent, At(s, "send"), call'[s].pc = "idle"
                 PROVE  tried[s] = due[s]
      OBVIOUS
    <2>1. /\ s \in Tasks /\ call \in [Tasks -> Call] /\ call[s].at \in Int
          /\ call[s].pc = "send"
      BY DEF TypeInv, TypeOK, Tasks, Call, At
    <2>2. due[s] = tried[s] \cup Ahead(s)
      BY <2>1 DEF BroadcastInv, Progress
    <2>3. CASE Sent(s)
      <3>1. ~(call[s].at >= 0)
        BY <2>3 DEF Sent, MoreToSend
      <3>2. Ahead(s) = {}
        BY <2>1, <3>1 DEF Ahead
      <3> QED BY <2>2, <3>2
    <2>4. CASE Send(s)
      BY <2>1, <2>4 DEF Send, Goto, Call
    <2>5. \A t \in Tasks : MayRun(t) => t = s
      BY <2>1 DEF MayRun, At
    <2>6. CASE HttpdTask
      <3>1. Httpd \in Tasks /\ Httpd # s
        BY ServerAssumption DEF Tasks
      <3> QED
        BY <2>5, <2>6, <3>1
        DEF HttpdTask, Known, AppendClient, Find, Shift, Drop, Close, Accept, Upgrade,
            CloseFrame, OnClose, HttpdFree
    <2>7. CASE Setup
      BY <2>1, <2>7
      DEF Setup, Start, EnableWebSocket, Ready, Stop, Stopped, SendersIdle, At
    <2>8. ASSUME NEW t \in Senders, SenderTask(t), ~Send(s), ~Sent(s)
          PROVE  FALSE
      <3>1. t = s
        BY <2>5, <2>8
        DEF SenderTask, WsBroadcast, Send, Failed, Sent, Find, Shift, Drop, Tasks
      <3> QED
        BY <2>1, <2>8, <3>1
        DEF SenderTask, WsBroadcast, Failed, Find, Shift, Drop, At
    <2> QED BY <2>3, <2>4, <2>6, <2>7, <2>8 DEF Next
  <1> QED BY <1>1, <1>2, BroadcastStep, SerialInvariant, TypeInvariant, PTL
          DEF Spec, BroadcastComplete

-----------------------------------------------------------------------------
(***************************************************************************)
(* HttpExchange: the dispatch of requests.                                 *)
(***************************************************************************)
Less == {p \in Nat \X Nat : p[1] < p[2]}

(* A set of indices has a first one: the search for a route ends there.    *)
LEMMA FirstExists ==
    ASSUME NEW S, S \subseteq Nat, S # {}
    PROVE  Server!Min(S) \in S /\ \A i \in S : Server!Min(S) <= i
<1>1. IsWellFoundedOn(Less, Nat)
  BY NatLessThanWellFounded DEF OpToRel, Less
<1>2. PICK s \in S : \A t \in S : <<t, s>> \notin Less
  BY <1>1, WFMin, Zenon
<1>3. ASSUME NEW t \in S PROVE s <= t
  <2>1. s \in Nat /\ t \in Nat /\ <<t, s>> \in Nat \X Nat
    OBVIOUS
  <2>2. ~(t < s)
    BY <1>2, <2>1 DEF Less
  <2>. QED  BY <2>1, <2>2
<1>. QED  BY <1>3, Zenon DEF Server!Min

(* An index that is no smaller than all the others changes nothing.        *)
LEMMA LaterMatch ==
    ASSUME NEW S, S \subseteq Nat, S # {}, NEW T, T \subseteq Nat,
           S \subseteq T, \A i \in T \ S, j \in S : j <= i
    PROVE  Server!Min(T) = Server!Min(S)
<1> DEFINE s == Server!Min(S)  t == Server!Min(T)
<1>1. s \in S /\ \A i \in S : s <= i
  BY FirstExists
<1>2. t \in T /\ \A i \in T : t <= i
  BY FirstExists
<1> HIDE DEF s, t
<1>3. t <= s /\ s <= t /\ s \in Nat /\ t \in Nat
  BY <1>1, <1>2
<1>4. s = t
  BY <1>3
<1>. QED  BY <1>4 DEF s, t

(* A route that is registered takes no request from an earlier one.        *)
LEMMA RegisteredLater ==
    ASSUME NEW m, NEW p, Server!Matches(m, p) # {},
           routes \in Seq(Server!Route), NEW e \in Server!Route,
           routes' = Append(routes, e)
    PROVE  /\ Server!Matches(m, p)' # {}
           /\ Server!HandlerFor(m, p)' = Server!HandlerFor(m, p)
<1> DEFINE S == Server!Matches(m, p)  T == Server!Matches(m, p)'
<1>1. /\ routes' \in Seq(Server!Route) /\ Len(routes') = Len(routes) + 1
      /\ Len(routes) \in Nat
      /\ DOMAIN routes = 1 .. Len(routes)
      /\ DOMAIN routes' = 1 .. Len(routes')
      /\ \A i \in 1 .. Len(routes) : routes'[i] = routes[i]
  BY AppendProperties, LenProperties
<1>2. /\ S \subseteq 1 .. Len(routes) /\ S \subseteq T
      /\ T \subseteq 1 .. Len(routes')
  BY <1>1 DEF Server!Matches
<1>3. \A i \in T \ S : i = Len(routes) + 1
  BY <1>1 DEF Server!Matches
<1> HIDE DEF S, T
<1>4. /\ S # {} /\ S \subseteq Nat /\ T \subseteq Nat
      /\ \A i \in T \ S, j \in S : j <= i
  BY <1>1, <1>2, <1>3 DEF S
<1>5. Server!Min(T) = Server!Min(S) /\ Server!Min(S) \in S
  BY <1>2, <1>4, LaterMatch, FirstExists
<1>6. routes'[Server!Min(S)] = routes[Server!Min(S)]
  BY <1>1, <1>2, <1>5
<1>7. T # {}
  BY <1>2, <1>4
<1>. QED
  BY <1>4, <1>5, <1>6, <1>7 DEF S, T, Server!HandlerFor, Server!Chosen
-----------------------------------------------------------------------------
(***************************************************************************)
(* The bytes of a body.                                                    *)
(***************************************************************************)
Octets == Nat \X Nat

(* What fits of n bytes.                                                   *)
Fits(n) == IF n < BodyMax THEN n ELSE BodyMax

(* The bytes of a call's answer, by their number.                          *)
LEMMA BodyTyped ==
    ASSUME NEW c \in Nat, NEW n \in Nat
    PROVE  /\ BodyOf(c, n) \in Seq(Octets) /\ Len(BodyOf(c, n)) = n
           /\ \A i \in 1 .. n : BodyOf(c, n)[i] = <<c, i>>
<1>1. \A i \in 1 .. n : <<c, i>> \in Octets
  BY DEF Octets
<1>. QED  BY <1>1 DEF BodyOf

(* Nothing is no bytes.                                                    *)
LEMMA NoBody == \A c : <<>> = BodyOf(c, 0)
BY DEF BodyOf

(* How much of a piece of k bytes is taken, when got came before.          *)
LEMMA FitsMore ==
    ASSUME NEW got \in Nat, NEW k \in Nat, NEW t,
           t = IF k < BodyMax - Fits(got) THEN k ELSE BodyMax - Fits(got)
    PROVE  /\ Fits(got) \in Nat /\ Fits(got + k) \in Nat
           /\ t \in 0 .. k /\ Fits(got) + t = Fits(got + k)
           /\ t > 0 => got = Fits(got)
BY ExchangeAssumption DEF Fits

(* A piece of a sequence that has it whole.                                *)
LEMMA Piece ==
    ASSUME NEW S, NEW q \in Seq(S), NEW got \in Nat, NEW k \in Nat,
           got + k <= Len(q)
    PROVE  /\ SubSeq(q, got + 1, got + k) \in Seq(S)
           /\ Len(SubSeq(q, got + 1, got + k)) = k
           /\ \A i \in 1 .. k : SubSeq(q, got + 1, got + k)[i] = q[got + i]
<1> DEFINE m == got + 1  l == got + k  p == SubSeq(q, m, l)
<1>1. m \in Int /\ l \in Int /\ Len(q) \in Nat
  BY LenProperties
<1>2. \A i \in m .. l : i \in 1 .. Len(q)
  BY <1>1
<1>3. \A i \in m .. l : q[i] \in S
  BY <1>2, ElementOfSeq
<1>4. /\ (IF m <= l THEN l - m + 1 ELSE 0) = k
      /\ \A i \in 1 .. k : i \in 1 .. l - m + 1 /\ m + i - 1 = got + i
  OBVIOUS
<1> HIDE DEF m, l
<1>5. /\ p \in Seq(S)
      /\ Len(p) = IF m <= l THEN l - m + 1 ELSE 0
      /\ \A i \in 1 .. l - m + 1 : p[i] = q[m + i - 1]
  BY <1>1, <1>3, SubSeqProperties
<1> HIDE DEF p
<1>6. Len(p) = k /\ \A i \in 1 .. k : p[i] = q[got + i]
  BY <1>4, <1>5
<1>. QED  BY <1>5, <1>6 DEF p, m, l

(* What is taken of a piece, from its start.                               *)
LEMMA FrontOf ==
    ASSUME NEW S, NEW q \in Seq(S), NEW t \in Nat, t <= Len(q)
    PROVE  /\ SubSeq(q, 1, t) \in Seq(S) /\ Len(SubSeq(q, 1, t)) = t
           /\ \A i \in 1 .. t : SubSeq(q, 1, t)[i] = q[i]
<1> DEFINE p == SubSeq(q, 0 + 1, 0 + t)
<1>1. 0 \in Nat /\ 0 + t <= Len(q)
  OBVIOUS
<1>2. /\ p \in Seq(S) /\ Len(p) = t
      /\ \A i \in 1 .. t : p[i] = q[0 + i]
  BY <1>1, Piece
<1>3. p = SubSeq(q, 1, t) /\ \A i \in 1 .. t : 0 + i = i
  OBVIOUS
<1>. QED  BY <1>2, <1>3

(* What on_data makes of a piece of call c's body of n bytes when got of    *)
(* them have come before.                                                  *)
Continued(c, n, got, k) ==
    LET b     == BodyOf(c, Fits(got))
        piece == SubSeq(BodyOf(c, n), got + 1, got + k)
    IN  b \o Client!Taken(piece, BodyMax - Len(b))

(* on_data's buffer holds what fits of what has come so far, before a      *)
(* piece of the body and after it: none is left out or taken twice.        *)
LEMMA PieceTaken ==
    ASSUME NEW c \in Nat, NEW n \in Nat, NEW got \in Nat, NEW k \in Nat,
           got + k <= n
    PROVE  Continued(c, n, got, k) = BodyOf(c, Fits(got + k))
<1> DEFINE b     == BodyOf(c, Fits(got))
           piece == SubSeq(BodyOf(c, n), got + 1, got + k)
           t     == IF k < BodyMax - Fits(got) THEN k ELSE BodyMax - Fits(got)
           taken == SubSeq(piece, 1, t)
           whole == BodyOf(c, Fits(got + k))
<1>1. /\ Fits(got) \in Nat /\ Fits(got + k) \in Nat
      /\ t \in 0 .. k /\ Fits(got) + t = Fits(got + k)
      /\ t > 0 => got = Fits(got)
  BY FitsMore
<1> HIDE DEF t
<1>2. /\ b \in Seq(Octets) /\ Len(b) = Fits(got)
      /\ \A i \in 1 .. Fits(got) : b[i] = <<c, i>>
  BY <1>1, BodyTyped
<1>3. /\ whole \in Seq(Octets) /\ Len(whole) = Fits(got + k)
      /\ \A i \in 1 .. Fits(got + k) : whole[i] = <<c, i>>
  BY <1>1, BodyTyped
<1> HIDE DEF whole, b
<1>4. /\ piece \in Seq(Octets) /\ Len(piece) = k
      /\ \A i \in 1 .. k : piece[i] = <<c, got + i>>
  <2>1. /\ BodyOf(c, n) \in Seq(Octets) /\ Len(BodyOf(c, n)) = n
        /\ \A i \in 1 .. n : BodyOf(c, n)[i] = <<c, i>>
    BY BodyTyped
  <2>2. /\ piece \in Seq(Octets) /\ Len(piece) = k
        /\ \A i \in 1 .. k : piece[i] = BodyOf(c, n)[got + i]
    <3> DEFINE q == BodyOf(c, n)
    <3>1. q \in Seq(Octets) /\ got + k <= Len(q)
      BY <2>1
    <3> HIDE DEF q
    <3>2. /\ SubSeq(q, got + 1, got + k) \in Seq(Octets)
          /\ Len(SubSeq(q, got + 1, got + k)) = k
          /\ \A i \in 1 .. k : SubSeq(q, got + 1, got + k)[i] = q[got + i]
      BY <3>1, Piece
    <3>3. piece = SubSeq(q, got + 1, got + k)
      BY DEF q, piece
    <3> QED  BY <3>2, <3>3, Zenon DEF q
  <2>3. \A i \in 1 .. k : got + i \in 1 .. n
    OBVIOUS
  <2>. QED  BY <2>1, <2>2, <2>3, Zenon
<1> HIDE DEF piece
<1>5. t = IF Len(piece) < BodyMax - Len(b) THEN Len(piece) ELSE BodyMax - Len(b)
  BY <1>2, <1>4 DEF t
<1>6. /\ taken \in Seq(Octets) /\ Len(taken) = t
      /\ \A i \in 1 .. t : taken[i] = piece[i]
  <2>1. t \in Nat /\ t <= Len(piece)
    BY <1>1, <1>4
  <2>. QED  BY <2>1, <1>4, FrontOf
<1> HIDE DEF taken
<1>7. /\ b \o taken \in Seq(Octets) /\ Len(b \o taken) = Len(b) + Len(taken)
      /\ \A i \in 1 .. Len(b) + Len(taken) : (b \o taken)[i] =
             IF i <= Len(b) THEN b[i] ELSE taken[i - Len(b)]
  BY <1>2, <1>6, ConcatProperties, Zenon
<1>8. ASSUME NEW i \in 1 .. Fits(got) + t PROVE (b \o taken)[i] = whole[i]
  <2>1. whole[i] = <<c, i>>
    BY <1>1, <1>3
  <2>2. CASE i <= Fits(got)
    <3>1. i \in 1 .. Fits(got)
      BY <2>2, <1>1
    <3>. QED  BY <3>1, <2>1, <2>2, <1>2, <1>6, <1>7
  <2>3. CASE ~(i <= Fits(got))
    <3>1. i - Fits(got) \in 1 .. t /\ 1 .. t \subseteq 1 .. k /\ t > 0
      BY <2>3, <1>1
    <3>2. got + (i - Fits(got)) = i
      BY <3>1, <1>1
    <3>3. (b \o taken)[i] = taken[i - Fits(got)]
      BY <2>3, <1>2, <1>6, <1>7
    <3>. QED  BY <2>1, <3>1, <3>2, <3>3, <1>4, <1>6
  <2>. QED  BY <2>2, <2>3
<1>9. b \o taken = whole
  <2>1. Len(b \o taken) = Len(whole)
    BY <1>1, <1>2, <1>3, <1>6, <1>7
  <2>2. \A i \in 1 .. Len(b \o taken) : (b \o taken)[i] = whole[i]
    BY <1>2, <1>6, <1>7, <1>8
  <2>. QED  BY <1>3, <1>7, <2>1, <2>2, SeqEqual
<1>. QED  BY <1>5, <1>9 DEF Continued, Client!Taken, taken, whole, b, piece
-----------------------------------------------------------------------------
(***************************************************************************)
(* Types.                                                                  *)
(***************************************************************************)
AnswerType == [by : Server!MaybeHandler, code : Int, status : Int]

ServerTyped ==
    /\ running \in BOOLEAN
    /\ routes \in Seq(Server!Route)
    /\ notFoundHandler \in Server!MaybeHandler
    /\ inbox \subseteq Request

ResultType == [success : BOOLEAN, statusCode : Int, body : Seq(Octets)]

ConnType == [open : BOOLEAN, answers : SUBSET AnswerType, body : Seq(Octets),
             got : Nat]

Typed ==
    /\ ServerTyped
    /\ performing \in BOOLEAN /\ result \in ResultType
    /\ calls \in 0 .. MaxCalls /\ conn \in ConnType
    /\ servedBy \in [Server!Methods \X Paths -> Server!MaybeHandler]
    /\ ran \in Nat

(* A request meets a handler of the application, or none.                  *)
LEMMA HandlerTyped ==
    ASSUME ServerTyped, NEW m, NEW p
    PROVE  Server!HandlerFor(m, p) \in Server!MaybeHandler
<1>1. CASE Server!Matches(m, p) = {}
  BY <1>1, Zenon DEF Server!HandlerFor, ServerTyped
<1>2. CASE Server!Matches(m, p) # {}
  <2>1. Server!Matches(m, p) \subseteq DOMAIN routes
    BY DEF Server!Matches
  <2>2. DOMAIN routes = 1 .. Len(routes) /\ Len(routes) \in Nat
    BY LenProperties DEF ServerTyped
  <2>3. Server!Matches(m, p) \subseteq Nat
    BY <2>1, <2>2
  <2>4. Server!Chosen(Server!Matches(m, p)) \in 1 .. Len(routes)
    BY <1>2, <2>1, <2>2, <2>3, FirstExists, Zenon DEF Server!Chosen
  <2>5. routes[Server!Chosen(Server!Matches(m, p))] \in Server!Route
    BY <2>4, ElementOfSeq DEF ServerTyped
  <2>. QED
    BY <1>2, <2>5 DEF Server!HandlerFor, Server!Route, Server!MaybeHandler
<1>. QED  BY <1>1, <1>2

(* An answer that says 2xx is a handler's, and says what the handler said  *)
(* or stands for a code that HttpRequest::send does not know.              *)
LEMMA AnswerMeaning ==
    ASSUME ServerTyped, NEW r, NEW a \in Server!Answers(r)
    PROVE  /\ a \in AnswerType
           /\ a.by # NoHandler => a.by = Server!HandlerFor(r.method, r.path)
           /\ a.status \in 200 .. 299 =>
                 a.by # NoHandler /\ a.code \notin Server!KnownCodes \ {200}
<1> DEFINE h       == Server!HandlerFor(r.method, r.path)
           Says(c) == Server!Answer(h, c, Server!SentStatus(c))
<1>1. /\ h = Server!HandlerFor(r.method, r.path)
      /\ h \in Server!MaybeHandler /\ NoHandler \in Server!MaybeHandler
  BY HandlerTyped DEF Server!MaybeHandler
<1> HIDE DEF h
<1>2. \/ a = Server!Answer(NoHandler, 404, 404)
      \/ a = Server!Answer(NoHandler, 405, 405)
      \/ h # NoHandler /\ \E c \in Codes : a = Says(c)
  BY DEF Server!Answers, h
<1>3. ASSUME NEW c \in Codes
      PROVE  /\ c \in Int /\ Server!SentStatus(c) \in Int
             /\ Server!SentStatus(c) \in 200 .. 299 =>
                   c \notin Server!KnownCodes \ {200}
  BY ExchangeAssumption DEF Server!SentStatus, Server!KnownCodes
<1>4. CASE a.by = NoHandler /\ a.status \in {404, 405} /\ a \in AnswerType
  BY <1>4
<1>5. CASE h # NoHandler /\ \E c \in Codes : a = Says(c)
  <2>1. PICK c \in Codes : a = Says(c)
    BY <1>5
  <2>2. /\ a \in AnswerType /\ a.by = h /\ a.code = c
        /\ a.status = Server!SentStatus(c)
    BY <1>1, <1>3, <2>1 DEF Server!Answer, AnswerType
  <2>. QED  BY <1>1, <1>3, <1>5, <2>2
<1>6. CASE \/ a = Server!Answer(NoHandler, 404, 404)
           \/ a = Server!Answer(NoHandler, 405, 405)
  BY <1>1, <1>4, <1>6 DEF Server!Answer, AnswerType
<1>. QED  BY <1>2, <1>5, <1>6

(* The application sets the server up: no request joins the others, and a  *)
(* route keeps what it matches.                                            *)
LEMMA SetupKeeps ==
    ASSUME ServerTyped, Server!Setup
    PROVE  /\ ServerTyped' /\ inbox' \subseteq inbox
           /\ \A m, p : Server!Matches(m, p) # {} =>
                 /\ Server!Matches(m, p)' # {}
                 /\ Server!HandlerFor(m, p)' = Server!HandlerFor(m, p)
<1>1. ASSUME UNCHANGED routes, NEW m, NEW p, Server!Matches(m, p) # {}
      PROVE  /\ Server!Matches(m, p)' # {}
             /\ Server!HandlerFor(m, p)' = Server!HandlerFor(m, p)
  <2>1. Server!Matches(m, p)' = Server!Matches(m, p)
    BY <1>1 DEF Server!Matches
  <2>. QED  BY <1>1, <2>1 DEF Server!HandlerFor
<1>2. CASE Server!Start \/ Server!Ready \/ Server!Stop
  <2>1. /\ UNCHANGED <<routes, notFoundHandler>> /\ running' \in BOOLEAN
        /\ inbox' \subseteq inbox
    BY <1>2
    DEF Server!Start, Server!Ready, Server!SettingUp, Server!Stop,
        Server!table, ServerTyped
  <2>. QED  BY <1>1, <2>1 DEF ServerTyped
<1>3. ASSUME NEW m \in Server!Methods, NEW p \in Paths, NEW h \in Handlers,
             Server!RegisterRoute(m, p, h)
      PROVE  /\ ServerTyped' /\ inbox' \subseteq inbox
             /\ \A n, q : Server!Matches(n, q) # {} =>
                   /\ Server!Matches(n, q)' # {}
                   /\ Server!HandlerFor(n, q)' = Server!HandlerFor(n, q)
  <2>1. UNCHANGED <<running, notFoundHandler, inbox>>
    BY <1>3 DEF Server!RegisterRoute
  <2>2. CASE UNCHANGED routes
    BY <1>1, <2>1, <2>2 DEF ServerTyped
  <2>3. CASE routes' # routes
    <3> DEFINE e == [method |-> m, path |-> p, handler |-> h]
    <3>1. routes' = Append(routes, e) /\ e \in Server!Route
      BY <1>3, <2>3 DEF Server!RegisterRoute, Server!Route
    <3> HIDE DEF e
    <3>2. routes \in Seq(Server!Route) /\ routes' \in Seq(Server!Route)
      BY <3>1, AppendProperties DEF ServerTyped
    <3>3. ASSUME NEW n, NEW q, Server!Matches(n, q) # {}
          PROVE  /\ Server!Matches(n, q)' # {}
                 /\ Server!HandlerFor(n, q)' = Server!HandlerFor(n, q)
      BY <3>1, <3>2, <3>3, RegisteredLater
    <3>. QED  BY <2>1, <3>2, <3>3 DEF ServerTyped
  <2>. QED  BY <2>2, <2>3
<1>4. ASSUME NEW h \in Handlers, Server!SetNotFoundHandler(h)
      PROVE  /\ ServerTyped' /\ UNCHANGED <<routes, inbox>>
  BY <1>4 DEF Server!SetNotFoundHandler, Server!MaybeHandler, ServerTyped
<1>. QED  BY <1>1, <1>2, <1>3, <1>4 DEF Server!Setup

(* Requests come and go, and the table stays.                              *)
LEMMA RequestsKeep ==
    ASSUME NEW r, Server!Receive(r) \/ Server!Handle(r)
    PROVE  /\ UNCHANGED <<running, routes, notFoundHandler>>
           /\ \A m, p : /\ Server!Matches(m, p)' = Server!Matches(m, p)
                        /\ Server!HandlerFor(m, p)' = Server!HandlerFor(m, p)
<1>1. UNCHANGED <<running, routes, notFoundHandler>>
  BY DEF Server!Receive, Server!Handle, Server!table
<1>. QED
  BY <1>1 DEF Server!Matches, Server!HandlerFor

(* A connection that has received nothing, and the result of a call that   *)
(* has none yet.                                                           *)
LEMMA FreshTyped ==
    /\ Closed \in ConnType /\ Opened \in ConnType
    /\ Client!FreshResult \in ResultType
<1>1. /\ <<>> \in Seq(Octets) /\ {} \in SUBSET AnswerType /\ 0 \in Nat
      /\ TRUE \in BOOLEAN /\ FALSE \in BOOLEAN /\ 0 \in Int
  BY EmptySeq
<1>2. Closed \in ConnType
  BY <1>1, Zenon DEF Closed, ConnType
<1>3. Opened \in ConnType
  BY <1>1, <1>2 DEF Opened, ConnType
<1>4. Client!FreshResult \in ResultType
  BY <1>1, Zenon DEF Client!FreshResult, ResultType
<1>. QED  BY <1>2, <1>3, <1>4

(* The variables that the theorems are about have their types.             *)
LEMMA TypedInv == ExchangeSpec => []Typed
<1>1. ExchangeInit => Typed
  <2>1. <<>> \in Seq(Server!Route) /\ 0 \in 0 .. MaxCalls /\ 0 \in Nat
    BY EmptySeq, ExchangeAssumption
  <2>2. NoHandler \in Server!MaybeHandler
    BY DEF Server!MaybeHandler
  <2>. QED
    BY <2>1, <2>2, FreshTyped
    DEF ExchangeInit, Server!Init, Client!Init, Typed, ServerTyped
<1>2. Typed /\ [ExchangeNext]_exchangeVars => Typed'
  <2> SUFFICES ASSUME Typed, [ExchangeNext]_exchangeVars PROVE Typed'
    OBVIOUS
  <2>1. Closed \in ConnType /\ Opened \in ConnType
        /\ Client!FreshResult \in ResultType
    BY FreshTyped
  <2>2. CASE ServerSetup
    <3>1. ServerTyped'
      BY <2>2, SetupKeeps DEF ServerSetup, Typed
    <3>. QED
      BY <2>1, <2>2, <3>1
      DEF ServerSetup, Typed, client, record, Client!client
  <2>3. ASSUME NEW m \in Server!Methods, NEW p \in Paths, HttpCall(m, p)
        PROVE  Typed'
    <3>1. /\ calls' \in 0 .. MaxCalls /\ ran' \in Nat /\ conn' \in ConnType
          /\ performing' /\ result' \in ResultType /\ UNCHANGED servedBy
      BY <2>1, <2>3, ExchangeAssumption
      DEF HttpCall, Client!Call, Client!ResultAtCall, Typed
    <3>2. CASE UNCHANGED serverSide
      BY <3>1, <3>2 DEF Typed, ServerTyped, serverSide
    <3>3. CASE Server!Receive([call |-> calls', method |-> m, path |-> p])
      <4> DEFINE r == [call |-> calls', method |-> m, path |-> p]
      <4>1. r \in Request /\ Server!Receive(r)
        BY <3>1, <3>3 DEF Request
      <4> HIDE DEF r
      <4>. QED
        BY <3>1, <4>1, RequestsKeep DEF Typed, ServerTyped, Server!Receive
    <3>. QED  BY <2>3, <3>2, <3>3 DEF HttpCall
  <2>4. ASSUME NEW m \in Server!Methods, NEW p \in Paths, OtherRequest(m, p)
        PROVE  Typed'
    <3> DEFINE r == [call |-> 0, method |-> m, path |-> p]
    <3>1. r \in Request /\ Server!Receive(r)
      BY <2>4, ExchangeAssumption DEF OtherRequest, Request
    <3> HIDE DEF r
    <3>. QED
      BY <2>4, <3>1, RequestsKeep
      DEF OtherRequest, Typed, ServerTyped, Server!Receive, client, network,
          record
  <2>5. CASE HttpCallRefused
    BY <2>1, <2>5, ExchangeAssumption
    DEF HttpCallRefused, Client!CallRefused, Client!ResultAtCall, Typed,
        ServerTyped, serverSide
  <2>6. ASSUME NEW r \in inbox, NEW n \in AnswerBodies, HandleRequest(r, n)
        PROVE  Typed'
    <3>1. PICK a \in Server!Answers(r) :
            /\ Server!Handle(r)
            /\ conn' = IF ThisCall(r) /\ conn.open
                       THEN [conn EXCEPT !.answers = {a},
                                         !.body = BodyOf(r.call, n)]
                       ELSE conn
            /\ ran' = IF ThisCall(r) /\ a.by # NoHandler THEN ran + 1 ELSE ran
            /\ servedBy' =
                  IF Server!Matches(r.method, r.path) # {} /\ a.by # NoHandler
                  THEN [servedBy EXCEPT ![<<r.method, r.path>>] = a.by]
                  ELSE servedBy
            /\ UNCHANGED <<client, calls>>
      BY <2>6 DEF HandleRequest
    <3>2. a \in AnswerType
      BY <3>1, AnswerMeaning DEF Typed
    <3>3. n \in Nat /\ r.call \in Nat
      BY ExchangeAssumption DEF Typed, ServerTyped, Request
    <3>4. BodyOf(r.call, n) \in Seq(Octets)
      BY <3>3, BodyTyped
    <3>5. conn' \in ConnType
      BY <3>1, <3>2, <3>4 DEF Typed, ConnType
    <3>6. servedBy' \in [Server!Methods \X Paths -> Server!MaybeHandler]
      BY <3>1, <3>2 DEF Typed, AnswerType
    <3>7. ServerTyped'
      BY <3>1, RequestsKeep DEF Typed, ServerTyped, Server!Handle
    <3>8. ran' \in Nat
      BY <3>1 DEF Typed
    <3>. QED
      BY <3>1, <3>5, <3>6, <3>7, <3>8 DEF Typed, client
  <2>7. ASSUME NEW k \in AnswerBodies \ {0}, DataArrives(k)
        PROVE  Typed'
    <3> DEFINE piece == SubSeq(conn.body, conn.got + 1, conn.got + k)
               space == BodyMax - Len(result.body)
    <3>1. k \in Nat /\ BodyMax \in Nat
      BY ExchangeAssumption
    <3>2. piece \in Seq(Octets)
      BY <2>7, <3>1, Piece DEF DataArrives, Typed, ConnType
    <3>3. Client!OnData(piece) /\ conn' = [conn EXCEPT !.got = @ + k]
          /\ UNCHANGED <<serverSide, calls, record>>
      BY <2>7 DEF DataArrives
    <3> HIDE DEF piece
    <3>4. Client!Taken(piece, space) \in Seq(Octets)
      <4> DEFINE t == IF Len(piece) < space THEN Len(piece) ELSE space
      <4>1. t \in Int /\ 1 \in Int /\ \A i \in 1 .. t : i \in 1 .. Len(piece)
        BY <3>1, <3>2, LenProperties DEF Typed, ResultType
      <4>2. \A i \in 1 .. t : piece[i] \in Octets
        BY <4>1, <3>2, ElementOfSeq
      <4> HIDE DEF t
      <4>3. SubSeq(piece, 1, t) \in Seq(Octets)
        BY <4>1, <4>2, SubSeqProperties
      <4>. QED  BY <4>3 DEF t, Client!Taken
    <3> HIDE DEF space
    <3>5. result' \in ResultType
      <4>1. result.body \o Client!Taken(piece, space) \in Seq(Octets)
        BY <3>4, ConcatProperties DEF Typed, ResultType
      <4>. QED
        BY <3>3, <4>1 DEF Client!OnData, Typed, ResultType, space
    <3>6. conn' \in ConnType
      BY <3>1, <3>3 DEF Typed, ConnType
    <3>. QED
      BY <3>3, <3>5, <3>6
      DEF Client!OnData, Typed, ServerTyped, serverSide, record
  <2>8. CASE AnswerComplete
    <3>1. PICK a \in conn.answers : Client!Performed(a.status)
      BY <2>8 DEF AnswerComplete
    <3>2. a.status \in Int
      BY DEF Typed, ConnType, AnswerType
    <3>3. result' \in ResultType /\ performing' \in BOOLEAN
      BY <3>1, <3>2 DEF Client!Performed, Typed, ResultType
    <3>. QED
      BY <2>8, <3>3
      DEF AnswerComplete, Typed, ServerTyped, serverSide, network, record
  <2>9. CASE CallFails
    BY <2>1, <2>9
    DEF CallFails, Client!PerformFails, Client!ResultOfFailure, Typed,
        ServerTyped, serverSide, record
  <2>10. CASE UNCHANGED exchangeVars
    BY <2>10
    DEF exchangeVars, Typed, ServerTyped, serverSide, client, network, record
  <2>. QED
    BY <2>2, <2>3, <2>4, <2>5, <2>6, <2>7, <2>8, <2>9, <2>10 DEF ExchangeNext
<1>. QED  BY <1>1, <1>2, PTL DEF ExchangeSpec
-----------------------------------------------------------------------------
(***************************************************************************)
(* What a route has served.                                                *)
(***************************************************************************)
(* What served a request is what would serve it now.                       *)
Served ==
    \A m \in Server!Methods, p \in Paths :
        servedBy[<<m, p>>] # NoHandler =>
            /\ Server!Matches(m, p) # {}
            /\ Server!HandlerFor(m, p) = servedBy[<<m, p>>]

(* A step of anything but the dispatch leaves the table to who it serves.  *)
ServesAsBefore ==
    \A m \in Server!Methods, p \in Paths :
        Server!Matches(m, p) # {} =>
            /\ Server!Matches(m, p)' # {}
            /\ Server!HandlerFor(m, p)' = Server!HandlerFor(m, p)

(* No step changes whom the table serves, and only the dispatch, which     *)
(* finds the same handler again, writes the history of it.                 *)
LEMMA ServedStep ==
    ASSUME Typed, Served, [ExchangeNext]_exchangeVars
    PROVE  /\ Served'
           /\ \A m \in Server!Methods, p \in Paths :
                 servedBy[<<m, p>>] # NoHandler =>
                     servedBy'[<<m, p>>] = servedBy[<<m, p>>]
<1>1. ASSUME UNCHANGED servedBy, ServesAsBefore PROVE Served'
  BY <1>1, Zenon DEF Served, ServesAsBefore
<1>2. ASSUME UNCHANGED serverSide PROVE ServesAsBefore
  BY <1>2
  DEF serverSide, ServesAsBefore, Server!Matches, Server!HandlerFor
<1>3. ASSUME NEW r, Server!Receive(r) \/ Server!Handle(r) PROVE ServesAsBefore
  BY <1>3, RequestsKeep DEF ServesAsBefore
<1>4. ASSUME UNCHANGED servedBy PROVE ServesAsBefore
  <2>1. CASE ServerSetup
    BY <2>1, SetupKeeps DEF ServerSetup, ServesAsBefore, Typed
  <2>2. ASSUME NEW m \in Server!Methods, NEW p \in Paths,
               HttpCall(m, p) \/ OtherRequest(m, p)
        PROVE  ServesAsBefore
    BY <1>2, <1>3, <2>2 DEF HttpCall, OtherRequest
  <2>3. ASSUME NEW r \in inbox, NEW n \in AnswerBodies, HandleRequest(r, n)
        PROVE  ServesAsBefore
    BY <1>3, <2>3 DEF HandleRequest
  <2>4. ASSUME NEW k \in AnswerBodies \ {0}, DataArrives(k)
        PROVE  ServesAsBefore
    BY <1>2, <2>4 DEF DataArrives
  <2>5. CASE HttpCallRefused \/ AnswerComplete \/ CallFails
               \/ UNCHANGED exchangeVars
    BY <1>2, <2>5 DEF HttpCallRefused, AnswerComplete, CallFails, exchangeVars
  <2>. QED  BY <2>1, <2>2, <2>3, <2>4, <2>5 DEF ExchangeNext
<1>5. CASE UNCHANGED servedBy
  BY <1>1, <1>4, <1>5
<1>6. CASE servedBy' # servedBy
  <2>1. PICK r \in inbox, n \in AnswerBodies : HandleRequest(r, n)
    BY <1>6
    DEF ExchangeNext, ServerSetup, HttpCall, OtherRequest, HttpCallRefused,
        DataArrives, AnswerComplete, CallFails, exchangeVars, record
  <2>2. PICK a \in Server!Answers(r) :
          /\ Server!Handle(r)
          /\ servedBy' =
                IF Server!Matches(r.method, r.path) # {} /\ a.by # NoHandler
                THEN [servedBy EXCEPT ![<<r.method, r.path>>] = a.by]
                ELSE servedBy
    BY <2>1 DEF HandleRequest
  <2>3. PICK m \in Server!Methods, p \in Paths : m = r.method /\ p = r.path
    BY DEF Typed, ServerTyped, Request
  <2>4. /\ Server!Matches(m, p) # {} /\ a.by # NoHandler
        /\ servedBy' = [servedBy EXCEPT ![<<m, p>>] = a.by]
    BY <1>6, <2>2, <2>3
  <2>5. a.by = Server!HandlerFor(m, p)
    BY <2>2, <2>3, <2>4, AnswerMeaning DEF Typed
  <2>6. ServesAsBefore
    BY <1>3, <2>2
  <2>7. ASSUME NEW mm \in Server!Methods, NEW pp \in Paths
        PROVE  servedBy'[<<mm, pp>>] = IF mm = m /\ pp = p
                                       THEN Server!HandlerFor(m, p)
                                       ELSE servedBy[<<mm, pp>>]
    BY <2>4, <2>5 DEF Typed
  <2>8. Served'
    BY <2>4, <2>6, <2>7 DEF Served, ServesAsBefore
  <2>. QED  BY <2>7, <2>8 DEF Served
<1>. QED  BY <1>5, <1>6

(* The history of served requests agrees with the table.                   *)
LEMMA ServedInv == ExchangeSpec => []Served
<1>1. ExchangeInit => Served
  BY DEF ExchangeInit, Served
<1>. QED  BY <1>1, ServedStep, TypedInv, PTL DEF ExchangeSpec

(* A request that a route has served is served by the same handler for     *)
(* ever, for a table of any size: routes registered later (route), again   *)
(* after stop() or over a full table, take nothing from it.                *)
THEOREM RoutesAreKept == ExchangeSpec => RoutesKept
<1>1. ASSUME Typed, Served, [ExchangeNext]_exchangeVars
      PROVE  [\A k \in DOMAIN servedBy :
                 servedBy[k] # NoHandler => servedBy'[k] = servedBy[k]]_exchangeVars
  <2>1. ASSUME NEW k \in DOMAIN servedBy, servedBy[k] # NoHandler
        PROVE  servedBy'[k] = servedBy[k]
    <3>1. PICK m \in Server!Methods, p \in Paths : k = <<m, p>>
      BY <1>1 DEF Typed
    <3>. QED  BY <1>1, <2>1, <3>1, ServedStep
  <2>. QED  BY <2>1
<1>. QED  BY <1>1, ServedInv, TypedInv, PTL DEF ExchangeSpec, RoutesKept
-----------------------------------------------------------------------------
(***************************************************************************)
(* What a call learns.                                                     *)
(***************************************************************************)
(* A request of this call is the only one, and was neither handled nor     *)
(* answered yet.                                                           *)
KnownRequests ==
    /\ \A r \in inbox : r.call <= calls
    /\ \A r \in inbox : ThisCall(r) =>
          /\ ran = 0 /\ conn.answers = {}
          /\ \A q \in inbox : q.call = calls => q = r

(* There is one answer, and if it says 2xx a handler ran for it.           *)
OneAnswer ==
    /\ \A a, b \in conn.answers : a = b
    /\ \A a \in conn.answers : a.status \in 200 .. 299 =>
          ran = 1 /\ a.code \notin Server!KnownCodes \ {200}
    /\ ~conn.open => conn.answers = {}

(* success and statusCode are set at the end of a call, from the answer.   *)
Outcome ==
    /\ performing => ~result.success /\ result.statusCode = 0
    /\ (~performing /\ result.success) =>
          /\ ran = 1
          /\ \A a \in conn.answers : a.code \notin Server!KnownCodes \ {200}
    /\ (~performing /\ result.statusCode # 0) => conn.answers # {}

(* The buffer has what fits of what has come of this call's body.          *)
Bodies ==
    /\ conn.body = IF conn.answers = {} THEN <<>>
                                       ELSE BodyOf(calls, Len(conn.body))
    /\ conn.got <= Len(conn.body)
    /\ performing => result.body = BodyOf(calls, Fits(conn.got))
    /\ (~performing /\ result.statusCode # 0) =>
          result.body = BodyOf(calls, Fits(Len(conn.body)))
    /\ \E n \in Nat : result.body = BodyOf(calls, n)

Learned == KnownRequests /\ OneAnswer /\ Outcome /\ Bodies

(* What fits of a body is a number of bytes; of none, none.                *)
LEMMA FitsTyped == /\ \A n \in Nat : Fits(n) \in Nat
                   /\ Fits(0) = 0
BY ExchangeAssumption DEF Fits

(* A call begins, with nothing that an earlier one left: what is still in  *)
(* the server's hands has an older number.                                 *)
LEMMA CallBegins ==
    ASSUME Typed, Learned,
           calls' = calls + 1, ran' = 0, conn' = Opened \/ conn' = Closed,
           result' = Client!FreshResult,
           inbox' = inbox
             \/ \E r : r.call = calls' /\ inbox' = inbox \cup {r}
    PROVE  Learned'
<1>1. /\ conn'.answers = {} /\ conn'.body = <<>> /\ conn'.got = 0
      /\ ~result'.success /\ result'.statusCode = 0 /\ result'.body = <<>>
  BY DEF Opened, Closed, Client!FreshResult
<1>2. calls \in Nat /\ \A r \in inbox : r.call \in Nat /\ r.call <= calls
  BY ExchangeAssumption
  DEF Typed, ServerTyped, Request, Learned, KnownRequests
<1>3. KnownRequests'
  <2>1. CASE inbox' = inbox
    BY <1>1, <1>2, <2>1 DEF KnownRequests, ThisCall
  <2>2. ASSUME NEW r, r.call = calls', inbox' = inbox \cup {r}
        PROVE  KnownRequests'
    <3>1. ASSUME NEW q \in inbox'
          PROVE  q.call <= calls' /\ (q.call = calls' => q = r)
      BY <1>2, <2>2
    <3>. QED  BY <1>1, <2>2, <3>1 DEF KnownRequests, ThisCall
  <2>. QED  BY <2>1, <2>2
<1>4. OneAnswer' /\ Outcome'
  BY <1>1 DEF OneAnswer, Outcome
<1>5. Bodies'
  <2>1. <<>> = BodyOf(calls', 0) /\ Fits(0) = 0 /\ 0 \in Nat
    BY NoBody, FitsTyped
  <2>2. 0 <= Len(<<>>)
    OBVIOUS
  <2>. QED  BY <1>1, <2>1, <2>2 DEF Bodies
<1>. QED  BY <1>3, <1>4, <1>5 DEF Learned

(* The connection is gone before an answer came: nothing more is learned.  *)
LEMMA ConnectionLost ==
    ASSUME Typed, Learned, conn' = Closed,
           inbox' \subseteq inbox, UNCHANGED <<calls, ran, result>>,
           \/ performing' = performing /\ conn.answers = {}
           \/ performing /\ ~performing'
    PROVE  Learned'
<1>1. /\ conn'.answers = {} /\ conn'.body = <<>> /\ conn'.got = 0
  BY DEF Closed
<1>2. conn.answers = {} => conn.got = 0
  BY DEF Learned, Bodies, Typed, ConnType
<1>3. KnownRequests' /\ OneAnswer'
  BY <1>1 DEF Learned, KnownRequests, OneAnswer, ThisCall
<1>4. Outcome'
  BY <1>1 DEF Learned, Outcome
<1>5. Bodies'
  <2>1. performing' => performing /\ conn.got = 0
    BY <1>2
  <2>2. ~performing' => result.statusCode = 0
    BY DEF Learned, Outcome
  <2>3. 0 <= Len(<<>>)
    OBVIOUS
  <2>. QED  BY <1>1, <2>1, <2>2, <2>3 DEF Learned, Bodies
<1>. QED  BY <1>3, <1>4, <1>5 DEF Learned

(* Other requests come and go.                                             *)
LEMMA OthersPass ==
    ASSUME Typed, Learned, UNCHANGED <<calls, ran, result, conn, performing>>,
           \A r \in inbox' : r \in inbox \/ r.call = 0
    PROVE  Learned'
<1>1. calls \in Nat
  BY ExchangeAssumption DEF Typed
<1>2. KnownRequests'
  BY <1>1 DEF Learned, KnownRequests, ThisCall
<1>3. OneAnswer' /\ Outcome' /\ Bodies'
  BY DEF Learned, OneAnswer, Outcome, Bodies
<1>. QED  BY <1>2, <1>3 DEF Learned

(* The server handles a request: if it is this call's, it is the last of   *)
(* it, and the client, if it still waits, has received nothing yet.        *)
LEMMA RequestHandled ==
    ASSUME Typed, Learned, NEW r \in inbox, NEW n \in AnswerBodies,
           HandleRequest(r, n)
    PROVE  Learned'
<1>1. PICK a \in Server!Answers(r) :
        /\ Server!Handle(r)
        /\ conn' = IF ThisCall(r) /\ conn.open
                   THEN [conn EXCEPT !.answers = {a},
                                     !.body = BodyOf(r.call, n)]
                   ELSE conn
        /\ ran' = IF ThisCall(r) /\ a.by # NoHandler THEN ran + 1 ELSE ran
        /\ UNCHANGED <<client, calls>>
  BY DEF HandleRequest
<1>2. /\ inbox' = inbox \ {r}
      /\ UNCHANGED <<calls, performing, result>>
  BY <1>1 DEF Server!Handle, client
<1>3. CASE ~ThisCall(r)
  <2>1. UNCHANGED <<calls, ran, result, conn, performing>>
    BY <1>1, <1>2, <1>3
  <2>. QED  BY <1>2, <2>1, OthersPass
<1>4. CASE ThisCall(r)
  <2>1. /\ ran = 0 /\ conn.answers = {}
        /\ \A q \in inbox : q.call = calls => q = r
    BY <1>4 DEF Learned, KnownRequests
  <2>2. a.status \in 200 .. 299 =>
          ran' = 1 /\ a.code \notin Server!KnownCodes \ {200}
    BY <1>1, <1>4, <2>1, AnswerMeaning DEF Typed
  <2>3. KnownRequests'
    BY <1>2, <2>1 DEF Learned, KnownRequests, ThisCall
  <2>4. ~performing => ~result.success /\ result.statusCode = 0
    BY <2>1 DEF Learned, Outcome
  <2>5. CASE conn.open
    <3>1. /\ conn' = [conn EXCEPT !.answers = {a}, !.body = BodyOf(r.call, n)]
          /\ r.call = calls
      BY <1>1, <1>4, <2>5 DEF ThisCall
    <3>2. /\ conn'.answers = {a} /\ conn'.body = BodyOf(calls, n)
          /\ conn'.got = conn.got /\ conn'.open
      BY <2>5, <3>1 DEF Typed, ConnType
    <3>3. OneAnswer' /\ Outcome'
      BY <1>2, <2>2, <2>4, <3>2 DEF Learned, OneAnswer, Outcome
    <3>4. conn.got = 0
      BY <2>1 DEF Learned, Bodies, Typed, ConnType
    <3>5. Len(BodyOf(calls, n)) = n /\ n \in Nat /\ calls \in Nat
      BY ExchangeAssumption, BodyTyped DEF Typed
    <3>6. conn'.answers # {} /\ 0 <= n
      BY <3>2, <3>5
    <3>7. Bodies'
      BY <1>2, <2>4, <3>2, <3>4, <3>5, <3>6 DEF Learned, Bodies
    <3>. QED  BY <2>3, <3>3, <3>7 DEF Learned
  <2>6. CASE ~conn.open
    <3>1. conn' = conn
      BY <1>1, <2>6
    <3>2. OneAnswer' /\ Outcome' /\ Bodies'
      BY <1>2, <2>1, <2>4, <3>1 DEF Learned, OneAnswer, Outcome, Bodies
    <3>. QED  BY <2>3, <3>2 DEF Learned
  <2>. QED  BY <2>5, <2>6
<1>. QED  BY <1>3, <1>4

(* A piece of the body arrives, and on_data takes of it what fits.         *)
LEMMA PieceArrives ==
    ASSUME Typed, Learned, NEW k \in AnswerBodies \ {0}, DataArrives(k)
    PROVE  Learned'
<1> DEFINE n     == Len(conn.body)
           piece == SubSeq(conn.body, conn.got + 1, conn.got + k)
<1>1. /\ conn.answers # {} /\ conn.got + k <= n /\ performing
      /\ conn' = [conn EXCEPT !.got = @ + k]
      /\ result' = [result EXCEPT !.body =
                       @ \o Client!Taken(piece, BodyMax - Len(result.body))]
      /\ UNCHANGED <<performing, calls, ran, inbox>>
  BY DEF DataArrives, Client!OnData, serverSide, record
<1>2. /\ n \in Nat /\ k \in Nat /\ conn.got \in Nat /\ calls \in Nat
      /\ conn.got + k \in Nat
  BY ExchangeAssumption, LenProperties DEF Typed, ConnType
<1>3. /\ conn'.answers = conn.answers /\ conn'.open = conn.open
      /\ conn'.body = conn.body /\ conn'.got = conn.got + k
      /\ result'.success = result.success
      /\ result'.statusCode = result.statusCode
      /\ result'.body =
            result.body \o Client!Taken(piece, BodyMax - Len(result.body))
  BY <1>1 DEF Typed, ConnType, ResultType
<1>4. /\ conn.body = BodyOf(calls, n)
      /\ result.body = BodyOf(calls, Fits(conn.got))
  BY <1>1 DEF Learned, Bodies
<1>5. piece = SubSeq(BodyOf(calls, n), conn.got + 1, conn.got + k)
  BY <1>4, Zenon
<1> HIDE DEF n, piece
<1>6. result'.body = BodyOf(calls, Fits(conn.got + k))
  <2>1. conn.got + k <= n
    BY <1>1
  <2>2. result.body \o Client!Taken(piece, BodyMax - Len(result.body))
          = BodyOf(calls, Fits(conn.got + k))
    <3>1. Continued(calls, n, conn.got, k) = BodyOf(calls, Fits(conn.got + k))
      BY <1>2, <2>1, PieceTaken
    <3>. QED  BY <1>4, <1>5, <3>1, Zenon DEF Continued
  <2>. QED  BY <1>3, <2>2, Zenon
<1>7. Bodies'
  <2>1. Fits(conn.got + k) \in Nat
    BY <1>2, FitsTyped
  <2>2. ~(~performing' /\ result'.statusCode # 0)
    BY <1>1
  <2>3. conn'.got <= Len(conn'.body)
    BY <1>1, <1>3 DEF n
  <2>4. conn'.body = BodyOf(calls', Len(conn'.body)) /\ conn'.answers # {}
    BY <1>1, <1>3, <1>4 DEF n
  <2>5. result'.body = BodyOf(calls', Fits(conn'.got))
    BY <1>1, <1>3, <1>6
  <2>. QED  BY <1>1, <1>3, <1>6, <2>1, <2>2, <2>3, <2>4, <2>5 DEF Bodies
<1>8. KnownRequests' /\ OneAnswer' /\ Outcome'
  BY <1>1, <1>3 DEF Learned, KnownRequests, OneAnswer, Outcome, ThisCall
<1>. QED  BY <1>7, <1>8 DEF Learned

(* The library returns with the status of the answer.                      *)
LEMMA CallReturns ==
    ASSUME Typed, Learned, AnswerComplete
    PROVE  Learned'
<1>1. PICK a \in conn.answers : Client!Performed(a.status)
  BY DEF AnswerComplete
<1>2. /\ performing /\ ~performing' /\ conn.got = Len(conn.body)
      /\ result'.body = result.body
      /\ result'.success = (a.status >= 200 /\ a.status < 300)
      /\ UNCHANGED <<inbox, calls, conn, ran>>
  BY <1>1
  DEF AnswerComplete, Client!Performed, Typed, ResultType, serverSide, network,
      record
<1>3. a.status \in Int
  BY DEF Typed, ConnType, AnswerType
<1>4. result'.success =>
        /\ ran = 1
        /\ \A b \in conn.answers : b.code \notin Server!KnownCodes \ {200}
  <2>1. (a.status >= 200 /\ a.status < 300) => a.status \in 200 .. 299
    BY <1>3
  <2>2. result'.success => a.status \in 200 .. 299
    BY <1>2, <2>1, Zenon
  <2>. QED  BY <2>2 DEF Learned, OneAnswer
<1>5. KnownRequests' /\ OneAnswer'
  BY <1>2 DEF Learned, KnownRequests, OneAnswer, ThisCall
<1>6. Outcome'
  BY <1>2, <1>4 DEF Outcome
<1>7. Bodies'
  BY <1>2 DEF Learned, Bodies
<1>. QED  BY <1>5, <1>6, <1>7 DEF Learned

(* What the client has learned is true of what the server did.             *)
LEMMA LearnedInv == ExchangeSpec => []Learned
<1>1. ExchangeInit => Learned
  <2>1. <<>> = BodyOf(0, 0) /\ Fits(0) = 0 /\ 0 \in Nat /\ 0 <= Len(<<>>)
    BY NoBody, FitsTyped
  <2>. QED
    BY <2>1
    DEF ExchangeInit, Server!Init, Client!Init, Client!FreshResult, Closed,
        Learned, KnownRequests, OneAnswer, Outcome, Bodies
<1>2. Typed /\ Learned /\ [ExchangeNext]_exchangeVars => Learned'
  <2> SUFFICES ASSUME Typed, Learned, [ExchangeNext]_exchangeVars PROVE Learned'
    OBVIOUS
  <2>1. CASE ServerSetup
    <3>1. inbox' \subseteq inbox /\ UNCHANGED <<calls, ran, result, performing>>
      BY <2>1, SetupKeeps DEF ServerSetup, Typed, client, record
    <3>2. CASE conn' = conn
      BY <3>1, <3>2, OthersPass
    <3>3. CASE conn' # conn
      BY <2>1, <3>1, <3>3, ConnectionLost DEF ServerSetup
    <3>. QED  BY <3>2, <3>3
  <2>2. ASSUME NEW m \in Server!Methods, NEW p \in Paths, HttpCall(m, p)
        PROVE  Learned'
    <3> DEFINE r == [call |-> calls', method |-> m, path |-> p]
    <3>1. inbox' = inbox \/ (r.call = calls' /\ inbox' = inbox \cup {r})
      BY <2>2 DEF HttpCall, Server!Receive, serverSide
    <3> HIDE DEF r
    <3>2. /\ calls' = calls + 1 /\ ran' = 0
          /\ conn' = Opened \/ conn' = Closed
          /\ result' = Client!FreshResult
      BY <2>2 DEF HttpCall, Client!Call, Client!ResultAtCall
    <3>. QED  BY <3>1, <3>2, CallBegins
  <2>3. ASSUME NEW m \in Server!Methods, NEW p \in Paths, OtherRequest(m, p)
        PROVE  Learned'
    <3>1. /\ UNCHANGED <<calls, ran, result, conn, performing>>
          /\ \A r \in inbox' : r \in inbox \/ r.call = 0
      BY <2>3 DEF OtherRequest, Server!Receive, client, network, record
    <3>. QED  BY <3>1, OthersPass
  <2>4. CASE HttpCallRefused
    <3>1. /\ calls' = calls + 1 /\ ran' = 0 /\ conn' = Closed
          /\ result' = Client!FreshResult /\ inbox' = inbox
      BY <2>4
      DEF HttpCallRefused, Client!CallRefused, Client!ResultAtCall, serverSide
    <3>. QED  BY <3>1, CallBegins
  <2>5. CASE CallFails
    <3>1. /\ conn' = Closed /\ inbox' = inbox /\ performing /\ ~performing'
          /\ UNCHANGED <<calls, ran, result>>
      BY <2>5
      DEF CallFails, Client!PerformFails, Client!ResultOfFailure, serverSide,
          record
    <3>. QED  BY <3>1, ConnectionLost
  <2>6. CASE UNCHANGED exchangeVars
    BY <2>6, OthersPass DEF exchangeVars, serverSide, client, network, record
  <2>. QED
    BY <2>1, <2>2, <2>3, <2>4, <2>5, <2>6, RequestHandled, PieceArrives,
       CallReturns
    DEF ExchangeNext
<1>. QED  BY <1>1, <1>2, TypedInv, PTL DEF ExchangeSpec

(* A call that returns success had its request handled by a handler, once, *)
(* and by the answer of this call, which says neither 400, 404 nor 500:    *)
(* also when the server still handles a request of a call that timed out,  *)
(* and whatever other clients ask meanwhile (httpGet, httpPost).           *)
THEOREM SuccessIsEarned == ExchangeSpec => []SuccessEarned
<1>1. Learned => SuccessEarned
  BY DEF Learned, Outcome, SuccessEarned, Returned
<1>. QED  BY <1>1, LearnedInv, PTL

(* The body is what the server sent for this call, from its start and      *)
(* without a gap, and all of it that fits, for every buffer and however    *)
(* the answer is cut into pieces (on_data).                                *)
THEOREM BodiesAreFaithful == ExchangeSpec => []BodyFaithful
<1>1. Typed /\ Learned => BodyFaithful
  <2> SUFFICES ASSUME Typed, Learned PROVE BodyFaithful
    OBVIOUS
  <2>1. calls \in Nat
    BY ExchangeAssumption DEF Typed
  <2>2. PICK n \in Nat : result.body = BodyOf(calls, n)
    BY DEF Learned, Bodies
  <2>3. Len(result.body) = n /\ result.body = BodyOf(calls, Len(result.body))
    BY <2>1, <2>2, BodyTyped
  <2>4. IsPrefix(result.body, BodyOf(calls, Len(result.body)))
    BY <2>2, <2>3 DEF IsPrefix
  <2>5. ASSUME Returned, result.statusCode # 0
        PROVE  Len(result.body) = Fits(Len(conn.body))
    <3>1. result.body = BodyOf(calls, Fits(Len(conn.body)))
      BY <2>5 DEF Learned, Bodies, Returned
    <3>2. Fits(Len(conn.body)) \in Nat
      BY FitsTyped, LenProperties DEF Typed, ConnType
    <3>. QED  BY <2>1, <3>1, <3>2, BodyTyped
  <2>. QED  BY <2>4, <2>5 DEF BodyFaithful, Fits
<1>. QED  BY <1>1, TypedInv, LearnedInv, PTL
=============================================================================
