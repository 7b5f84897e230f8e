------------------------------- MODULE WifiSta -------------------------------
(***************************************************************************)
(* src/wifi/wifi_sta.cpp: connecting the station to a router, and keeping  *)
(* it connected.                                                           *)
(*                                                                         *)
(* sta_connect and sta_disconnect run in a task of the application,        *)
(* wifi_event_handler in ESP-IDF's event task, which takes the driver's    *)
(* events in order from a queue.  The event task has the higher priority:  *)
(* on a chip with one core the application's task waits while there is an  *)
(* event to handle, with two cores (dual) they run side by side.           *)
(***************************************************************************)
EXTENDS Integers, Sequences

CONSTANTS
    Modes,              \* the values of dual that a run considers
    QueueMax            \* bound: events the driver may be ahead

ASSUME StationAssumption == Modes \subseteq BOOLEAN /\ QueueMax \in Nat \ {0}

VARIABLES
    dual,
    s_sta_initialized,
    s_first_connect, s_voluntary_disconnect,
    bits,               \* s_wifi_event_group
    pc,                 \* where the application's task is
    handler,            \* where the event task is, and its local variables
    link,               \* the driver's station, "up" once it has an address
    events,             \* the driver's events that are not yet handled
    intent,             \* history: what the last call of the application left
    gotIp, losses,      \* history: since sta_connect was called
    lastReason          \* history: why the link went down last

flags  == <<s_first_connect, s_voluntary_disconnect>>
driver == <<link, events, lastReason>>
seen   == <<gotIp, losses>>
vars   == <<dual, s_sta_initialized, flags, bits, pc, handler, driver, intent,
            seen>>

Bits    == {"CONNECTED_BIT", "FAIL_BIT"}
Reasons == {"transient", "permanent", "leave"}
Events  == Reasons \cup {"GOT_IP"}

Idle == [at |-> "idle", voluntary |-> FALSE, reason |-> "leave",
         doReconnect |-> FALSE]

TypeOK ==
    /\ dual \in BOOLEAN /\ s_sta_initialized \in BOOLEAN
    /\ s_first_connect \in BOOLEAN /\ s_voluntary_disconnect \in BOOLEAN
    /\ bits \in SUBSET Bits
    /\ pc \in {"idle", "clear", "connect", "waiting", "giveUp", "leave"}
    /\ handler \in [at : {"idle", "decide", "act"}, voluntary : BOOLEAN,
                    reason : Reasons, doReconnect : BOOLEAN]
    /\ handler.doReconnect => handler.at = "act" /\ ~handler.voluntary
    /\ link \in {"down", "trying", "up"}
    /\ events \in Seq(Events) /\ Len(events) <= QueueMax
    /\ intent \in {"none", "connected", "left"}
    /\ gotIp \in BOOLEAN /\ losses \in 0 .. 2
    /\ lastReason \in Reasons

AppMayRun == dual \/ (events = <<>> /\ handler = Idle)
RoomForEvent == Len(events) < QueueMax

Init ==
    /\ dual \in Modes /\ s_sta_initialized = FALSE
    /\ s_first_connect = FALSE /\ s_voluntary_disconnect = FALSE
    /\ bits = {} /\ pc = "idle" /\ handler = Idle
    /\ link = "down" /\ events = <<>> /\ lastReason = "leave"
    /\ intent = "none" /\ gotIp = FALSE /\ losses = 0
-----------------------------------------------------------------------------
(***************************************************************************)
(* The driver.                                                             *)
(***************************************************************************)
LinkDown(reason) ==
    /\ link' = "down" /\ lastReason' = reason
    /\ events' = Append(events, reason)

Lost == losses' = IF losses < 2 THEN losses + 1 ELSE losses

(* The router accepts the station and gives it an address.                 *)
GetsAddress ==
    /\ link = "trying" /\ RoomForEvent
    /\ link' = "up" /\ events' = Append(events, "GOT_IP")
    /\ gotIp' = TRUE
    /\ UNCHANGED <<dual, s_sta_initialized, flags, bits, pc, handler, intent,
                   losses, lastReason>>

(* An attempt fails, or the connection is lost.                            *)
LosesLink(reason) ==
    /\ link # "down" /\ RoomForEvent
    /\ LinkDown(reason)
    /\ Lost
    /\ UNCHANGED <<dual, s_sta_initialized, flags, bits, pc, handler, intent,
                   gotIp>>

(* esp_wifi_connect() has no effect on a station that is not down.         *)
WifiConnect ==
    /\ link' = IF link = "down" THEN "trying" ELSE link
    /\ UNCHANGED <<events, lastReason>>

(* esp_wifi_disconnect() is reported by an event if there was anything to  *)
(* disconnect.                                                             *)
WifiDisconnect ==
    IF link = "down" THEN UNCHANGED driver
                     ELSE RoomForEvent /\ LinkDown("leave")
-----------------------------------------------------------------------------
(***************************************************************************)
(* The application's task.                                                 *)
(***************************************************************************)
(* The driver refuses a configuration before this has succeeded once.      *)
StaInit ==
    /\ pc = "idle" /\ AppMayRun /\ ~s_sta_initialized
    /\ s_sta_initialized' = TRUE
    /\ UNCHANGED <<dual, flags, bits, pc, handler, driver, intent, seen>>

(* sta_connect, up to the two flags.  A call that the driver refuses its   *)
(* configuration, or that names no network, changes nothing.               *)
StaConnect ==
    /\ pc = "idle" /\ AppMayRun /\ s_sta_initialized
    /\ s_first_connect' = TRUE /\ s_voluntary_disconnect' = FALSE
    /\ pc' = "clear" /\ intent' = "none"
    /\ gotIp' = FALSE /\ losses' = 0
    /\ UNCHANGED <<dual, s_sta_initialized, bits, handler, driver>>

(* Mutant of StaleBits: an outcome of the past is left for the wait.       *)
StaleBitsFailOnly == {"FAIL_BIT"}

StaleBits == Bits

ClearBits ==
    /\ pc = "clear" /\ AppMayRun
    /\ bits' = bits \ StaleBits
    /\ pc' = "connect"
    /\ UNCHANGED <<dual, s_sta_initialized, flags, handler, driver, intent, seen>>

(* esp_wifi_connect() may be refused when the station is not down.         *)
Connect ==
    /\ pc = "connect" /\ AppMayRun
    /\ \/ WifiConnect /\ pc' = "waiting"
       \/ link # "down" /\ pc' = "idle" /\ UNCHANGED driver
    /\ UNCHANGED <<dual, s_sta_initialized, flags, bits, handler, intent, seen>>

(* xEventGroupWaitBits clears the bits it returns; CONNECTED_BIT decides   *)
(* if both are set.                                                        *)
WaitEnds ==
    /\ pc = "waiting" /\ AppMayRun /\ bits # {}
    /\ bits' = {}
    /\ IF "CONNECTED_BIT" \in bits
       THEN pc' = "idle" /\ intent' = "connected"
       ELSE pc' = "giveUp" /\ UNCHANGED intent
    /\ UNCHANGED <<dual, s_sta_initialized, flags, handler, driver, seen>>

(* connectTimeoutMs may end at any time.                                   *)
WaitTimesOut ==
    /\ pc = "waiting" /\ AppMayRun /\ bits = {}
    /\ pc' = "giveUp"
    /\ UNCHANGED <<dual, s_sta_initialized, flags, bits, handler, driver, intent,
                   seen>>

(* sta_connect returns false.                                              *)
GiveUp ==
    /\ pc = "giveUp" /\ AppMayRun
    /\ WifiDisconnect
    /\ pc' = "idle"
    /\ UNCHANGED <<dual, s_sta_initialized, flags, bits, handler, intent, seen>>

(* Mutant of StaDisconnect: the flag is left for later.                    *)
StaDisconnectUnflagged ==
    /\ pc = "idle" /\ AppMayRun /\ s_sta_initialized
    /\ UNCHANGED s_voluntary_disconnect
    /\ pc' = "leave" /\ intent' = "none"
    /\ UNCHANGED <<dual, s_sta_initialized, s_first_connect, bits, handler, driver,
                   seen>>

StaDisconnect ==
    /\ pc = "idle" /\ AppMayRun /\ s_sta_initialized
    /\ s_voluntary_disconnect' = TRUE
    /\ pc' = "leave" /\ intent' = "none"
    /\ UNCHANGED <<dual, s_sta_initialized, s_first_connect, bits, handler, driver,
                   seen>>

Leave ==
    /\ pc = "leave" /\ AppMayRun
    /\ WifiDisconnect
    /\ pc' = "idle" /\ intent' = "left"
    /\ UNCHANGED <<dual, s_sta_initialized, flags, bits, handler, seen>>
-----------------------------------------------------------------------------
(***************************************************************************)
(* wifi_event_handler, in the event task.                                  *)
(***************************************************************************)
isReconnectableReason(reason) == reason = "transient"

GotIp ==
    /\ handler = Idle /\ events # <<>> /\ Head(events) = "GOT_IP"
    /\ events' = Tail(events)
    /\ bits' = bits \cup {"CONNECTED_BIT"}
    /\ UNCHANGED <<dual, s_sta_initialized, flags, pc, handler, link, lastReason,
                   intent, seen>>

(* A disconnection: s_voluntary_disconnect is read ...                     *)
Disconnected ==
    /\ handler = Idle /\ events # <<>> /\ Head(events) # "GOT_IP"
    /\ events' = Tail(events)
    /\ handler' = [Idle EXCEPT !.at = "decide", !.reason = Head(events),
                               !.voluntary = s_voluntary_disconnect]
    /\ UNCHANGED <<dual, s_sta_initialized, flags, bits, pc, link, lastReason,
                   intent, seen>>

(* Mutant of Reconnects: retries end with the first connection.            *)
ReconnectsOnce == ~handler.voluntary /\ s_first_connect

Reconnects ==
    ~handler.voluntary
    /\ (s_first_connect \/ isReconnectableReason(handler.reason))

(* ... the flag that decided is cleared ...                                *)
Decide ==
    /\ handler.at = "decide"
    /\ IF handler.voluntary
       THEN /\ s_voluntary_disconnect' = FALSE
            /\ UNCHANGED s_first_connect
       ELSE /\ s_first_connect' = FALSE
            /\ UNCHANGED s_voluntary_disconnect
    /\ handler' = [handler EXCEPT !.at = "act", !.doReconnect = Reconnects]
    /\ UNCHANGED <<dual, s_sta_initialized, bits, pc, driver, intent, seen>>

(* ... and the decision carried out.                                       *)
Act ==
    /\ handler.at = "act"
    /\ handler' = Idle
    /\ IF handler.doReconnect
       THEN WifiConnect /\ UNCHANGED bits
       ELSE bits' = bits \cup {"FAIL_BIT"} /\ UNCHANGED driver
    /\ UNCHANGED <<dual, s_sta_initialized, flags, pc, intent, seen>>
-----------------------------------------------------------------------------
Application ==
    \/ StaInit \/ StaConnect \/ ClearBits \/ Connect \/ WaitEnds
    \/ WaitTimesOut \/ GiveUp \/ StaDisconnect \/ Leave

EventTask == GotIp \/ Disconnected \/ Decide \/ Act

Driver == GetsAddress \/ \E reason \in {"transient", "permanent"} : LosesLink(reason)

Next == Application \/ EventTask \/ Driver

(* ESP-IDF's event task handles what is in its queue.                      *)
Spec == Init /\ [][Next]_vars /\ WF_vars(EventTask)
-----------------------------------------------------------------------------
(***************************************************************************)
(* Properties.                                                             *)
(***************************************************************************)

(* After sta_disconnect the station stays off until the application        *)
(* connects it again ("User-initiated disconnect -- don't reconnect"), also*)
(* if the link was being lost or retried at that moment; on one core.      *)
DisconnectHonoured == (intent = "left" /\ ~dual) => link = "down"

(* What sta_connect reports happened in this call, and is no bit that an   *)
(* earlier attempt or a reconnection in the background left: success, that *)
(* the station got an address; failure before the timeout, that an attempt *)
(* and its retry were lost; on one core.                                   *)
OutcomeEarned ==
    [][(~dual /\ pc = "waiting" /\ bits # {}) =>
          /\ pc' = "idle" => gotIp
          /\ pc' = "giveUp" => losses = 2]_vars

(* A connection that sta_connect reported is restored without the          *)
(* application: when it is lost for a transient reason the station tries   *)
(* again, however the handler interleaves with the application.            *)
ReconnectsAlone ==
    (intent = "connected" /\ link = "down" /\ lastReason = "transient")
        ~> (link # "down" \/ intent # "connected")
=============================================================================
