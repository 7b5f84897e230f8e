------------------------- MODULE ConnectionManager -------------------------
(***************************************************************************)
(* src/connection/connection_manager.cpp: the per-node session state       *)
(* machine.  Two threads of control touch it:                              *)
(*                                                                         *)
(*   - the application's main task, which calls loop(millis()) for ever.   *)
(*     A call is not atomic here: reading the clock and dispatching on     *)
(*     state_ is one step (LoopCall), a handler's tests are the next, and  *)
(*     the assignments that follow a positive test one or two more;        *)
(*   - the transport's receive callback (the WiFi task on the ESP32),      *)
(*     which calls onMessageReceived, onHeartbeatReceived, the provider's  *)
(*     onReconnectAck and then onReacquisitionSuccess.  With RecvPreempts  *)
(*     these run between the steps of a loop call, without it only         *)
(*     between calls (an application that queues frames to its main task). *)
(*     On the second core of a chip both tasks run at once: the tests of a *)
(*     message (lines 59-63, 69-70) and the assignments they let through   *)
(*     (84-91) are two steps, and the main task moves in between.          *)
(*                                                                         *)
(* The session provider appears through what the manager reads and writes  *)
(* of it: hasPairing() (paired) and the reacquisition flags of             *)
(* EspNowSessionProvider.                                                  *)
(***************************************************************************)
EXTENDS Millis

CONSTANTS
    heartbeatTimeoutMs, degradedGracePeriodMs, staticProbeIntervalMs,
    staticMaxProbes, dynamicProbeIntervalMs, bootGracePeriodMs,
    ByteMod,        \* width of the uint8_t probe counter: 256 in the code
    Policies,       \* the ConnectionPolicy values a run considers
    RecvPreempts,   \* does the receive callback run inside loop()?
    MaxLag,         \* the main task calls loop at least every MaxLag ticks
    SetupMax        \* setup() calls begin within this many ticks

DurationSet == {heartbeatTimeoutMs, degradedGracePeriodMs,
                staticProbeIntervalMs, dynamicProbeIntervalMs,
                bootGracePeriodMs}

ASSUME ConfigAssumption ==
    /\ DurationSet \subseteq Time
    /\ ByteMod \in Nat \ {0}
    /\ staticMaxProbes \in 0 .. ByteMod - 1
    /\ Policies \subseteq {"STATIC", "DYNAMIC"}
    /\ RecvPreempts \in BOOLEAN
    /\ MaxLag \in Nat \ {0}
    /\ SetupMax \in Nat

VARIABLES
    clock,                                              \* millis()
    state, lastHeardMs, stateEnteredMs, nextProbeMs,    \* ConnectionManager
    probeCount, connected, began, policy,
    pc, nowMs,                      \* the main task's position and argument
    paired, reacquiring, reacqDone, \* the session provider
    handling,       \* the stamp of the message whose tests are passed and
                    \* whose assignments are to come, if there is one
    ackPending,     \* onReconnectAck returned true, the handler has not yet
                    \* called onReacquisitionSuccess
    heardAge, probeAge, setupAge    \* history: ticks since the last message
                    \* and probe, and from power-up until begin

timers   == <<lastHeardMs, stateEnteredMs, nextProbeMs, probeCount>>
manager  == <<state, timers, connected, began, policy>>
provider == <<paired, reacquiring, reacqDone>>
ages     == <<heardAge, probeAge, setupAge>>
callback == <<handling, ackPending>>
vars     == <<clock, manager, pc, nowMs, provider, callback, ages>>

States == {"UNPAIRED_DISCOVERY", "PAIRED_CONNECTED", "PAIRED_DEGRADED",
           "REACQUIRING_STATIC", "REACQUIRING_DYNAMIC"}

(* The main task is idle, at the entry of the handler of a state, between  *)
(* a handler's test and the assignments the test leads to, or between two  *)
(* of those assignments ("demote", "arm").                                 *)
Positions == States \cup {"idle", "recover", "degrade", "demote",
                          "reacquire", "probe", "escalate", "arm", "poll"}

(* Each history counter stops at the largest value a property tells apart. *)
HeardAgeMax == heartbeatTimeoutMs + MaxLag + 1
ProbeAgeMax == staticProbeIntervalMs

TypeOK ==
    /\ clock \in Time
    /\ state \in States
    /\ lastHeardMs \in Time /\ stateEnteredMs \in Time /\ nextProbeMs \in Time
    /\ probeCount \in 0 .. ByteMod - 1
    /\ connected \in BOOLEAN /\ began \in BOOLEAN
    /\ policy \in Policies
    /\ pc \in Positions /\ nowMs \in Time
    /\ paired \in BOOLEAN /\ reacquiring \in BOOLEAN /\ reacqDone \in BOOLEAN
    /\ handling = {} \/ \E t \in Time : handling = {t}
    /\ ackPending \in BOOLEAN
    /\ heardAge \in 0 .. HeardAgeMax
    /\ probeAge \in 0 .. ProbeAgeMax
    /\ setupAge \in 0 .. SetupMax
-----------------------------------------------------------------------------
Init ==
    /\ clock \in Time
    /\ state = "UNPAIRED_DISCOVERY"
    /\ lastHeardMs = 0 /\ stateEnteredMs = 0 /\ nextProbeMs = 0
    /\ probeCount = 0
    /\ connected = FALSE /\ began = FALSE
    /\ policy \in Policies
    /\ pc = "idle" /\ nowMs = clock
    /\ paired \in BOOLEAN                  \* is a pairing stored in NVS?
    /\ reacquiring = FALSE /\ reacqDone = FALSE
    /\ handling = {} /\ ackPending = FALSE
    /\ heardAge = HeardAgeMax /\ probeAge = 0 /\ setupAge = 0

TransitionTo(newState, t) ==
    /\ state' = newState
    /\ stateEnteredMs' = t
    /\ probeCount' = 0

(* Mutant of StartReacquisition: the done flag is cleared, the provider    *)
(* is not armed.                                                           *)
StartReacquisitionUnarmed == UNCHANGED reacquiring /\ reacqDone' = FALSE

(* Mutant of Rejoin: the state moves, connected_ is forgotten.             *)
RejoinWithoutFlag(t) ==
    /\ UNCHANGED connected
    /\ reacquiring' = FALSE /\ reacqDone' = FALSE
    /\ TransitionTo("PAIRED_CONNECTED", t)

(* Mutant of ResetReacquisition: the provider goes on accepting acks.      *)
ResetReacquisitionArmed == UNCHANGED reacquiring /\ reacqDone' = FALSE

StartReacquisition == reacquiring' = TRUE /\ reacqDone' = FALSE
ResetReacquisition == reacquiring' = FALSE /\ reacqDone' = FALSE

(* The way back to PAIRED_CONNECTED that also disarms reacquisition.       *)
Rejoin(t) ==
    /\ connected' = TRUE
    /\ ResetReacquisition
    /\ TransitionTo("PAIRED_CONNECTED", t)

HeardAt(t) == heardAge' = Minus(clock, t)
Probed     == probeAge' = 0

(* A callback that runs in the main task runs to its end there.            *)
MainMayRun == RecvPreempts \/ handling = {}

(* begin(), called once at boot.                                           *)
Begin ==
    /\ ~began /\ MainMayRun
    /\ began' = TRUE
    /\ nowMs' = clock
    /\ IF paired
       THEN /\ TransitionTo("PAIRED_DEGRADED", clock)
            /\ nextProbeMs' = Plus(clock, bootGracePeriodMs)
       ELSE /\ TransitionTo("UNPAIRED_DISCOVERY", clock)
            /\ UNCHANGED nextProbeMs
    /\ setupAge' = 0
    /\ UNCHANGED <<clock, lastHeardMs, connected, policy, pc, provider,
                   callback, heardAge, probeAge>>
-----------------------------------------------------------------------------
(***************************************************************************)
(* loop(nowMs) in the main task.                                           *)
(***************************************************************************)
LoopCall ==
    /\ began /\ MainMayRun
    /\ pc = "idle"
    /\ nowMs' = clock
    /\ pc' = state
    /\ UNCHANGED <<clock, manager, provider, callback, ages>>

HandleUnpairedDiscovery ==
    /\ pc = "UNPAIRED_DISCOVERY"
    /\ pc' = "idle"
    /\ IF paired
       THEN /\ connected' = TRUE
            /\ lastHeardMs' = nowMs
            /\ TransitionTo("PAIRED_CONNECTED", nowMs)
            /\ HeardAt(nowMs)
       ELSE UNCHANGED <<connected, lastHeardMs, state, stateEnteredMs,
                        probeCount, heardAge>>
    /\ UNCHANGED <<clock, nextProbeMs, began, policy, nowMs, provider,
                   callback, probeAge, setupAge>>

(* Mutants of HeartbeatTimedOut: a deadline compared instead of a          *)
(* difference, and an off-by-one.                                          *)
TimedOutByDeadline ==
    lastHeardMs > 0 /\ nowMs > Plus(lastHeardMs, heartbeatTimeoutMs)
TimedOutEarly ==
    lastHeardMs > 0 /\ Minus(nowMs, lastHeardMs) >= heartbeatTimeoutMs

HeartbeatTimedOut ==
    lastHeardMs > 0 /\ Minus(nowMs, lastHeardMs) > heartbeatTimeoutMs

HandlePairedConnected ==
    /\ pc = "PAIRED_CONNECTED"
    /\ pc' = IF HeartbeatTimedOut THEN "degrade" ELSE "idle"
    /\ UNCHANGED <<clock, manager, nowMs, provider, callback, ages>>

(* The assignments after a positive timeout test: the flag, then the state.*)
Degrade ==
    /\ pc = "degrade"
    /\ pc' = "demote"
    /\ connected' = FALSE
    /\ UNCHANGED <<clock, state, timers, began, policy, nowMs, provider,
                   callback, ages>>

Demote ==
    /\ pc = "demote"
    /\ pc' = "idle"
    /\ TransitionTo("PAIRED_DEGRADED", nowMs)
    /\ UNCHANGED <<clock, lastHeardMs, nextProbeMs, connected, began, policy,
                   nowMs, provider, callback, ages>>

(* "if (connected_)" at the top of three handlers: the flag was set while  *)
(* the state was being moved elsewhere.                                    *)
Recover ==
    /\ pc = "recover"
    /\ pc' = "idle"
    /\ TransitionTo("PAIRED_CONNECTED", nowMs)
    /\ UNCHANGED <<clock, lastHeardMs, nextProbeMs, connected, began, policy,
                   nowMs, provider, callback, ages>>

HandlePairedDegraded ==
    /\ pc = "PAIRED_DEGRADED"
    /\ pc' = IF connected THEN "recover"
             ELSE IF Minus(nowMs, stateEnteredMs) < degradedGracePeriodMs
                  THEN "idle" ELSE "reacquire"
    /\ UNCHANGED <<clock, manager, nowMs, provider, callback, ages>>

Reacquire ==
    /\ pc = "reacquire"
    /\ pc' = "idle"
    /\ TransitionTo("REACQUIRING_STATIC", nowMs)
    /\ nextProbeMs' = nowMs
    /\ Probed                          \* the first probe falls due here
    /\ UNCHANGED <<clock, lastHeardMs, connected, began, policy, nowMs,
                   provider, callback, heardAge, setupAge>>

(* Mutants of StaticOutcome: no test of the time; no look at connected_.   *)
StaticOutcomeEager == IF connected THEN "recover" ELSE "probe"
StaticOutcomeBlind == IF nowMs < nextProbeMs THEN "idle" ELSE "probe"

StaticOutcome ==
    IF connected THEN "recover"
    ELSE IF nowMs < nextProbeMs THEN "idle" ELSE "probe"

HandleReacquiringStatic ==
    /\ pc = "REACQUIRING_STATIC"
    /\ pc' = StaticOutcome
    /\ UNCHANGED <<clock, manager, nowMs, provider, callback, ages>>

(* Mutants: the counter does not wrap; the policy test is inverted.        *)
ProbeCountUnbounded == probeCount + 1

(* probeCount_++ on a uint8_t, and the test for leaving STATIC probing.    *)
ProbeCountPlusOne ==
    IF probeCount + 1 < ByteMod THEN probeCount + 1 ELSE 0

ProbesExhausted(sent) ==
    policy = "DYNAMIC" /\ sent >= staticMaxProbes

(* sendProbe() and the count.  The escalation is a step of its own, so the *)
(* answer to this very probe can arrive in between.                        *)
StaticProbe ==
    /\ pc = "probe"
    /\ probeCount' = ProbeCountPlusOne
    /\ nextProbeMs' = Plus(nowMs, staticProbeIntervalMs)
    /\ pc' = IF ProbesExhausted(ProbeCountPlusOne) THEN "escalate" ELSE "idle"
    /\ Probed
    /\ UNCHANGED <<clock, state, lastHeardMs, stateEnteredMs, connected, began,
                   policy, nowMs, provider, callback, heardAge, setupAge>>

(* The state first; the provider is armed by the step after.               *)
Escalate ==
    /\ pc = "escalate"
    /\ pc' = "arm"
    /\ TransitionTo("REACQUIRING_DYNAMIC", nowMs)
    /\ UNCHANGED <<clock, lastHeardMs, nextProbeMs, connected, began, policy,
                   nowMs, provider, callback, ages>>

ArmReacquisition ==
    /\ pc = "arm"
    /\ pc' = "idle"
    /\ StartReacquisition
    /\ nextProbeMs' = nowMs
    /\ UNCHANGED <<clock, state, lastHeardMs, stateEnteredMs, probeCount,
                   connected, began, policy, nowMs, paired, callback, ages>>

(* loopReacquisition() sends the next channel's probe (nothing of it is    *)
(* visible here); its outcome is polled by the step after.                 *)
HandleReacquiringDynamic ==
    /\ pc = "REACQUIRING_DYNAMIC"
    /\ \/ /\ connected
          /\ pc' = "recover"
          /\ UNCHANGED <<nextProbeMs, probeAge>>
       \/ /\ ~connected /\ nowMs < nextProbeMs
          /\ pc' = "idle"
          /\ UNCHANGED <<nextProbeMs, probeAge>>
       \/ /\ ~connected /\ nowMs >= nextProbeMs
          /\ pc' = "poll"
          /\ nextProbeMs' = Plus(nowMs, dynamicProbeIntervalMs)
          /\ Probed
    /\ UNCHANGED <<clock, state, lastHeardMs, stateEnteredMs, probeCount,
                   connected, began, policy, nowMs, provider, callback,
                   heardAge, setupAge>>

PollReacquisition ==
    /\ pc = "poll"
    /\ pc' = "idle"
    /\ IF reacqDone
       THEN /\ Rejoin(nowMs)
            /\ lastHeardMs' = nowMs
            /\ HeardAt(nowMs)
       ELSE UNCHANGED <<connected, lastHeardMs, reacquiring, reacqDone, state,
                        stateEnteredMs, probeCount, heardAge>>
    /\ UNCHANGED <<clock, nextProbeMs, began, policy, nowMs, paired, callback,
                   probeAge, setupAge>>

MainTask ==
    \/ LoopCall \/ HandleUnpairedDiscovery \/ HandlePairedConnected
    \/ Degrade \/ Demote \/ Recover \/ HandlePairedDegraded \/ Reacquire
    \/ HandleReacquiringStatic \/ StaticProbe \/ Escalate \/ ArmReacquisition
    \/ HandleReacquiringDynamic \/ PollReacquisition
-----------------------------------------------------------------------------
(***************************************************************************)
(* The receive callback, and what else reaches the manager's state.        *)
(***************************************************************************)
(* One receive task: the next callback starts when the last has returned.  *)
CallbackMayRun == handling = {} /\ (RecvPreempts \/ pc = "idle")

(* Mutant of MessageCounts: stale messages end broad reacquisition.        *)
MessageCountsAlways == paired

(* onMessageReceived and onHeartbeatReceived have the same body: the tests *)
(* here,                                                                   *)
MessageCounts == paired /\ state # "REACQUIRING_DYNAMIC"

OnMessageReceived ==
    /\ CallbackMayRun
    /\ MessageCounts
    /\ handling' = {clock}
    /\ UNCHANGED <<clock, manager, pc, nowMs, provider, ackPending, ages>>

(* and handleMessageFromCoordinator here, whatever the main task has done  *)
(* since.                                                                  *)
HandleMessage == \E t \in handling :
    /\ handling' = {}
    /\ lastHeardMs' = t
    /\ HeardAt(t)
    /\ IF connected
       THEN UNCHANGED <<connected, reacquiring, reacqDone, state,
                        stateEnteredMs, probeCount>>
       ELSE Rejoin(t)
    /\ UNCHANGED <<clock, nextProbeMs, began, policy, pc, nowMs, paired,
                   ackPending, probeAge, setupAge>>

(* The provider accepts a reconnect ack.  Whether the application then     *)
(* tells the manager, or leaves it to the poll, is its choice.             *)
OnReconnectAck ==
    /\ CallbackMayRun
    /\ reacquiring /\ ~ackPending
    /\ reacqDone' = TRUE
    /\ ackPending' \in BOOLEAN
    /\ UNCHANGED <<clock, manager, pc, nowMs, paired, reacquiring, handling,
                   ages>>

OnReacquisitionSuccess ==
    /\ CallbackMayRun
    /\ ackPending
    /\ ackPending' = FALSE
    /\ lastHeardMs' = clock
    /\ HeardAt(clock)
    /\ Rejoin(clock)
    /\ UNCHANGED <<clock, nextProbeMs, began, policy, pc, nowMs, paired,
                   handling, probeAge, setupAge>>

(* PairingClient::handleConfirm, while discovery scans.                    *)
PairingCompletes ==
    /\ CallbackMayRun
    /\ began /\ ~paired
    /\ state = "UNPAIRED_DISCOVERY"
    /\ paired' = TRUE
    /\ UNCHANGED <<clock, manager, pc, nowMs, reacquiring, reacqDone,
                   callback, ages>>

(* PairingClient::clearPairing, called by the application's main task.     *)
ClearPairing ==
    /\ began /\ pc = "idle" /\ MainMayRun
    /\ paired
    /\ paired' = FALSE
    /\ UNCHANGED <<clock, manager, pc, nowMs, reacquiring, reacqDone,
                   callback, ages>>

Callback == OnMessageReceived \/ HandleMessage \/ OnReconnectAck
            \/ OnReacquisitionSuccess \/ PairingCompletes

(* Time passes.  The main task gets to call loop every MaxLag ticks, and a *)
(* message is handled within as many.                                      *)
Tick ==
    /\ \A t \in handling : Minus(clock, t) < MaxLag
    /\ IF began THEN Minus(clock, nowMs) < MaxLag ELSE setupAge < SetupMax
    /\ clock' = Plus(clock, 1)
    /\ heardAge' = Saturate(heardAge, HeardAgeMax)
    /\ probeAge' = Saturate(probeAge, ProbeAgeMax)
    /\ setupAge' = IF began THEN setupAge ELSE setupAge + 1
    /\ UNCHANGED <<manager, pc, nowMs, provider, callback>>

Next == Begin \/ MainTask \/ Callback \/ ClearPairing \/ Tick

(* The main task never stops calling loop, time does not stop, and a       *)
(* callback that let a message through or accepted an ack runs to its end. *)
(* Nothing is assumed of the coordinator: messages and acks may never come.*)
Fairness == WF_vars(Begin) /\ WF_vars(MainTask) /\ WF_vars(Tick)
            /\ WF_vars(HandleMessage) /\ WF_vars(OnReacquisitionSuccess)

Spec == Init /\ [][Next]_vars /\ Fairness
-----------------------------------------------------------------------------
(***************************************************************************)
(* Properties.                                                             *)
(***************************************************************************)

(* isConnected() and getState() agree: whoever sees PAIRED_CONNECTED may   *)
(* rely on connected_, except between the two assignments of a degradation.*)
ConnectedFlag ==
    (state = "PAIRED_CONNECTED" /\ pc # "demote") => connected

(* While broad reacquisition is the only way back, the provider accepts    *)
(* acks: a reset by a racing message never disarms it.                     *)
ReacquiringArmed ==
    (state = "REACQUIRING_DYNAMIC" /\ ~connected /\ pc # "arm")
        => reacquiring

Near(t, u) == Minus(t, u) <= MaxLag \/ Minus(u, t) <= MaxLag

(* connection_manager.cpp:61-62 ("ignore stale messages - only             *)
(* onReacquisitionSuccess (verified coordinator response) is accepted"), as*)
(* far as the code keeps it: broad reacquisition ends by an ack, or, when  *)
(* callbacks run beside loop(), by the one message that was past its test  *)
(* when the state moved; no message received later ends it.                *)
OnlyAckEndsReacquisition ==
    [][(state = "REACQUIRING_DYNAMIC" /\ ~connected /\ connected')
          => \/ reacqDone \/ ackPending
             \/ RecvPreempts /\ \E t \in handling : Near(t, stateEnteredMs)]_vars

(* A connected node degrades only when the coordinator has been silent for *)
(* longer than the timeout, or when a message was stamped within a lag of  *)
(* the clock reading of the very loop call that degrades.                  *)
DegradeJustified ==
    [][(began /\ state = "PAIRED_CONNECTED" /\ state' = "PAIRED_DEGRADED")
          => heardAge > heartbeatTimeoutMs \/ Near(lastHeardMs, nowMs)]_vars

(* Silence is noticed in bounded time: a node that was connected before    *)
(* the last loop call has heard its coordinator within the timeout and one *)
(* lag.  (A message stamped exactly 0 switches the timeout off: the code   *)
(* tests "lastHeardMs_ > 0".)                                              *)
SilenceBounded ==
    (/\ began /\ state = "PAIRED_CONNECTED" /\ pc = "idle"
     /\ lastHeardMs > 0 /\ stateEnteredMs # nowMs)
        => heardAge <= heartbeatTimeoutMs + MaxLag

(* Two probes of one outage are an interval apart, up to the loop's lag.   *)
(* The test compares readings (nowMs < nextProbeMs_), so it fails while    *)
(* nextProbeMs_ has wrapped past 0 and the clock has not.                  *)
ProbesSpaced ==
    [][(StaticProbe /\ probeCount > 0)
          => \/ probeAge + MaxLag >= staticProbeIntervalMs
             \/ nextProbeMs < staticProbeIntervalMs]_vars

(* A connection flag set while loop() was moving the state elsewhere is    *)
(* repaired: the manager comes to PAIRED_CONNECTED, or degrades again.     *)
FlagHeals ==
    [](connected => <>(state = "PAIRED_CONNECTED" \/ ~connected))

Deaf == heardAge = HeardAgeMax

=============================================================================
