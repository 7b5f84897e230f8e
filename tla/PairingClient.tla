--------------------------- MODULE PairingClient ---------------------------
(***************************************************************************)
(* src/pairing/pairing_client.cpp: a node that scans the channels for a    *)
(* coordinator's beacon, asks to be paired and keeps the answer in NVS.    *)
(*                                                                         *)
(* loop() and the application's calls run in the main task, handleReceived *)
(* in the transport's receive callback.  A loop call is three steps: the   *)
(* application reads the clock (LoopCall), the tests run (Dispatch), and   *)
(* what a positive test leads to (Advance, Restart).  With recvPreempts    *)
(* the callback runs between them, without it only between calls.  The     *)
(* callback itself is one step, as where the WiFi task has the priority on *)
(* one core: the main task is not seen between its assignments.  Power may *)
(* fail between two steps and between two writes to NVS.                   *)
(*                                                                         *)
(* On its own the client receives any frame from any of several            *)
(* coordinators; PairingProtocol and Reconnect give it one that answers.   *)
(***************************************************************************)
EXTENDS Millis, Frames, Sequences

CONSTANTS
    CoordMacs,          \* the MACs frames may come from
    NoCoord,            \* coordinatorMac_ cleared
    ScanChannels,       \* setScanChannels: a sequence, <<>> if never called
    MaxScanChannels,    \* MAX_SCAN_CHANNELS, the last WiFi channel: 13
    DeviceId,
    DwellMs,            \* CHANNEL_SCAN_DWELL_MS: 200 in the code
    PairingTimeoutMs,   \* PAIRING_TIMEOUT_MS: 10000 in the code
    MaxLag              \* the main task calls loop at least every MaxLag ticks

ASSUME ClientAssumption ==
    /\ NoCoord \notin CoordMacs
    /\ MaxScanChannels \in Byte \ {0}
    /\ ScanChannels \in Seq(1 .. MaxScanChannels)
    /\ Len(ScanChannels) \in Byte              \* its count is a uint8_t
    /\ DeviceId \in Byte
    /\ DwellMs \in Time /\ PairingTimeoutMs \in Time
    /\ MaxLag \in Nat \ {0}

VARIABLES
    clock, recvPreempts,
    cup,                \* powered and set up
    cstate, scanIndex, currentScanChannel, channelStartMs, pairingStartMs,
    coordinatorMac, pairedChannel,              \* PairingClient
    cpc, cnow,          \* the main task's position and its clock reading
    radio,              \* the channel the node's radio is on
    prefMac, prefChannel, prefFlag,             \* NVS
    cout                \* the frames the last step handed to the radio

scan  == <<scanIndex, currentScanChannel, channelStartMs, pairingStartMs>>
peer  == <<coordinatorMac, pairedChannel>>
task  == <<cpc, cnow>>
prefs == <<prefMac, prefChannel, prefFlag>>
vars  == <<clock, recvPreempts, cup, cstate, scan, peer, task, radio, prefs, cout>>

PairingStates == {"IDLE", "SCANNING", "RESPONDING", "PAIRED"}
Channels == 1 .. MaxScanChannels
Peers    == CoordMacs \cup {NoCoord}

TypeOK ==
    /\ clock \in Time /\ recvPreempts \in BOOLEAN /\ cup \in BOOLEAN
    /\ cstate \in PairingStates
    /\ scanIndex \in Byte /\ currentScanChannel \in Channels
    /\ channelStartMs \in Time /\ pairingStartMs \in Time
    /\ coordinatorMac \in Peers /\ pairedChannel \in Byte
    /\ cpc \in {"idle", "dispatch", "advance", "restart"} /\ cnow \in Time
    /\ radio \in Channels
    /\ prefMac \in Peers /\ prefChannel \in Byte /\ prefFlag \in BOOLEAN
    /\ cout \in SUBSET [dst : CoordMacs, frame : Frame]

(* setScanChannels was called: its list is scanned, else 1 .. 13. *)
Listed == ScanChannels # <<>>
FirstChannel == IF Listed THEN ScanChannels[1] ELSE 1
-----------------------------------------------------------------------------
Init ==
    /\ clock \in Time /\ recvPreempts \in BOOLEAN
    /\ cup = FALSE
    /\ cstate = "IDLE"
    /\ scanIndex = 0 /\ currentScanChannel = 1
    /\ channelStartMs = 0 /\ pairingStartMs = 0
    /\ coordinatorMac = NoCoord /\ pairedChannel = 0
    /\ cpc = "idle" /\ cnow = clock
    /\ radio \in Channels
    /\ prefMac = NoCoord /\ prefChannel = 0 /\ prefFlag = FALSE
    /\ cout = {}

Quiet == cout' = {}

(* Mutants of SetChannel: no validation; no call to the driver.            *)
SetChannelUnchecked(ch) == radio' = ch
SetChannelDropped(ch)   == UNCHANGED radio

(* transport_.setChannel: EspNowTransport refuses 0 and what is above 13.  *)
SetChannel(ch) == radio' = IF ch \in Channels THEN ch ELSE radio

ScanFromStart ==
    /\ cstate' = "SCANNING"
    /\ scanIndex' = 0
    /\ currentScanChannel' = FirstChannel
    /\ channelStartMs' = 0 /\ pairingStartMs' = 0
    /\ coordinatorMac' = NoCoord /\ pairedChannel' = 0
    /\ SetChannel(FirstChannel)

(* A stored channel is used if it can be scanned, else the first one is.   *)
ScanList == {ScanChannels[i] : i \in DOMAIN ScanChannels}
UsableChannel(ch) == ch \in Channels /\ (Listed => ch \in ScanList)
RestoredChannel ==
    IF UsableChannel(prefChannel) THEN prefChannel ELSE FirstChannel

(* loadStoredPairing() in setup(), and startScanning() when it finds none. *)
Boot ==
    /\ ~cup
    /\ cup' = TRUE
    /\ cnow' = clock
    /\ IF prefFlag /\ prefMac # NoCoord
       THEN /\ cstate' = "PAIRED"
            /\ coordinatorMac' = prefMac
            /\ pairedChannel' = RestoredChannel
            /\ SetChannel(RestoredChannel)
            /\ UNCHANGED scan
       ELSE ScanFromStart
    /\ Quiet
    /\ UNCHANGED <<clock, recvPreempts, cpc, prefs>>

(* The application's calls, from its main task.                            *)
StartScanning ==
    /\ cup /\ cpc = "idle"
    /\ ScanFromStart
    /\ Quiet
    /\ UNCHANGED <<clock, recvPreempts, cup, task, prefs>>

StopScanning ==
    /\ cup /\ cpc = "idle"
    /\ cstate = "SCANNING"
    /\ cstate' = "IDLE"
    /\ Quiet
    /\ UNCHANGED <<clock, recvPreempts, cup, scan, peer, task, radio, prefs>>

ClearPairing ==
    /\ cup /\ cpc = "idle"
    /\ prefMac' = NoCoord /\ prefChannel' = 0 /\ prefFlag' = FALSE
    /\ coordinatorMac' = NoCoord /\ pairedChannel' = 0
    /\ cstate' = "IDLE"
    /\ Quiet
    /\ UNCHANGED <<clock, recvPreempts, cup, scan, task, radio>>
-----------------------------------------------------------------------------
(***************************************************************************)
(* loop(nowMs).                                                            *)
(***************************************************************************)
LoopCall ==
    /\ cup /\ cpc = "idle"
    /\ cpc' = "dispatch"
    /\ cnow' = clock
    /\ Quiet
    /\ UNCHANGED <<clock, recvPreempts, cup, cstate, scan, peer, radio, prefs>>

DwellStart == IF channelStartMs = 0 THEN cnow ELSE channelStartMs

(* Mutants: the timeout test also runs in PAIRED, as after a forgotten     *)
(* "break"; a deadline is compared instead of a difference.                *)
AwaitsConfirmFallThrough == cstate # "SCANNING"
ResponseTimedOutByDeadline == cnow >= pairingStartMs + PairingTimeoutMs

AwaitsConfirm == cstate = "RESPONDING"

ResponseTimedOut == Minus(cnow, pairingStartMs) >= PairingTimeoutMs

Dispatch ==
    /\ cup /\ cpc = "dispatch"
    /\ channelStartMs' = IF cstate = "SCANNING" THEN DwellStart
                         ELSE channelStartMs
    /\ cpc' = CASE cstate = "SCANNING" /\ Minus(cnow, DwellStart) >= DwellMs
                     -> "advance"
                [] AwaitsConfirm /\ ResponseTimedOut -> "restart"
                [] OTHER -> "idle"
    /\ Quiet
    /\ UNCHANGED <<clock, recvPreempts, cup, cstate, scanIndex,
                   currentScanChannel, pairingStartMs, peer, cnow, radio,
                   prefs>>

(* Mutant of NextIndex: the last channel of the list is never reached.     *)
NextIndexShort ==
    IF scanIndex + 2 < Len(ScanChannels) THEN scanIndex + 1 ELSE 0

NextIndex == IF scanIndex + 1 < Len(ScanChannels) THEN scanIndex + 1 ELSE 0

NextChannel ==
    IF Listed THEN ScanChannels[NextIndex + 1]
    ELSE IF currentScanChannel < MaxScanChannels THEN currentScanChannel + 1
    ELSE 1

Advance ==
    /\ cup /\ cpc = "advance"
    /\ cpc' = "idle"
    /\ scanIndex' = IF Listed THEN NextIndex ELSE scanIndex
    /\ currentScanChannel' = NextChannel
    /\ SetChannel(NextChannel)
    /\ channelStartMs' = cnow
    /\ Quiet
    /\ UNCHANGED <<clock, recvPreempts, cup, cstate, pairingStartMs, peer, cnow,
                   prefs>>

Restart ==
    /\ cup /\ cpc = "restart"
    /\ cpc' = "idle"
    /\ ScanFromStart
    /\ Quiet
    /\ UNCHANGED <<clock, recvPreempts, cup, cnow, prefs>>

MainTask == LoopCall \/ Dispatch \/ Advance \/ Restart
-----------------------------------------------------------------------------
(***************************************************************************)
(* handleReceived(src, frame, millis()) in the receive callback.           *)
(***************************************************************************)
CallbackMayRun == cup /\ (recvPreempts \/ cpc = "idle")

HandleBeacon(src, f) ==
    /\ cstate = "SCANNING"
    /\ coordinatorMac' = src
    /\ pairedChannel' = BeaconChannel(f)
    /\ cstate' = "RESPONDING"
    /\ pairingStartMs' = clock
    /\ cout' = {[dst |-> src, frame |-> Request(DeviceId)]}
    /\ UNCHANGED <<scanIndex, currentScanChannel, channelStartMs, radio, prefs>>

(* Mutant of StorePairing: the coordinator's MAC is not written.           *)
StorePairingWithoutMac(mac, ch) ==
    UNCHANGED prefMac /\ prefChannel' = ch /\ prefFlag' = TRUE

StorePairing(mac, ch) ==
    prefMac' = mac /\ prefChannel' = ch /\ prefFlag' = TRUE

HandleConfirm(src, f) ==
    /\ cstate = "RESPONDING"
    /\ IF ConfirmAccepted(f)
       THEN /\ coordinatorMac' = src
            /\ pairedChannel' = ConfirmChannel(f)
            /\ cstate' = "PAIRED"
            /\ SetChannel(ConfirmChannel(f))
            /\ StorePairing(src, ConfirmChannel(f))
            /\ UNCHANGED scan
       ELSE ScanFromStart /\ UNCHANGED prefs
    /\ Quiet

HandleReceived(src, f) ==
    /\ CallbackMayRun
    /\ \/ FromCoordinator(f) /\ (HandleBeacon(src, f) \/ HandleConfirm(src, f))
       \/ /\ ~FromCoordinator(f) \/ cstate \in {"IDLE", "PAIRED"}
          /\ Quiet
          /\ UNCHANGED <<cstate, scan, peer, radio, prefs>>
    /\ UNCHANGED <<clock, recvPreempts, cup, task>>

(* setPairedChannel, called when a reconnect ack names a channel.          *)
SetPairedChannel(ch) ==
    /\ CallbackMayRun
    /\ IF ch \in Channels
       THEN pairedChannel' = ch /\ prefChannel' = ch
       ELSE UNCHANGED <<pairedChannel, prefChannel>>
    /\ UNCHANGED <<clock, recvPreempts, cup, cstate, scan, coordinatorMac, task,
                   prefMac, prefFlag>>
-----------------------------------------------------------------------------
(***************************************************************************)
(* Loss of power: NVS and the clock's progress remain.                     *)
(***************************************************************************)
VolatileReset ==
    /\ cup' = FALSE
    /\ cstate' = "IDLE"
    /\ scanIndex' = 0 /\ currentScanChannel' = 1
    /\ channelStartMs' = 0 /\ pairingStartMs' = 0
    /\ coordinatorMac' = NoCoord /\ pairedChannel' = 0
    /\ cpc' = "idle" /\ cnow' = clock
    /\ radio' \in Channels
    /\ Quiet
    /\ UNCHANGED <<clock, recvPreempts>>

PowerLoss == cup /\ VolatileReset /\ UNCHANGED prefs

(* ... inside storePairing: the MAC is written first, the flag last.       *)
PowerLossInStore(src, f) ==
    /\ CallbackMayRun
    /\ FromCoordinator(f) /\ cstate = "RESPONDING" /\ ConfirmAccepted(f)
    /\ prefMac' = src
    /\ prefChannel' \in {prefChannel, ConfirmChannel(f)}
    /\ UNCHANGED prefFlag
    /\ VolatileReset

(* ... inside clearPairing: the MAC is removed first, the flag last.       *)
PowerLossInClear ==
    /\ cup /\ cpc = "idle"
    /\ prefMac' = NoCoord
    /\ prefChannel' \in {prefChannel, 0}
    /\ UNCHANGED prefFlag
    /\ VolatileReset

(* Time passes.  The main task gets to call loop every MaxLag ticks.       *)
Tick ==
    /\ cup => Minus(clock, cnow) < MaxLag
    /\ clock' = Plus(clock, 1)
    /\ Quiet
    /\ UNCHANGED <<recvPreempts, cup, cstate, scan, peer, task, radio, prefs>>
-----------------------------------------------------------------------------
(***************************************************************************)
(* The client among coordinators that send it anything they can send.      *)
(***************************************************************************)
Received ==
    {Beacon(ch) : ch \in Channels}
    \cup {Confirm(accept, ch) : accept \in BOOLEAN, ch \in Channels}

(* The session provider's onReconnectAck, which does not ask for the       *)
(* client's state: the pairing may have been cleared during the search.    *)
ReconnectAck(ch) == SetPairedChannel(ch) /\ SetChannel(ch) /\ Quiet

Receive ==
    \E src \in CoordMacs :
        \/ \E f \in Received : HandleReceived(src, f)
        \/ \E ch \in Channels : HandleReceived(src, Ack(ch)) \/ ReconnectAck(ch)

(* A scan is started when nothing goes on, as an application does on a     *)
(* user's request; a scan that restarted for ever would get nowhere.       *)
Application ==
    \/ Boot \/ StopScanning \/ ClearPairing
    \/ cstate \in {"IDLE", "PAIRED"} /\ StartScanning

Failure ==
    \/ PowerLoss \/ PowerLossInClear
    \/ \E src \in CoordMacs, f \in Received : PowerLossInStore(src, f)

Next == MainTask \/ Receive \/ Application \/ Failure \/ Tick

(* The main task keeps calling loop and time goes on.                      *)
Fairness == WF_vars(MainTask) /\ WF_vars(Tick)

Spec == Init /\ [][Next]_vars /\ Fairness
-----------------------------------------------------------------------------
(***************************************************************************)
(* Properties.                                                             *)
(***************************************************************************)

(* A client that is PAIRED knows a coordinator, and NVS would bring it back*)
(* PAIRED with the same one and on the same channel ("stored in NVS so they*)
(* survive reboots", README), whatever write was interrupted before.  Only *)
(* a stored channel that cannot be scanned is replaced in RAM alone.       *)
PairedIdentity ==
    cstate = "PAIRED" =>
        /\ coordinatorMac \in CoordMacs
        /\ prefFlag /\ prefMac = coordinatorMac
        /\ prefChannel = pairedChannel \/ ~UsableChannel(prefChannel)

(* Waiting for a confirmation ends: it comes, the wait times out, or the   *)
(* node loses its pairing state otherwise.                                 *)
RespondingEnds == [](cstate = "RESPONDING" => <>(cstate # "RESPONDING"))

(* A client that goes on scanning comes to every channel of its list again *)
(* and again, over the wrap of the clock, on which a dwell starts at 0.    *)
ScanVisitsAll ==
    <>[](cstate = "SCANNING")
        => \A ch \in 1 .. MaxScanChannels :
               (Listed => ch \in ScanList) => []<>(radio = ch)
=============================================================================
