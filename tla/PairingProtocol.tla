-------------------------- MODULE PairingProtocol --------------------------
(***************************************************************************)
(* The pairing handshake: one PairingClient and one PairingCoordinator on  *)
(* an ESP-NOW radio, with other clients only as the initial contents of    *)
(* the coordinator's table.  The radio (external) carries a frame from the *)
(* channel the sender is on to the nodes on that channel, may lose it, and *)
(* hands a node its frames in the order sent, within the tick.             *)
(***************************************************************************)
EXTENDS Millis, Frames, Sequences, FiniteSets

CONSTANTS
    Me, Coord, Other,   \* the MACs of the client, the coordinator and of a
                        \* client that paired earlier
    OtherDevice,        \* that client's device id
    ZeroMac, Broadcast,
    OwnChannels, MaxPairedClients, BeaconIntervalMs, MaxPeers,
    ScanChannels, MaxScanChannels, DeviceId, DwellMs, PairingTimeoutMs, MaxLag,
    MaxInFlight,        \* bound of each receive queue
    MaxUpsets           \* bound of the losses of power and of the
                        \* application's interventions in a behaviour

(* The last conjunct: the other device is not taken for this one, also     *)
(* when a store cut short left this one's slot with the id 0.              *)
ASSUME ProtocolAssumption ==
    /\ Me # Other /\ {ZeroMac, Broadcast} \cap {Me, Other} = {}
    /\ MaxPairedClients \in Nat \ {0}
    /\ MaxScanChannels \in Byte \ {0}
    /\ ScanChannels \in Seq(1 .. MaxScanChannels)
    /\ OwnChannels \subseteq 1 .. MaxScanChannels
    /\ DeviceId \in Byte /\ OtherDevice \in Byte \ {0, DeviceId}

Macs      == {Me, Other}
CoordMacs == {Coord}
NoCoord   == ZeroMac
DeviceIds == {DeviceId, OtherDevice}

VARIABLES
    clock,
    ownChannel, up, pairingEnabled, lastBeaconMs, clients, unpairing,
    prefsOpen, storedMac, storedId, peers, out, owed,
    spared,                                                 \* the coordinator
    recvPreempts, cup, cstate, scanIndex, currentScanChannel, channelStartMs,
    pairingStartMs, coordinatorMac, pairedChannel, cpc, cnow, radio,
    prefMac, prefChannel, prefFlag, cout,                   \* the client
    toClient, toCoord,  \* frames in flight
    pairedBy,           \* history: the frame that made the client PAIRED
    raced,              \* history: it became PAIRED inside a loop call that
                        \* had passed its test
    upsets              \* how many upsets there have been

Client      == INSTANCE PairingClient
Coordinator == INSTANCE PairingCoordinator

clientState ==
    <<recvPreempts, cup, cstate, scanIndex, currentScanChannel, channelStartMs,
      pairingStartMs, coordinatorMac, pairedChannel, cpc, cnow, radio,
      prefMac, prefChannel, prefFlag>>
coordState ==
    <<ownChannel, up, pairingEnabled, lastBeaconMs, clients, unpairing,
      prefsOpen, storedMac, storedId, peers, owed, spared>>
vars == <<clock, clientState, cout, coordState, out, toClient, toCoord,
          pairedBy, raced, upsets>>

TypeOK ==
    /\ Client!TypeOK
    /\ Coordinator!TypeOK
    /\ toClient \in Seq(Frame) /\ Len(toClient) <= MaxInFlight
    /\ toCoord \in Seq(Frame) /\ Len(toCoord) <= MaxInFlight
    /\ pairedBy \in {"none", "beacon", "confirm"} /\ raced \in BOOLEAN
    /\ upsets \in 0 .. MaxUpsets

Init ==
    /\ Client!Init
    /\ Coordinator!Init
    /\ toClient = <<>> /\ toCoord = <<>>
    /\ pairedBy = "none" /\ raced = FALSE
    /\ upsets = 0

Upset == upsets < MaxUpsets /\ upsets' = upsets + 1
-----------------------------------------------------------------------------
(***************************************************************************)
(* The radio.                                                              *)
(***************************************************************************)
InRange == up /\ cup /\ radio = ownChannel

Carry(queue, frames) ==
    IF InRange /\ frames # {} /\ Len(queue) < MaxInFlight
    THEN Append(queue, (CHOOSE o \in frames : TRUE).frame)
    ELSE queue

ToMe(frames) == {o \in frames : o.dst \in {Me, Broadcast}}

(* The main task is past a test of loop() and has yet to act on it.        *)
Committed == cpc \in {"advance", "restart"}

(* A step of the client or of the coordinator, and what it transmits. *)
ClientSends ==
    /\ raced' = (cstate' = "PAIRED" /\ IF cstate = "PAIRED" THEN raced
                                       ELSE Committed)
    /\ toCoord' = Carry(toCoord, cout')
    /\ Coordinator!Silent
    /\ UNCHANGED coordState

CoordinatorSends(queue) ==
    /\ toClient' = Carry(queue, ToMe(out'))
    /\ Client!Quiet
    /\ UNCHANGED <<clientState, pairedBy, raced>>

(* A frame is received or lost when its turn comes; one that waits for the *)
(* main task is not lost meanwhile.                                        *)
Lose ==
    /\ \/ /\ toClient # <<>> /\ Client!CallbackMayRun
          /\ toClient' = Tail(toClient) /\ UNCHANGED toCoord
       \/ toCoord # <<>> /\ toCoord' = Tail(toCoord) /\ UNCHANGED toClient
    /\ UNCHANGED <<clock, clientState, cout, coordState, out, pairedBy, raced,
                   upsets>>
-----------------------------------------------------------------------------
(***************************************************************************)
(* The client.                                                             *)
(***************************************************************************)
(* An application that queues frames drains the queue before it calls loop.*)
ClientLoop ==
    /\ Client!MainTask
    /\ (~recvPreempts /\ cpc = "idle") => toClient = <<>>
    /\ ClientSends
    /\ UNCHANGED <<toClient, pairedBy, upsets>>

(* The application scans again on a user's request, when nothing goes on. *)
ClientApp ==
    /\ \/ Client!Boot /\ UNCHANGED upsets
       \/ Client!StartScanning /\ cstate \in {"IDLE", "PAIRED"} /\ Upset
       \/ Client!StopScanning /\ Upset
       \/ Client!ClearPairing /\ Upset
    /\ ClientSends
    /\ UNCHANGED <<toClient, pairedBy>>

(* No confirmation names channel 0, so byte 6 tells the two frames apart   *)
(* here; the client has no such test.                                      *)
KindOf(f) == IF ConfirmChannel(f) = 0 THEN "beacon" ELSE "confirm"

ClientReceives ==
    /\ toClient # <<>>
    /\ Client!HandleReceived(Coord, Head(toClient))
    /\ toClient' = Tail(toClient)
    /\ ClientSends
    /\ pairedBy' = IF cstate # "PAIRED" /\ cstate' = "PAIRED"
                   THEN KindOf(Head(toClient)) ELSE pairedBy
    /\ UNCHANGED upsets

ClientFails ==
    /\ \/ Client!PowerLoss /\ UNCHANGED pairedBy
       \/ Client!PowerLossInClear /\ UNCHANGED pairedBy
       \/ /\ toClient # <<>>
          /\ Client!PowerLossInStore(Coord, Head(toClient))
          /\ pairedBy' = KindOf(Head(toClient))
    /\ Upset
    /\ toClient' = <<>>
    /\ ClientSends
-----------------------------------------------------------------------------
(***************************************************************************)
(* The coordinator, and the other client's requests to it.                 *)
(***************************************************************************)
CoordinatorLoop ==
    Coordinator!Loop /\ CoordinatorSends(toClient) /\ UNCHANGED <<toCoord, upsets>>

CoordinatorApp ==
    /\ \/ Coordinator!LoadPairedClients /\ UNCHANGED upsets
       \/ Coordinator!EnablePairing /\ ~pairingEnabled /\ UNCHANGED upsets
       \/ Coordinator!DisablePairing /\ pairingEnabled /\ Upset
    /\ CoordinatorSends(toClient)
    /\ UNCHANGED toCoord

CoordinatorReceives ==
    /\ toCoord # <<>>
    /\ Coordinator!HandleReceived(Me, Head(toCoord))
    /\ toCoord' = Tail(toCoord)
    /\ CoordinatorSends(toClient)
    /\ UNCHANGED upsets

OtherRequests ==
    /\ ~Coordinator!IsPaired(Other)
    /\ Coordinator!HandleReceived(Other, Request(OtherDevice))
    /\ Upset
    /\ CoordinatorSends(toClient)
    /\ UNCHANGED toCoord

CoordinatorFails ==
    /\ \/ Coordinator!PowerLoss
       \/ /\ toCoord # <<>>
          /\ Coordinator!PowerLossInStore(Me, RequestDeviceId(Head(toCoord)))
    /\ Upset
    /\ toCoord' = <<>>
    /\ CoordinatorSends(toClient)

(* Time passes when both loops have had their turn and the radio is quiet. *)
Tick ==
    /\ cup => Minus(clock, cnow) < MaxLag
    /\ ~Coordinator!BeaconDue
    /\ toClient = <<>> /\ toCoord = <<>>
    /\ Coordinator!Tick
    /\ UNCHANGED <<clientState, cout, toClient, toCoord, pairedBy, raced,
                   upsets>>

Next ==
    \/ ClientLoop \/ ClientApp \/ ClientReceives \/ ClientFails
    \/ CoordinatorLoop \/ CoordinatorApp \/ CoordinatorReceives
    \/ OtherRequests \/ CoordinatorFails \/ Lose \/ Tick

(* Both main tasks keep calling loop and time goes on.  The radio loses    *)
(* frames, but not every one: a client that is in reach of beacons again   *)
(* and again handles one while it is still on their channel, and one frame *)
(* while it waits.                                                         *)
Fairness ==
    /\ WF_vars(ClientLoop) /\ WF_vars(CoordinatorLoop) /\ WF_vars(Tick)
    /\ WF_vars(Lose \/ ClientReceives) /\ WF_vars(Lose \/ CoordinatorReceives)
    /\ SF_vars(ClientReceives /\ cstate = "SCANNING" /\ InRange)
    /\ SF_vars(ClientReceives /\ cstate = "RESPONDING")
    /\ SF_vars(CoordinatorReceives)

Spec == Init /\ [][Next]_vars /\ Fairness
-----------------------------------------------------------------------------
(***************************************************************************)
(* Properties.                                                             *)
(***************************************************************************)

(* Agreement: a client that a confirmation made PAIRED is stored by the    *)
(* coordinator, over lost frames and restarts of both.                     *)
ConfirmedAgreement ==
    (cstate = "PAIRED" /\ pairedBy = "confirm") => Me \in Coordinator!StoredMacs

(* A PAIRED client listens on its paired channel, if it was told one.  A   *)
(* frame that paired it inside a loop call which had passed its test is    *)
(* the one exception: that call may move the radio on, and NVS keeps the   *)
(* channel for the next restart.                                           *)
PairedTuned ==
    (cstate = "PAIRED" /\ pairedChannel # 0)
        => \/ radio = pairedChannel
           \/ raced /\ prefChannel = pairedChannel

(* No timer undoes a pairing: only the application or a loss of power ends *)
(* PAIRED, or a loop call that had timed out before the frame came; it     *)
(* leaves the pairing in NVS, where the next restart finds it.             *)
PairingKept ==
    [][(cstate = "PAIRED" /\ cstate' # "PAIRED")
          => \/ ClientApp \/ ClientFails
             \/ raced /\ cpc = "restart" /\ prefFlag' /\ prefMac' = Coord]_vars

CanPair ==
    /\ up /\ cup /\ pairingEnabled
    /\ cstate # "IDLE"
    /\ Coordinator!FreeSlots # {} \/ Coordinator!IsPaired(Me)

(* A client that drains its frames between loop calls and keeps scanning   *)
(* while the coordinator pairs, with a slot for it, becomes PAIRED.  With  *)
(* a preempting callback a radio could be so unkind as to deliver every    *)
(* beacon inside a loop call that moves on.                                *)
EventuallyPairs ==
    (~recvPreempts /\ <>[]CanPair) => []<>(cstate = "PAIRED")

(* "Confirmation sent by coordinator to client" (pairing_beacon.h:56) is   *)
(* what pairs a client: a PAIRED client is stored by its coordinator.      *)
PairedAgreement == cstate = "PAIRED" => Me \in Coordinator!StoredMacs
=============================================================================
