----------------------------- MODULE Reconnect -----------------------------
(***************************************************************************)
(* A paired node that lost its coordinator finds it again: the connection  *)
(* manager drives EspNowSessionProvider (espnow_session_provider.cpp),     *)
(* which tunes the radio, sends reconnect probes and takes the ack, on the *)
(* pairing client's channel in RAM and NVS.  The coordinator's application *)
(* may restart it or move it to another channel; while it runs it answers  *)
(* probes by PairingCoordinator's handler.                                 *)
(*                                                                         *)
(* Between an ack's arrival and its handling lies the receiving            *)
(* application's queue: the node may have tuned to another channel since.  *)
(***************************************************************************)
EXTENDS Millis, Frames, Sequences, FiniteSets

CONSTANTS
    heartbeatTimeoutMs, degradedGracePeriodMs, staticProbeIntervalMs,
    staticMaxProbes, dynamicProbeIntervalMs, bootGracePeriodMs,
    ByteMod, Policies, RecvPreempts, MaxLag, SetupMax,
    Me, Coord, ZeroMac, Broadcast,
    OwnChannels,        \* the channels the coordinator may move to
    MaxPairedClients, BeaconIntervalMs, MaxPeers,
    ScanChannels, MaxScanChannels, DeviceId, DwellMs, PairingTimeoutMs,
    Told,       \* does the receive handler call onReacquisitionSuccess itself,
                \* or is the manager left to poll?
    QueueMax,   \* bound of the node's queue of received frames
    MaxMoves    \* bound of the moves and restarts of the coordinator and of
                \* the restarts of the node

ASSUME ReconnectAssumption ==
    /\ ZeroMac # Coord
    /\ MaxScanChannels \in Byte \ {0}
    /\ ScanChannels \in Seq(1 .. MaxScanChannels)
    /\ OwnChannels \subseteq 1 .. MaxScanChannels

VARIABLES
    clock,
    state, lastHeardMs, stateEnteredMs, nextProbeMs, probeCount, connected,
    began, policy, pc, nowMs, reacquiring, reacqDone, handling, ackPending,
    heardAge, probeAge, setupAge,               \* ConnectionManager
    searchIndex,                                \* EspNowSessionProvider
    recvPreempts, cup, cstate, scanIndex, currentScanChannel, channelStartMs,
    pairingStartMs, coordinatorMac, pairedChannel, cpc, cnow, radio,
    prefMac, prefChannel, prefFlag, cout,       \* PairingClient
    ownChannel, up, pairingEnabled, lastBeaconMs, clients, unpairing,
    prefsOpen, storedMac, storedId, peers, out, owed,
    spared,                                     \* PairingCoordinator
    toNode,     \* the node's queue of received frames
    toCoord,    \* the frame on the air to the coordinator, if any
    moves

Macs      == {Me}
CoordMacs == {Coord}
NoCoord   == ZeroMac
DeviceIds == {DeviceId}

(* hasPairing() is the pairing client's isPaired().                        *)
Node        == INSTANCE ConnectionManager WITH paired <- cstate = "PAIRED"
Client      == INSTANCE PairingClient
Coordinator == INSTANCE PairingCoordinator

managerVars ==
    <<state, lastHeardMs, stateEnteredMs, nextProbeMs, probeCount, connected,
      began, policy, pc, nowMs, reacquiring, reacqDone, handling, ackPending,
      heardAge, probeAge, setupAge>>
pairing ==
    <<recvPreempts, cup, cstate, scanIndex, currentScanChannel, channelStartMs,
      pairingStartMs, coordinatorMac, cpc, cnow, prefMac, prefFlag>>
tuning   == <<radio, pairedChannel, prefChannel>>
nodeVars == <<managerVars, searchIndex, pairing, tuning, cout>>
coordinator ==
    <<pairingEnabled, lastBeaconMs, clients, unpairing, prefsOpen, storedMac,
      storedId, peers, owed, spared>>
coordVars == <<ownChannel, up, out, coordinator>>
vars == <<clock, nodeVars, coordVars, toNode, toCoord, moves>>

TypeOK ==
    /\ Node!TypeOK /\ Client!TypeOK /\ Coordinator!TypeOK
    /\ searchIndex \in 0 .. ByteMod - 1
    /\ toNode \in Seq(Frame) /\ Len(toNode) <= QueueMax
    /\ toCoord \in Seq(Frame) /\ Len(toCoord) <= 1
    /\ moves \in 0 .. MaxMoves

(* A node paired on the coordinator's channel, switched off, and its       *)
(* coordinator, of which it is the only client.                            *)
Init ==
    /\ recvPreempts = RecvPreempts /\ cup = FALSE /\ cstate = "IDLE"
    /\ Node!Init
    /\ searchIndex = 0
    /\ scanIndex = 0 /\ currentScanChannel = 1
    /\ channelStartMs = 0 /\ pairingStartMs = 0
    /\ coordinatorMac = NoCoord /\ pairedChannel = 0
    /\ cpc = "idle" /\ cnow = clock
    /\ up = TRUE /\ ownChannel \in OwnChannels
    /\ prefMac = Coord /\ prefChannel = ownChannel /\ prefFlag = TRUE
    /\ radio = 1 /\ cout = {}
    /\ pairingEnabled = FALSE /\ lastBeaconMs = 0 /\ unpairing = MaxPairedClients
    /\ storedMac = [s \in Coordinator!Slots |-> IF s = 0 THEN Me ELSE ZeroMac]
    /\ storedId = [s \in Coordinator!Slots |-> IF s = 0 THEN DeviceId ELSE 0]
    /\ clients = [s \in Coordinator!Slots |-> Coordinator!LoadedSlot(s)]
    /\ peers = {Me} /\ out = {}
    /\ owed = {Me} /\ spared = {} /\ prefsOpen = FALSE
    /\ toNode = <<>> /\ toCoord = <<>>
    /\ moves = 0
-----------------------------------------------------------------------------
InRange == up /\ cup /\ radio = ownChannel

(* A frame that reaches its addressee waits there if there is room.        *)
Carry(queue, room, reaches, frame) ==
    IF reaches /\ Len(queue) < room THEN Append(queue, frame) ELSE queue

(* A main task that also handles the frames finishes one before it goes on.*)
MainMayRun == cup /\ (RecvPreempts \/ (handling = {} /\ ~ackPending))

Elsewhere ==
    UNCHANGED <<pairing, tuning, cout, coordVars, toNode, toCoord, moves>>

(* Mutant of SearchChannel: the first channel is skipped.                  *)
SearchChannelSkipsFirst ==
    ScanChannels[IF Len(ScanChannels) = 1 THEN 1
                 ELSE (searchIndex % (Len(ScanChannels) - 1)) + 2]

(* scanIndex_++ on a uint8_t.                                              *)
NextIndex == (searchIndex + 1) % ByteMod

SearchChannel ==
    IF Client!Listed
    THEN ScanChannels[(searchIndex % Len(ScanChannels)) + 1]
    ELSE (searchIndex % MaxScanChannels) + 1

SendReconnectProbeOnChannel(channel) ==
    /\ Client!SetChannel(channel)
    /\ toCoord' = Carry(toCoord, 1, up /\ radio' = ownChannel, Probe(DeviceId))

LoopReacquisition ==
    IF reacquiring /\ cstate = "PAIRED"
    THEN /\ SendReconnectProbeOnChannel(SearchChannel)
         /\ searchIndex' = NextIndex
    ELSE UNCHANGED <<radio, toCoord, searchIndex>>

Search ==
    /\ UNCHANGED <<pairing, pairedChannel, prefChannel, cout, coordVars, toNode,
                   moves>>
    /\ Node!HandleReacquiringDynamic
    /\ IF pc' = "poll" THEN LoopReacquisition
       ELSE UNCHANGED <<radio, toCoord, searchIndex>>

(* The rest of the main task; startReacquisition and resetReacquisition    *)
(* begin the search anew.                                                  *)
ElsewhereInLoop ==
    /\ Elsewhere
    /\ \/ Node!Begin \/ Node!LoopCall \/ Node!HandlePairedConnected
       \/ Node!Degrade \/ Node!Demote \/ Node!Recover
       \/ Node!HandlePairedDegraded \/ Node!Reacquire
       \/ Node!HandleReacquiringStatic \/ Node!StaticProbe
       \/ Node!Escalate \/ Node!ArmReacquisition \/ Node!PollReacquisition
    /\ searchIndex' = IF pc = "arm" \/ (pc = "poll" /\ reacqDone)
                      THEN 0 ELSE searchIndex

NodeLoop == MainMayRun /\ (Search \/ ElsewhereInLoop)
-----------------------------------------------------------------------------
(***************************************************************************)
(* What the node receives.                                                 *)
(***************************************************************************)

(* The coordinator's application sends heartbeats and answers the probes   *)
(* of the static phase; what reaches the node in time is anyone's guess.   *)
HeartbeatArrives ==
    /\ InRange
    /\ Elsewhere
    /\ Node!OnMessageReceived
    /\ UNCHANGED searchIndex

HeartbeatHandled ==
    /\ Elsewhere
    /\ Node!HandleMessage
    /\ searchIndex' = IF connected THEN searchIndex ELSE 0

(* Mutant of TuneTo: the pairing is updated, the radio is not tuned.       *)
TuneToNothing(ch) == UNCHANGED radio

TuneTo(ch) == Client!SetChannel(ch)

(* onReconnectAck.                                                         *)
AckArrives ==
    /\ cup /\ toNode # <<>>
    /\ toNode' = Tail(toNode)
    /\ \/ /\ TuneTo(AckChannel(Head(toNode)))
          /\ Client!SetPairedChannel(AckChannel(Head(toNode)))
          /\ Node!OnReconnectAck
          /\ ackPending' = Told
       \/ /\ Node!CallbackMayRun /\ ~reacquiring
          /\ UNCHANGED <<clock, managerVars, pairing, tuning>>
    /\ UNCHANGED <<searchIndex, cout, toCoord, coordVars, moves>>

AckTold ==
    /\ Elsewhere
    /\ Node!OnReacquisitionSuccess
    /\ searchIndex' = 0

(* A new manager and a new provider, as their constructors leave them.     *)
NewManager ==
    /\ state' = "UNPAIRED_DISCOVERY"
    /\ lastHeardMs' = 0 /\ stateEnteredMs' = 0 /\ nextProbeMs' = 0
    /\ probeCount' = 0
    /\ connected' = FALSE /\ began' = FALSE
    /\ pc' = "idle" /\ nowMs' = clock
    /\ reacquiring' = FALSE /\ reacqDone' = FALSE
    /\ handling' = {} /\ ackPending' = FALSE
    /\ heardAge' = Node!HeardAgeMax /\ probeAge' = 0 /\ setupAge' = 0
    /\ searchIndex' = 0
    /\ UNCHANGED policy

(* Loss of power on the node, and its setup: loadStoredPairing() brings it *)
(* back PAIRED, on the stored channel.                                     *)
NodeFails ==
    /\ moves < MaxMoves /\ moves' = moves + 1
    /\ Client!PowerLoss
    /\ NewManager
    /\ toNode' = <<>>
    /\ UNCHANGED <<toCoord, coordVars>>

NodeBoots ==
    /\ Client!Boot
    /\ UNCHANGED <<managerVars, searchIndex, toNode, toCoord, coordVars, moves>>
-----------------------------------------------------------------------------
(* The ack may be lost on its way; in the node's queue it is not.          *)
CoordinatorAnswers ==
    /\ toCoord # <<>>
    /\ toCoord' = Tail(toCoord)
    /\ Coordinator!HandleReceived(Me, Head(toCoord))
    /\ toNode' \in {toNode, Carry(toNode, QueueMax, InRange /\ out' # {},
                                 Ack(ownChannel))}
    /\ UNCHANGED <<nodeVars, moves>>

(* The coordinator goes down, comes up, or moves to another channel; frames*)
(* on the air are lost then.                                               *)
CoordinatorMoves ==
    /\ moves < MaxMoves /\ moves' = moves + 1
    /\ up' \in BOOLEAN /\ ownChannel' \in OwnChannels
    /\ up' # up \/ ownChannel' # ownChannel
    /\ toCoord' = <<>>
    /\ out' = {}
    /\ UNCHANGED <<clock, nodeVars, coordinator, toNode>>

LoseProbe ==
    /\ toCoord # <<>> /\ toCoord' = <<>>
    /\ UNCHANGED <<clock, nodeVars, coordVars, toNode, moves>>

(* Frames are on the air for less than a tick; the node's queue holds them *)
(* longer.                                                                 *)
Tick ==
    /\ toCoord = <<>>
    /\ MainMayRun
    /\ UNCHANGED searchIndex /\ Elsewhere
    /\ Node!Tick

Next ==
    \/ NodeLoop \/ HeartbeatArrives \/ HeartbeatHandled \/ AckArrives
    \/ AckTold \/ NodeFails \/ NodeBoots \/ CoordinatorAnswers
    \/ CoordinatorMoves \/ LoseProbe \/ Tick

(* The node's main task goes on however many frames it handles, and time   *)
(* does; between two loop calls the application takes a frame from its     *)
(* queue.  Of the probes sent on the coordinator's channel not every one is*)
(* lost, nor is every ack.                                                 *)
Fairness ==
    /\ SF_vars(NodeLoop) /\ WF_vars(Tick) /\ WF_vars(NodeBoots)
    /\ WF_vars(HeartbeatHandled) /\ WF_vars(AckTold)
    /\ WF_vars(LoseProbe \/ CoordinatorAnswers)
    /\ SF_vars(CoordinatorAnswers /\ toNode' # toNode)
    /\ SF_vars(AckArrives)

Spec == Init /\ [][Next]_vars /\ Fairness
-----------------------------------------------------------------------------
(***************************************************************************)
(* Properties.                                                             *)
(***************************************************************************)

(* "switch to its channel" (espnow_session_provider.cpp:77): a node that   *)
(* takes itself for connected listens on the channel its pairing names.    *)
TunedWhenConnected ==
    (state = "PAIRED_CONNECTED" /\ pc = "idle") => radio = pairedChannel

(* The paired channel, which NVS keeps, is changed by acks of a search in  *)
(* progress only, never by one that comes in after it ended.               *)
ChannelMovesInSearch ==
    [][pairedChannel' # pairedChannel
          => \/ state = "REACQUIRING_DYNAMIC" /\ ~connected
             \/ ~cup \/ ~cup']_vars

(* A coordinator that stays on one channel is found again, whichever       *)
(* channel that is, across the wrap of scanIndex_.                         *)
FoundAgain == <>[]up => []<>(state = "PAIRED_CONNECTED")
=============================================================================
