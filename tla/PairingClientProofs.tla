------------------------ MODULE PairingClientProofs ------------------------
(***************************************************************************)
(* Theorems of PairingClient: for every list of channels, every set of     *)
(* coordinators and every width of the clock, with a receive callback that *)
(* preempts the main task or not, and power failures between any two       *)
(* writes to NVS.                                                          *)
(***************************************************************************)
EXTENDS PairingClient, TLAPS

-----------------------------------------------------------------------------
(***************************************************************************)
(* The operators.                                                          *)
(***************************************************************************)

(* The next millisecond is a reading, even on a clock of one value.        *)
LEMMA NextInTime == \A a \in Time : Plus(a, 1) \in Time
  BY ClockModAssumption, SMT DEF Time, Plus

(* Readings are numbers, and 0, the timers' first value, is one.           *)
LEMMA TimeIsNat == Time \subseteq Nat /\ 0 \in Time
  BY ClockModAssumption, SMT DEF Time

(* What the assumption on the constants says of the channels.              *)
LEMMA ChannelsTyped ==
    /\ MaxScanChannels \in Nat /\ 1 \in Channels /\ Channels \subseteq Byte
    /\ \A ch \in Channels : ch # 0
  BY ClientAssumption DEF Byte, Channels

(* setScanChannels' list names channels, and a uint8_t indexes it.         *)
LEMMA ListTyped ==
    /\ \A i \in 1 .. Len(ScanChannels) : ScanChannels[i] \in Channels
    /\ Len(ScanChannels) \in Byte
    /\ Listed => Len(ScanChannels) >= 1
  BY ClientAssumption DEF Channels, Listed, Byte

(* A scan starts on a channel of the radio.                                *)
LEMMA FirstChannelTyped == FirstChannel \in Channels
  BY ListTyped, ChannelsTyped DEF FirstChannel, Byte

(* transport_.setChannel keeps the radio on a channel, whatever byte it is *)
(* given.                                                                  *)
LEMMA RadioTyped ==
    ASSUME NEW ch, radio \in Channels, SetChannel(ch) PROVE radio' \in Channels
  BY DEF SetChannel

(* Whatever byte NVS holds, a channel of the radio is restored from it.    *)
LEMMA RestoredTyped == RestoredChannel \in Channels
  BY FirstChannelTyped DEF RestoredChannel, UsableChannel

(* The next place of the list exists, and so does the next channel.        *)
LEMMA NextTyped ==
    ASSUME scanIndex \in Byte, currentScanChannel \in Channels
    PROVE  /\ NextIndex \in Byte
           /\ NextChannel \in Channels
  <1> DEFINE n == Len(ScanChannels)
  <1>0. n \in 0 .. 255 /\ scanIndex \in 0 .. 255 /\ (Listed => n >= 1)
    BY ListTyped DEF Byte
  <1>1. NextIndex \in Byte /\ (Listed => NextIndex + 1 \in 1 .. n)
    <2>1. NextIndex = IF scanIndex + 1 < n THEN scanIndex + 1 ELSE 0
      BY DEF NextIndex
    <2> HIDE DEF n
    <2> QED BY <1>0, <2>1 DEF Byte
  <1>2. CASE Listed
    BY <1>1, <1>2, ListTyped DEF NextChannel
  <1>3. CASE ~Listed
    BY <1>1, <1>3, ChannelsTyped DEF NextChannel, Channels
  <1> QED BY <1>2, <1>3, <1>1

(* Every frame a coordinator sends is a frame, and the fields the client   *)
(* reads are bytes.                                                        *)
LEMMA FrameFields ==
    \A f \in Frame : BeaconChannel(f) \in Byte /\ ConfirmChannel(f) \in Byte
  BY DEF Frame, BeaconChannel, ConfirmChannel

(* What the client can receive, its answers and its request are frames.    *)
LEMMA FramesReceived ==
    /\ Received \subseteq Frame
    /\ \A ch \in Channels : Ack(ch) \in Frame
    /\ Request(DeviceId) \in Frame
  <1>1. Byte = 0 .. 255 /\ DeviceId \in Byte /\ Channels \subseteq Byte
    BY ChannelsTyped, ClientAssumption DEF Byte
  <1>2. 0 \in Byte /\ 1 \in Byte /\ COORDINATOR \in Byte /\ CLIENT \in Byte
    BY <1>1 DEF COORDINATOR, CLIENT
  <1>3. \A m \in {"PAIRING", "RECONNECT"} : \A x, y, z \in Byte :
            Bytes(m, x, y, z) \in Frame
    BY DEF Bytes, Frame
  <1>4. \A ch \in Channels : Beacon(ch) \in Frame /\ Ack(ch) \in Frame
    BY <1>1, <1>2, <1>3 DEF Beacon, Ack
  <1>5. \A accept \in BOOLEAN, ch \in Channels : Confirm(accept, ch) \in Frame
    BY <1>1, <1>2, <1>3 DEF Confirm
  <1>6. Request(DeviceId) \in Frame
    BY <1>1, <1>2, <1>3 DEF Request
  <1> QED BY <1>4, <1>5, <1>6 DEF Received

-----------------------------------------------------------------------------
(***************************************************************************)
(* Types.                                                                  *)
(***************************************************************************)
TaskTyped ==
    /\ clock \in Time /\ recvPreempts \in BOOLEAN /\ cup \in BOOLEAN
    /\ cpc \in {"idle", "dispatch", "advance", "restart"} /\ cnow \in Time

ScanTyped ==
    /\ scanIndex \in Byte /\ currentScanChannel \in Channels
    /\ channelStartMs \in Time /\ pairingStartMs \in Time
    /\ radio \in Channels

PeerTyped ==
    /\ cstate \in PairingStates
    /\ coordinatorMac \in Peers /\ pairedChannel \in Byte

PrefsTyped ==
    prefMac \in Peers /\ prefChannel \in Byte /\ prefFlag \in BOOLEAN

OutTyped == cout \in SUBSET [dst : CoordMacs, frame : Frame]

(* The types, and that NVS agrees with what is in RAM.                     *)
ClientInv ==
    /\ TaskTyped /\ ScanTyped /\ PeerTyped /\ PrefsTyped /\ OutTyped
    /\ PairedIdentity

(* startScanning leaves a client that scans, from the first channel.       *)
LEMMA ScanFromStartTyped ==
    ASSUME ScanTyped, ScanFromStart PROVE ScanTyped' /\ PeerTyped'
  <1>1. FirstChannel \in Channels /\ radio' \in Channels
    BY FirstChannelTyped, RadioTyped DEF ScanTyped, ScanFromStart
  <1>2. 0 \in Byte /\ 0 \in Time
    BY TimeIsNat DEF Byte
  <1> QED
    BY <1>1, <1>2
    DEF ScanFromStart, ScanTyped, PeerTyped, PairingStates, Peers

(* A loss of power leaves what the constructor leaves.                     *)
LEMMA VolatileResetTyped ==
    ASSUME TaskTyped, VolatileReset
    PROVE  TaskTyped' /\ ScanTyped' /\ PeerTyped' /\ OutTyped' /\ cstate' = "IDLE"
  <1>1. 0 \in Byte /\ 0 \in Time /\ 1 \in Channels
    BY TimeIsNat, ChannelsTyped DEF Byte
  <1> QED
    BY <1>1
    DEF VolatileReset, Quiet, TaskTyped, ScanTyped, PeerTyped, OutTyped,
        PairingStates, Peers

(* Nothing is sent in most steps.                                          *)
LEMMA QuietTyped == Quiet => OutTyped'
  BY DEF Quiet, OutTyped

(* A frame of a coordinator that is handled keeps types and identity: what *)
(* a confirmation says is stored as it is taken.                           *)
LEMMA FrameHandled ==
    ASSUME ClientInv, NEW src \in CoordMacs, NEW f \in Frame,
           HandleReceived(src, f)
    PROVE  ClientInv'
  <1>1. TaskTyped /\ ScanTyped /\ PeerTyped /\ PrefsTyped /\ PairedIdentity
    BY DEF ClientInv
  <1>2. TaskTyped'
    BY <1>1 DEF HandleReceived, TaskTyped, task
  <1>3. BeaconChannel(f) \in Byte /\ ConfirmChannel(f) \in Byte
    BY FrameFields
  <1>4. CASE HandleBeacon(src, f)
    <2>1. ScanTyped' /\ PeerTyped' /\ PrefsTyped'
      BY <1>1, <1>3, <1>4
      DEF HandleBeacon, TaskTyped, ScanTyped, PeerTyped, PrefsTyped, prefs,
          PairingStates, Peers
    <2>2. OutTyped'
      BY <1>4, FramesReceived DEF HandleBeacon, OutTyped
    <2>3. PairedIdentity'
      BY <1>4 DEF HandleBeacon, PairedIdentity
    <2> QED BY <1>2, <2>1, <2>2, <2>3 DEF ClientInv
  <1>5. CASE HandleConfirm(src, f) /\ ConfirmAccepted(f)
    <2>1. radio' \in Channels
      BY <1>1, <1>5, RadioTyped DEF HandleConfirm, ScanTyped
    <2>2. ScanTyped' /\ PeerTyped' /\ PrefsTyped'
      BY <1>1, <1>3, <1>5, <2>1
      DEF HandleConfirm, StorePairing, ScanTyped, PeerTyped, PrefsTyped, scan,
          PairingStates, Peers
    <2>3. OutTyped'
      BY <1>5, QuietTyped DEF HandleConfirm
    <2>4. PairedIdentity'
      BY <1>5 DEF HandleConfirm, StorePairing, PairedIdentity
    <2> QED BY <1>2, <2>2, <2>3, <2>4 DEF ClientInv
  <1>6. CASE HandleConfirm(src, f) /\ ~ConfirmAccepted(f)
    <2>1. ScanTyped' /\ PeerTyped'
      BY <1>1, <1>6, ScanFromStartTyped DEF HandleConfirm
    <2>2. PrefsTyped' /\ OutTyped'
      BY <1>1, <1>6, QuietTyped DEF HandleConfirm, PrefsTyped, prefs
    <2>3. PairedIdentity'
      BY <1>6 DEF HandleConfirm, ScanFromStart, PairedIdentity
    <2> QED BY <1>2, <2>1, <2>2, <2>3 DEF ClientInv
  <1>7. CASE Quiet /\ UNCHANGED <<cstate, scan, peer, radio, prefs>>
    <2>1. ScanTyped' /\ PeerTyped' /\ PrefsTyped' /\ OutTyped'
      BY <1>1, <1>7, QuietTyped
      DEF ScanTyped, PeerTyped, PrefsTyped, scan, peer, prefs
    <2>2. PairedIdentity'
      BY <1>1, <1>7 DEF PairedIdentity, peer, prefs, UsableChannel
    <2> QED BY <1>2, <2>1, <2>2 DEF ClientInv
  <1> QED BY <1>4, <1>5, <1>6, <1>7 DEF HandleReceived

(* The steps of the main task: each call of loop() reads what it moves.    *)
LEMMA MainTaskKept == ASSUME ClientInv, MainTask PROVE ClientInv'
  <1>1. TaskTyped /\ ScanTyped /\ PeerTyped /\ PrefsTyped /\ PairedIdentity
    BY DEF ClientInv
  <1>2. CASE LoopCall
    <2>1. TaskTyped' /\ ScanTyped' /\ PeerTyped' /\ PrefsTyped' /\ OutTyped'
      BY <1>1, <1>2, QuietTyped
      DEF LoopCall, TaskTyped, ScanTyped, PeerTyped, PrefsTyped, scan, peer, prefs
    <2>2. PairedIdentity'
      BY <1>1, <1>2 DEF LoopCall, PairedIdentity, peer, prefs, UsableChannel
    <2> QED BY <2>1, <2>2 DEF ClientInv
  <1>3. CASE Dispatch
    <2>1. DwellStart \in Time
      BY <1>1 DEF DwellStart, TaskTyped, ScanTyped
    <2>2. TaskTyped'
      BY <1>1, <1>3 DEF Dispatch, TaskTyped
    <2>3. ScanTyped' /\ PeerTyped' /\ PrefsTyped' /\ OutTyped'
      BY <1>1, <1>3, <2>1, QuietTyped
      DEF Dispatch, ScanTyped, PeerTyped, PrefsTyped, peer, prefs
    <2>4. PairedIdentity'
      BY <1>1, <1>3 DEF Dispatch, PairedIdentity, peer, prefs, UsableChannel
    <2> QED BY <2>2, <2>3, <2>4 DEF ClientInv
  <1>4. CASE Advance
    <2>1. NextIndex \in Byte /\ NextChannel \in Channels
      BY <1>1, NextTyped DEF ScanTyped
    <2>2. radio' \in Channels
      BY <1>1, <1>4, RadioTyped DEF Advance, ScanTyped
    <2>3. TaskTyped' /\ ScanTyped' /\ PeerTyped' /\ PrefsTyped' /\ OutTyped'
      BY <1>1, <1>4, <2>1, <2>2, QuietTyped
      DEF Advance, TaskTyped, ScanTyped, PeerTyped, PrefsTyped, peer, prefs
    <2>4. PairedIdentity'
      BY <1>1, <1>4 DEF Advance, PairedIdentity, peer, prefs, UsableChannel
    <2> QED BY <2>3, <2>4 DEF ClientInv
  <1>5. CASE Restart
    <2>1. ScanTyped' /\ PeerTyped'
      BY <1>1, <1>5, ScanFromStartTyped DEF Restart
    <2>2. TaskTyped' /\ PrefsTyped' /\ OutTyped'
      BY <1>1, <1>5, QuietTyped DEF Restart, TaskTyped, PrefsTyped, prefs
    <2>3. PairedIdentity'
      BY <1>5 DEF Restart, ScanFromStart, PairedIdentity
    <2> QED BY <2>1, <2>2, <2>3 DEF ClientInv
  <1> QED BY <1>2, <1>3, <1>4, <1>5 DEF MainTask

(* setPairedChannel moves RAM and NVS together.                            *)
LEMMA AckTaken ==
    ASSUME ClientInv, NEW ch \in Channels, ReconnectAck(ch) PROVE ClientInv'
  <1>1. TaskTyped /\ ScanTyped /\ PeerTyped /\ PrefsTyped /\ PairedIdentity
    BY DEF ClientInv
  <1>2. ch \in Byte /\ radio' \in Channels
    BY <1>1, RadioTyped, ChannelsTyped DEF ReconnectAck, ScanTyped
  <1>3. TaskTyped' /\ ScanTyped' /\ PeerTyped' /\ PrefsTyped' /\ OutTyped'
    BY <1>1, <1>2, QuietTyped
    DEF ReconnectAck, SetPairedChannel, TaskTyped, ScanTyped, PeerTyped,
        PrefsTyped, scan, task
  <1>4. PairedIdentity'
    BY <1>1 DEF ReconnectAck, SetPairedChannel, PairedIdentity
  <1> QED BY <1>3, <1>4 DEF ClientInv

(* What the callback is given.                                             *)
LEMMA ReceiveKept == ASSUME ClientInv, Receive PROVE ClientInv'
  <1>1. PICK src \in CoordMacs :
            \/ \E f \in Received : HandleReceived(src, f)
            \/ \E ch \in Channels : HandleReceived(src, Ack(ch)) \/ ReconnectAck(ch)
    BY DEF Receive
  <1>2. CASE \E f \in Received : HandleReceived(src, f)
    BY <1>2, FrameHandled, FramesReceived
  <1>3. CASE \E ch \in Channels : HandleReceived(src, Ack(ch))
    BY <1>3, FrameHandled, FramesReceived
  <1>4. CASE \E ch \in Channels : ReconnectAck(ch)
    BY <1>4, AckTaken
  <1> QED BY <1>1, <1>2, <1>3, <1>4

(* The application's calls; a restart brings back the stored coordinator,  *)
(* on the stored channel if it can be scanned.                             *)
LEMMA ApplicationKept == ASSUME ClientInv, Application PROVE ClientInv'
  <1>1. TaskTyped /\ ScanTyped /\ PeerTyped /\ PrefsTyped /\ PairedIdentity
    BY DEF ClientInv
  <1>2. 0 \in Byte
    BY DEF Byte
  <1>3. CASE Boot /\ prefFlag /\ prefMac # NoCoord
    <2>1. RestoredChannel \in Channels /\ RestoredChannel \in Byte
      BY RestoredTyped, ChannelsTyped
    <2>2. radio' \in Channels
      BY <1>1, <1>3, RadioTyped DEF Boot, ScanTyped
    <2>3. TaskTyped' /\ ScanTyped' /\ PeerTyped' /\ PrefsTyped' /\ OutTyped'
      BY <1>1, <1>3, <2>1, <2>2, QuietTyped
      DEF Boot, TaskTyped, ScanTyped, PeerTyped, PrefsTyped, scan, prefs,
          PairingStates
    <2>4. PairedIdentity'
      BY <1>1, <1>3
      DEF Boot, PairedIdentity, PrefsTyped, Peers, prefs, RestoredChannel,
          UsableChannel
    <2> QED BY <2>3, <2>4 DEF ClientInv
  <1>4. CASE Boot /\ ~(prefFlag /\ prefMac # NoCoord)
    <2>1. ScanTyped' /\ PeerTyped'
      BY <1>1, <1>4, ScanFromStartTyped DEF Boot
    <2>2. TaskTyped' /\ PrefsTyped' /\ OutTyped'
      BY <1>1, <1>4, QuietTyped DEF Boot, TaskTyped, PrefsTyped, prefs
    <2>3. PairedIdentity'
      BY <1>4 DEF Boot, ScanFromStart, PairedIdentity
    <2> QED BY <2>1, <2>2, <2>3 DEF ClientInv
  <1>5. CASE StartScanning
    <2>1. ScanTyped' /\ PeerTyped'
      BY <1>1, <1>5, ScanFromStartTyped DEF StartScanning
    <2>2. TaskTyped' /\ PrefsTyped' /\ OutTyped'
      BY <1>1, <1>5, QuietTyped
      DEF StartScanning, TaskTyped, PrefsTyped, task, prefs
    <2>3. PairedIdentity'
      BY <1>5 DEF StartScanning, ScanFromStart, PairedIdentity
    <2> QED BY <2>1, <2>2, <2>3 DEF ClientInv
  <1>6. CASE StopScanning
    <2>1. TaskTyped' /\ ScanTyped' /\ PeerTyped' /\ PrefsTyped' /\ OutTyped'
      BY <1>1, <1>6, QuietTyped
      DEF StopScanning, TaskTyped, ScanTyped, PeerTyped, PrefsTyped, scan, peer,
          task, prefs, PairingStates
    <2>2. PairedIdentity'
      BY <1>6 DEF StopScanning, PairedIdentity
    <2> QED BY <2>1, <2>2 DEF ClientInv
  <1>7. CASE ClearPairing
    <2>1. TaskTyped' /\ ScanTyped' /\ PeerTyped' /\ PrefsTyped' /\ OutTyped'
      BY <1>1, <1>2, <1>7, QuietTyped
      DEF ClearPairing, TaskTyped, ScanTyped, PeerTyped, PrefsTyped, scan, task,
          PairingStates, Peers
    <2>2. PairedIdentity'
      BY <1>7 DEF ClearPairing, PairedIdentity
    <2> QED BY <2>1, <2>2 DEF ClientInv
  <1> QED BY <1>3, <1>4, <1>5, <1>6, <1>7 DEF Application

(* Power fails: what NVS holds is then whatever was written, and a client  *)
(* that is not PAIRED owes nothing to it.                                  *)
LEMMA FailureKept == ASSUME ClientInv, Failure PROVE ClientInv'
  <1>1. TaskTyped /\ ScanTyped /\ PeerTyped /\ PrefsTyped /\ PairedIdentity
    BY DEF ClientInv
  <1>2. VolatileReset /\ PrefsTyped'
    <2>1. CASE PowerLoss
      BY <1>1, <2>1 DEF PowerLoss, PrefsTyped, prefs
    <2>2. CASE PowerLossInClear
      BY <1>1, <2>2 DEF PowerLossInClear, PrefsTyped, Peers, Byte
    <2>3. CASE \E src \in CoordMacs, f \in Received : PowerLossInStore(src, f)
      <3>1. PICK src \in CoordMacs, f \in Received : PowerLossInStore(src, f)
        BY <2>3
      <3>2. ConfirmChannel(f) \in Byte
        BY FramesReceived, FrameFields
      <3> QED BY <1>1, <3>1, <3>2 DEF PowerLossInStore, PrefsTyped, Peers
    <2> QED BY <2>1, <2>2, <2>3 DEF Failure
  <1>3. TaskTyped' /\ ScanTyped' /\ PeerTyped' /\ OutTyped' /\ cstate' = "IDLE"
    BY <1>1, <1>2, VolatileResetTyped
  <1>4. PairedIdentity'
    BY <1>3 DEF PairedIdentity
  <1> QED BY <1>2, <1>3, <1>4 DEF ClientInv

(* The invariant, and with it what a reader wants to know.                 *)
LEMMA ClientInvariant == Spec => []ClientInv
  <1>1. Init => ClientInv
    <2>1. 0 \in Byte /\ 0 \in Time /\ 1 \in Channels
      BY TimeIsNat, ChannelsTyped DEF Byte
    <2> QED
      BY <2>1
      DEF Init, ClientInv, TaskTyped, ScanTyped, PeerTyped, PrefsTyped, OutTyped,
          PairedIdentity, PairingStates, Peers
  <1>2. ClientInv /\ [Next]_vars => ClientInv'
    <2> SUFFICES ASSUME ClientInv, [Next]_vars PROVE ClientInv'
      OBVIOUS
    <2>1. CASE Tick
      <3>1. Plus(clock, 1) \in Time
        BY NextInTime DEF ClientInv, TaskTyped
      <3>2. TaskTyped' /\ ScanTyped' /\ PeerTyped' /\ PrefsTyped' /\ OutTyped'
        BY <2>1, <3>1, QuietTyped
        DEF Tick, ClientInv, TaskTyped, ScanTyped, PeerTyped, PrefsTyped, scan,
            peer, task, prefs
      <3>3. PairedIdentity'
        BY <2>1 DEF Tick, ClientInv, PairedIdentity, peer, prefs, UsableChannel
      <3> QED BY <3>2, <3>3 DEF ClientInv
    <2>2. CASE UNCHANGED vars
      BY <2>2
      DEF vars, ClientInv, TaskTyped, ScanTyped, PeerTyped, PrefsTyped, OutTyped,
          PairedIdentity, scan, peer, task, prefs, UsableChannel
    <2> QED
      BY <2>1, <2>2, MainTaskKept, ReceiveKept, ApplicationKept, FailureKept
      DEF Next
  <1> QED BY <1>1, <1>2, PTL DEF Spec

(* The variables have their types for every configuration: the index stays *)
(* a byte, the radio on a channel and NVS readable whatever write power    *)
(* failure interrupted.                                                    *)
THEOREM TypeCorrect == Spec => []TypeOK
  <1>1. ClientInv => TypeOK
    BY DEF ClientInv, TypeOK, TaskTyped, ScanTyped, PeerTyped, PrefsTyped,
       OutTyped
  <1> QED BY <1>1, ClientInvariant, PTL

(* A client that is PAIRED knows its coordinator, and NVS would bring it   *)
(* back PAIRED with the same one, for any number of coordinators that      *)
(* send it anything, in any order (handleConfirm, setPairedChannel,        *)
(* loadStoredPairing).                                                     *)
THEOREM PairedIsStored == Spec => []PairedIdentity
  <1>1. ClientInv => PairedIdentity
    BY DEF ClientInv
  <1> QED BY <1>1, ClientInvariant, PTL
=============================================================================
