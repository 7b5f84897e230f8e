------------------------- MODULE PairingCoordinator -------------------------
(***************************************************************************)
(* src/pairing/pairing_coordinator.cpp: the coordinator's table of paired  *)
(* clients, in RAM and in NVS, with the frames it answers.                 *)
(*                                                                         *)
(* loop() and unpairAll() run in the application's main task,              *)
(* handleReceived() in the transport's receive callback: unpairAll is a    *)
(* loop over the slots, one step per slot, and a frame can be handled      *)
(* between two of them.  Power may fail between two steps, between the two *)
(* NVS writes of storePairedClient, and before its confirmation is sent.   *)
(* Both handlers reach NVS through the one object prefs_: a store's end()  *)
(* closes the session that unpairAll opened, and unpairAll's later slots   *)
(* find nothing to remove.  Frames come from anywhere: any MAC may send a  *)
(* request or a probe.                                                     *)
(***************************************************************************)
EXTENDS Millis, Frames, FiniteSets

CONSTANTS
    Macs,               \* the MAC addresses frames may come from
    ZeroMac,            \* 00:00:00:00:00:00, "no address"
    Broadcast,          \* FF:FF:FF:FF:FF:FF
    DeviceIds,          \* the device ids the requests carry
    OwnChannels,        \* the channels the coordinator's radio may be on
    MaxPairedClients,   \* MAX_PAIRED_CLIENTS: 2 in the code
    BeaconIntervalMs,   \* BEACON_INTERVAL_MS: 100 in the code
    MaxPeers            \* size of ESP-NOW's peer table: 20

ASSUME CoordinatorAssumption ==
    /\ ZeroMac \notin Macs /\ Broadcast \notin Macs
    /\ DeviceIds \subseteq Byte
    /\ OwnChannels \subseteq Byte
    /\ MaxPairedClients \in Nat \ {0}
    /\ BeaconIntervalMs \in Time
    /\ MaxPeers \in Nat /\ MaxPairedClients <= MaxPeers

VARIABLES
    clock, ownChannel,
    up,                     \* powered and set up
    pairingEnabled, lastBeaconMs, clients,      \* PairingCoordinator
    unpairing,              \* unpairAll's loop index, or MaxPairedClients
    prefsOpen,              \* is prefs_'s session open?
    storedMac, storedId,    \* NVS: pair_mac_<i> and pair_id_<i>
    peers,                  \* the transport's peer table
    out,                    \* the frames the last step handed to the radio
    owed,                   \* history: the MACs sent an accepted confirmation
                            \* and not unpaired or replaced since
    spared                  \* history: the MACs that unpairAll took from RAM
                            \* and, its session closed, not from NVS

nvs  == <<storedMac, storedId>>
vars == <<clock, ownChannel, up, pairingEnabled, lastBeaconMs, clients,
          unpairing, prefsOpen, nvs, peers, out, owed, spared>>

Slots  == 0 .. MaxPairedClients - 1
NoSlot == MaxPairedClients

Client == [mac : Macs \cup {ZeroMac}, deviceId : Byte, active : BOOLEAN]
EmptySlot == [mac |-> ZeroMac, deviceId |-> 0, active |-> FALSE]

TypeOK ==
    /\ clock \in Time /\ ownChannel \in OwnChannels
    /\ up \in BOOLEAN /\ pairingEnabled \in BOOLEAN
    /\ lastBeaconMs \in Time
    /\ clients \in [Slots -> Client]
    /\ unpairing \in 0 .. MaxPairedClients
    /\ prefsOpen \in BOOLEAN
    /\ storedMac \in [Slots -> Macs \cup {ZeroMac}]
    /\ storedId \in [Slots -> Byte]
    /\ peers \in SUBSET (Macs \cup {Broadcast})
    /\ out \in SUBSET [dst : Macs \cup {Broadcast}, frame : Frame]
    /\ owed \subseteq Macs /\ spared \subseteq Macs
-----------------------------------------------------------------------------
Init ==
    /\ clock \in Time /\ ownChannel \in OwnChannels
    /\ up = FALSE
    /\ pairingEnabled = FALSE /\ lastBeaconMs = 0
    /\ clients = [s \in Slots |-> EmptySlot]
    /\ unpairing = NoSlot /\ prefsOpen = FALSE
    /\ storedMac = [s \in Slots |-> ZeroMac] /\ storedId = [s \in Slots |-> 0]
    /\ peers = {}
    /\ out = {}
    /\ owed = {} /\ spared = {}

(* esp_now_add_peer: no effect on a known MAC, an error when full.         *)
PeersWith(macs) ==
    IF Cardinality(peers \cup macs) <= MaxPeers THEN peers \cup macs ELSE peers

Silent == out' = {}

(* transport_.send: ESP-NOW sends to registered peers only.                *)
Send(dst, frame) ==
    out' = IF dst \in peers' THEN {[dst |-> dst, frame |-> frame]} ELSE {}

(* What a loss of power leaves: NVS, and the history.                      *)
VolatileReset ==
    /\ up' = FALSE
    /\ pairingEnabled' = FALSE /\ lastBeaconMs' = 0
    /\ clients' = [s \in Slots |-> EmptySlot]
    /\ unpairing' = NoSlot /\ prefsOpen' = FALSE
    /\ peers' = {}
    /\ Silent

LoadedSlot(s) ==
    IF storedMac[s] # ZeroMac
    THEN [mac |-> storedMac[s], deviceId |-> storedId[s], active |-> TRUE]
    ELSE EmptySlot

StoredMacs == {storedMac[s] : s \in Slots} \ {ZeroMac}

(* Mutant of LoadedPeers: the clients are restored, their peers are not.   *)
LoadedPeersNone == {}

(* The MACs loadPairedClients gives to addPeer.                            *)
LoadedPeers == StoredMacs

(* The constructor and loadPairedClients(), in setup(); the application    *)
(* may bring the radio up on another channel than before.                  *)
LoadPairedClients ==
    /\ ~up
    /\ up' = TRUE
    /\ ownChannel' \in OwnChannels
    /\ clients' = [s \in Slots |-> LoadedSlot(s)]
    /\ peers' = PeersWith(LoadedPeers)
    /\ Silent
    /\ UNCHANGED <<clock, pairingEnabled, lastBeaconMs, unpairing, prefsOpen,
                   nvs, owed, spared>>

EnablePairing ==
    /\ up
    /\ pairingEnabled' = TRUE
    /\ lastBeaconMs' = 0
    /\ Silent
    /\ UNCHANGED <<clock, ownChannel, up, clients, unpairing, prefsOpen, nvs,
                   peers, owed, spared>>

DisablePairing ==
    /\ up
    /\ pairingEnabled' = FALSE
    /\ Silent
    /\ UNCHANGED <<clock, ownChannel, up, lastBeaconMs, clients, unpairing,
                   prefsOpen, nvs, peers, owed, spared>>

(* Mutant of BeaconStamp: the next beacon's time is kept, not the last's.  *)
BeaconStampNext == clock + BeaconIntervalMs

BeaconStamp == clock

(* loop(nowMs) when a beacon is due; otherwise loop does nothing.          *)
BeaconDue ==
    up /\ pairingEnabled /\ Minus(clock, lastBeaconMs) >= BeaconIntervalMs

Loop ==
    /\ BeaconDue
    /\ unpairing = NoSlot           \* the main task is not inside unpairAll
    /\ lastBeaconMs' = BeaconStamp
    /\ peers' = PeersWith({Broadcast})
    /\ Send(Broadcast, Beacon(ownChannel))
    /\ UNCHANGED <<clock, ownChannel, up, pairingEnabled, clients, unpairing,
                   prefsOpen, nvs, owed, spared>>
-----------------------------------------------------------------------------
(***************************************************************************)
(* storePairedClient and handlePairingRequest.                             *)
(***************************************************************************)
First(S) == CHOOSE s \in S : \A t \in S : s <= t

SlotsOf(mac)      == {s \in Slots : clients[s].active /\ clients[s].mac = mac}
FreeSlots         == {s \in Slots : ~clients[s].active}
SlotsOfDevice(id) == {s \in Slots : clients[s].active /\ clients[s].deviceId = id}

(* Mutant of IsPaired: the client just behind the first slot is not seen.  *)
IsPairedFirstSlot(mac) == 0 \in SlotsOf(mac)

IsPaired(mac) == SlotsOf(mac) # {}

(* Mutant of SlotFor: a slot of the same device is preferred to a free one.*)
SlotForDeviceFirst(id) ==
    IF SlotsOfDevice(id) # {} THEN First(SlotsOfDevice(id))
    ELSE IF FreeSlots # {} THEN First(FreeSlots)
    ELSE NoSlot

(* The slot a MAC that is not paired yet is given.                         *)
SlotFor(id) ==
    IF FreeSlots # {} THEN First(FreeSlots)
    ELSE IF SlotsOfDevice(id) # {} THEN First(SlotsOfDevice(id))
    ELSE NoSlot

(* The MAC that loses the slot, if any: its peer is removed.               *)
Evicted(slot) == IF clients[slot].active THEN {clients[slot].mac} ELSE {}

(* An accepted confirmation is owed something if the radio took it.        *)
Delivered(mac) == {mac} \cap peers'

(* Mutant of PersistMac: only a slot that was empty in NVS is written.     *)
PersistMacIfEmpty(slot, mac) ==
    storedMac' = IF storedMac[slot] = ZeroMac
                 THEN [storedMac EXCEPT ![slot] = mac] ELSE storedMac

PersistMac(slot, mac) == storedMac' = [storedMac EXCEPT ![slot] = mac]
PersistId(slot, id)   == storedId' = [storedId EXCEPT ![slot] = id]

(* Already paired: the device id is updated, in RAM.                       *)
UpdatePaired(mac, id) ==
    LET s == First(SlotsOf(mac)) IN
    /\ clients' = [clients EXCEPT ![s].deviceId = id]
    /\ peers' = PeersWith({mac})
    /\ Send(mac, Confirm(TRUE, ownChannel))
    /\ owed' = owed \cup Delivered(mac)
    /\ UNCHANGED <<nvs, prefsOpen>>

StoreInSlot(mac, id) ==
    LET s == SlotFor(id) IN
    /\ s # NoSlot
    /\ clients' = [clients EXCEPT
                     ![s] = [mac |-> mac, deviceId |-> id, active |-> TRUE]]
    /\ PersistMac(s, mac)
    /\ PersistId(s, id)
    /\ prefsOpen' = FALSE
    /\ peers' = LET kept == peers \ Evicted(s) IN
                IF Cardinality(kept \cup {mac}) <= MaxPeers
                THEN kept \cup {mac} ELSE kept
    /\ Send(mac, Confirm(TRUE, ownChannel))
    /\ owed' = (owed \ Evicted(s)) \cup Delivered(mac)

Reject(mac, id) ==
    /\ SlotFor(id) = NoSlot
    /\ peers' = PeersWith({mac})
    /\ Send(mac, Confirm(FALSE, ownChannel))
    /\ UNCHANGED <<clients, nvs, prefsOpen, owed>>

HandlePairingRequest(mac, id) ==
    /\ up
    /\ \/ IsPaired(mac) /\ UpdatePaired(mac, id)
       \/ ~IsPaired(mac) /\ (StoreInSlot(mac, id) \/ Reject(mac, id))
    /\ UNCHANGED <<clock, ownChannel, up, pairingEnabled, lastBeaconMs,
                   unpairing, spared>>

HandleReconnectProbe(mac) ==
    /\ up
    /\ IF IsPaired(mac)
       THEN /\ peers' = PeersWith({mac})
            /\ Send(mac, Ack(ownChannel))
       ELSE Silent /\ UNCHANGED peers
    /\ UNCHANGED <<clock, ownChannel, up, pairingEnabled, lastBeaconMs,
                   clients, unpairing, prefsOpen, nvs, owed, spared>>

HandleReceived(mac, f) ==
    \/ IsReconnect(f) /\ HandleReconnectProbe(mac)
    \/ IsRequest(f) /\ HandlePairingRequest(mac, RequestDeviceId(f))
-----------------------------------------------------------------------------
(***************************************************************************)
(* unpairAll: a loop over the slots, in one NVS session.                   *)
(***************************************************************************)
UnpairAll ==
    /\ up /\ unpairing = NoSlot
    /\ unpairing' = 0 /\ prefsOpen' = TRUE
    /\ Silent
    /\ UNCHANGED <<clock, ownChannel, up, pairingEnabled, lastBeaconMs,
                   clients, nvs, peers, owed, spared>>

(* Mutant of ForgetStored: the MAC stays in NVS.                           *)
ForgetStoredIdOnly(slot) == UNCHANGED storedMac /\ PersistId(slot, 0)

ForgetStored(slot) == PersistMac(slot, ZeroMac) /\ PersistId(slot, 0)

(* hasKey and remove do nothing in a session that is closed; the last slot *)
(* ends it.                                                                *)
UnpairSlot ==
    /\ up /\ unpairing \in Slots
    /\ unpairing' = unpairing + 1
    /\ peers' = peers \ Evicted(unpairing)
    /\ \/ prefsOpen /\ ForgetStored(unpairing) /\ UNCHANGED spared
       \/ /\ ~prefsOpen /\ UNCHANGED nvs
          /\ spared' = spared \cup ({storedMac[unpairing]} \ {ZeroMac})
    /\ prefsOpen' = (prefsOpen /\ unpairing' # NoSlot)
    /\ clients' = [clients EXCEPT ![unpairing] = EmptySlot]
    /\ owed' = owed \ Evicted(unpairing)
    /\ Silent
    /\ UNCHANGED <<clock, ownChannel, up, pairingEnabled, lastBeaconMs>>
-----------------------------------------------------------------------------
(***************************************************************************)
(* Loss of power, and time.                                                *)
(***************************************************************************)
PowerLoss ==
    /\ up
    /\ VolatileReset
    /\ UNCHANGED <<clock, ownChannel, nvs, owed, spared>>

(* ... inside storePairedClient: after the first NVS write or the second,  *)
(* before the confirmation.                                                *)
PowerLossInStore(mac, id) ==
    LET s == SlotFor(id) IN
    /\ up
    /\ ~IsPaired(mac)
    /\ s # NoSlot
    /\ PersistMac(s, mac)
    /\ PersistId(s, id) \/ UNCHANGED storedId
    /\ owed' = owed \ Evicted(s)
    /\ VolatileReset
    /\ UNCHANGED <<clock, ownChannel, spared>>

(* ... inside unpairAll, between the removals of one slot's two keys.      *)
PowerLossInUnpair ==
    /\ up /\ unpairing \in Slots /\ prefsOpen
    /\ PersistMac(unpairing, ZeroMac)
    /\ owed' = owed \ Evicted(unpairing)
    /\ VolatileReset
    /\ UNCHANGED <<clock, ownChannel, storedId, spared>>

Tick ==
    /\ clock' = Plus(clock, 1)
    /\ Silent
    /\ UNCHANGED <<ownChannel, up, pairingEnabled, lastBeaconMs, clients,
                   unpairing, prefsOpen, nvs, peers, owed, spared>>

Receive ==
    \E mac \in Macs :
        \/ HandleReceived(mac, Probe(0))
        \/ \E id \in DeviceIds : HandleReceived(mac, Request(id))

Failure ==
    \/ PowerLoss \/ PowerLossInUnpair
    \/ \E mac \in Macs, id \in DeviceIds : PowerLossInStore(mac, id)

Next ==
    \/ LoadPairedClients \/ EnablePairing \/ DisablePairing \/ Loop
    \/ Receive \/ UnpairAll \/ UnpairSlot \/ Failure \/ Tick

Spec == Init /\ [][Next]_vars
-----------------------------------------------------------------------------
(***************************************************************************)
(* Properties.                                                             *)
(***************************************************************************)

(* A MAC holds at most one slot, in RAM and in NVS: otherwise unpairing or *)
(* replacing it would leave a second entry behind.  Only a MAC that a      *)
(* closed session left in NVS can come to be there twice.                  *)
UniqueMacs ==
    \A s, t \in Slots :
        (s # t /\ storedMac[s] = storedMac[t])
            => storedMac[s] \in {ZeroMac} \cup spared

(* While the coordinator runs every client it serves is in NVS, in its     *)
(* slot, and NVS names nobody else ("Unpair all clients"), except a client *)
(* whose removal met a closed session: a restart at any moment finds the   *)
(* clients that were served, and those spared.                             *)
NvsMatchesRam ==
    up => \A s \in Slots :
              IF clients[s].active THEN storedMac[s] = clients[s].mac
              ELSE storedMac[s] \in {ZeroMac} \cup spared

(* A client that was sent an accepted confirmation, and has not been       *)
(* unpaired or replaced since, is in NVS, whatever was interrupted.        *)
ConfirmedSurvivesCrash == owed \subseteq StoredMacs

(* A client that was told it is paired stays reachable: however many       *)
(* strangers and rejected clients fill the peer table, it keeps its entry, *)
(* and finds it again after a restart.                                     *)
ActivePeers == up => owed \subseteq peers

(* Outside unpairAll a client loses its slot only when every slot was      *)
(* taken, also when the request that replaces it is cut short.             *)
EvictionOnlyWhenFull ==
    [][(unpairing = unpairing' /\ ~(owed \subseteq owed'))
          => FreeSlots = {}]_vars

(* Frames, slots, NVS keys and losses of power together keep an abstract   *)
(* registry, of which NVS is the record: each step of the coordinator,     *)
(* also one that power failure cuts short, registers, replaces, confirms   *)
(* or forgets at most one client, and a restart does none of it - until a  *)
(* store closes the session of a running unpairAll and a client is spared. *)
Registry == INSTANCE PairingRegistry WITH
    Capacity  <- MaxPairedClients,
    paired    <- StoredMacs,
    confirmed <- owed

KeepsRegistry ==
    /\ Registry!Init
    /\ [][Registry!Next \/ spared' # {}]_<<StoredMacs, owed>>
=============================================================================
