---------------------- MODULE PairingCoordinatorProofs ----------------------
(***************************************************************************)
(* Theorems of PairingCoordinator, for every number of slots, MACs, device *)
(* ids and channels: what RAM, NVS and the clients that were sent a        *)
(* confirmation say of one another, whatever is interrupted.               *)
(***************************************************************************)
EXTENDS PairingCoordinator, FiniteSetTheorems, WellFoundedInduction, TLAPS

-----------------------------------------------------------------------------
(***************************************************************************)
(* The slot searches.                                                      *)
(***************************************************************************)
Less == {p \in Nat \X Nat : p[1] < p[2]}

(* The order of the slots is well founded.                                 *)
LEMMA LessWellFounded == IsWellFoundedOn(Less, Nat)
  BY NatLessThanWellFounded DEF OpToRel, Less

(* A search that stops at the first hit finds a slot of the kind it looks  *)
(* for, if there is one.                                                   *)
LEMMA FirstHit ==
    ASSUME NEW S, S \subseteq Slots, S # {}
    PROVE  First(S) \in S
  <1>1. S \subseteq Nat
    BY CoordinatorAssumption DEF Slots
  <1>2. PICK s \in S : \A t \in S : <<t, s>> \notin Less
    BY <1>1, WFMin, LessWellFounded, Zenon
  <1>3. ASSUME NEW t \in S PROVE s <= t
    <2>1. s \in Nat /\ t \in Nat
      BY <1>1
    <2>2. <<t, s>> \in Nat \X Nat /\ ~(t < s)
      BY <1>2, <2>1 DEF Less
    <2> QED BY <2>1, <2>2
  <1> QED BY <1>3, Zenon DEF First

(* The slots that storePairedClient looks through are slots.               *)
LEMMA SearchedSlots ==
    /\ FreeSlots \subseteq Slots
    /\ \A id : SlotsOfDevice(id) \subseteq Slots
    /\ \A mac : SlotsOf(mac) \subseteq Slots
  BY DEF FreeSlots, SlotsOfDevice, SlotsOf

(* The slot a new MAC is given exists, and is taken only if all are.       *)
LEMMA SlotForKind ==
    ASSUME NEW id, SlotFor(id) # NoSlot
    PROVE  /\ SlotFor(id) \in Slots
           /\ clients[SlotFor(id)].active => FreeSlots = {}
  <1>1. CASE FreeSlots # {}
    <2>1. SlotFor(id) \in FreeSlots
      BY <1>1, SearchedSlots, FirstHit, Zenon DEF SlotFor
    <2> QED BY <2>1 DEF FreeSlots
  <1>2. CASE FreeSlots = {} /\ SlotsOfDevice(id) # {}
    <2>1. SlotFor(id) \in SlotsOfDevice(id)
      BY <1>2, SearchedSlots, FirstHit, Zenon DEF SlotFor
    <2> QED BY <1>2, <2>1, SearchedSlots
  <1>3. CASE FreeSlots = {} /\ SlotsOfDevice(id) = {}
    BY <1>3, Zenon DEF SlotFor
  <1> QED BY <1>1, <1>2, <1>3

(* The slot of a MAC that is paired already.                               *)
LEMMA SlotOfPaired ==
    ASSUME NEW mac, IsPaired(mac)
    PROVE  /\ First(SlotsOf(mac)) \in Slots
           /\ clients[First(SlotsOf(mac))].active
           /\ clients[First(SlotsOf(mac))].mac = mac
  <1>1. First(SlotsOf(mac)) \in SlotsOf(mac)
    BY SearchedSlots, FirstHit, Zenon DEF IsPaired
  <1> QED BY <1>1 DEF SlotsOf

-----------------------------------------------------------------------------
(***************************************************************************)
(* Types.                                                                  *)
(***************************************************************************)

(* What the coordinator sends are frames.                                  *)
LEMMA SentFrames ==
    ASSUME NEW channel \in OwnChannels
    PROVE  /\ Beacon(channel) \in Frame /\ Ack(channel) \in Frame
           /\ \A accept \in BOOLEAN : Confirm(accept, channel) \in Frame
  BY CoordinatorAssumption
  DEF Beacon, Ack, Confirm, Bytes, Frame, Byte, COORDINATOR

(* The peer table holds MACs that frames come from, and broadcast.         *)
LEMMA PeersTyped ==
    ASSUME peers \in SUBSET (Macs \cup {Broadcast}),
           NEW macs \in SUBSET (Macs \cup {Broadcast})
    PROVE  PeersWith(macs) \in SUBSET (Macs \cup {Broadcast})
  BY DEF PeersWith

(* So does everything that is sent.                                        *)
LEMMA SendTyped ==
    ASSUME NEW dst \in Macs \cup {Broadcast}, NEW f \in Frame, Send(dst, f)
    PROVE  out' \in SUBSET [dst : Macs \cup {Broadcast}, frame : Frame]
  BY DEF Send

(* What a restart finds in NVS, and what unpairing leaves, are clients.    *)
LEMMA ClientsTyped ==
    ASSUME TypeOK
    PROVE  /\ EmptySlot \in Client
           /\ \A s \in Slots : LoadedSlot(s) \in Client
           /\ StoredMacs \in SUBSET Macs
           /\ \A s \in Slots : clients[s] \in Client
  BY DEF TypeOK, EmptySlot, Client, LoadedSlot, StoredMacs, Byte

(* A request and a probe, told from one another by their magic.            *)
LEMMA RequestRead ==
    /\ \A id : /\ IsRequest(Request(id)) /\ ~IsReconnect(Request(id))
              /\ RequestDeviceId(Request(id)) = id
    /\ ~IsRequest(Probe(0)) /\ IsReconnect(Probe(0))
  BY DEF IsRequest, IsReconnect, Request, Probe, RequestDeviceId, Bytes

(* A loss of power leaves everything of its type.                          *)
LEMMA ResetTyped ==
    ASSUME TypeOK, VolatileReset
    PROVE  /\ up' = FALSE /\ pairingEnabled' = FALSE
           /\ lastBeaconMs' \in Time
           /\ clients' \in [Slots -> Client]
           /\ unpairing' \in 0 .. MaxPairedClients
           /\ prefsOpen' \in BOOLEAN
           /\ peers' = {} /\ out' = {}
  <1>1. 0 \in Time
    BY ClockModAssumption DEF Time
  <1>2. NoSlot \in 0 .. MaxPairedClients
    BY CoordinatorAssumption DEF NoSlot
  <1> QED BY <1>1, <1>2, ClientsTyped DEF VolatileReset, Silent

(* Every step keeps the types.                                             *)
LEMMA TypeKept == TypeOK /\ [Next]_vars => TypeOK'
  <1> SUFFICES ASSUME TypeOK, [Next]_vars PROVE TypeOK'
    OBVIOUS
  <1> USE DEF nvs
  <1>0. 0 \in Time
    BY ClockModAssumption DEF Time
  <1>1. CASE LoadPairedClients
    <2>1. clients' \in [Slots -> Client]
      BY <1>1, ClientsTyped DEF LoadPairedClients
    <2>2. peers' \in SUBSET (Macs \cup {Broadcast})
      BY <1>1, ClientsTyped, PeersTyped
      DEF LoadPairedClients, LoadedPeers, TypeOK
    <2> QED BY <1>1, <2>1, <2>2 DEF LoadPairedClients, TypeOK, Silent
  <1>2. CASE EnablePairing \/ DisablePairing
    BY <1>0, <1>2 DEF EnablePairing, DisablePairing, TypeOK, Silent
  <1>3. CASE Loop
    <2>1. peers' \in SUBSET (Macs \cup {Broadcast})
      BY <1>3, PeersTyped DEF Loop, TypeOK
    <2>2. out' \in SUBSET [dst : Macs \cup {Broadcast}, frame : Frame]
      BY <1>3, SentFrames, SendTyped DEF Loop, TypeOK
    <2> QED BY <1>3, <2>1, <2>2 DEF Loop, TypeOK, BeaconStamp
  <1>4. ASSUME NEW mac \in Macs, NEW id \in DeviceIds,
               HandlePairingRequest(mac, id)
        PROVE  TypeOK'
    <2>1. CASE IsPaired(mac) /\ UpdatePaired(mac, id)
      <3> DEFINE s == First(SlotsOf(mac))
      <3>1. s \in Slots /\ clients[s] \in Client
        BY <2>1, SlotOfPaired, ClientsTyped
      <3>2. clients' \in [Slots -> Client]
        <4>1. clients' = [clients EXCEPT ![s].deviceId = id]
          BY <2>1 DEF UpdatePaired
        <4> HIDE DEF s
        <4> QED BY <3>1, <4>1, CoordinatorAssumption DEF TypeOK, Client
      <3>3. peers' \in SUBSET (Macs \cup {Broadcast})
        BY <2>1, PeersTyped DEF UpdatePaired, TypeOK
      <3>4. out' \in SUBSET [dst : Macs \cup {Broadcast}, frame : Frame]
        BY <2>1, SentFrames, SendTyped DEF UpdatePaired, TypeOK
      <3>5. owed' \subseteq Macs
        BY <2>1 DEF UpdatePaired, Delivered, TypeOK
      <3> QED
        BY <1>4, <2>1, <3>2, <3>3, <3>4, <3>5
        DEF HandlePairingRequest, UpdatePaired, TypeOK
    <2>2. CASE StoreInSlot(mac, id)
      <3>1. SlotFor(id) \in Slots
        BY <2>2, SlotForKind DEF StoreInSlot
      <3>2. clients' \in [Slots -> Client]
        BY <2>2, <3>1, CoordinatorAssumption DEF StoreInSlot, TypeOK, Client
      <3>3. storedMac' \in [Slots -> Macs \cup {ZeroMac}]
        BY <2>2, <3>1 DEF StoreInSlot, PersistMac, TypeOK
      <3>4. storedId' \in [Slots -> Byte]
        BY <2>2, <3>1, CoordinatorAssumption
        DEF StoreInSlot, PersistId, TypeOK
      <3>5. peers' \in SUBSET (Macs \cup {Broadcast})
        BY <2>2 DEF StoreInSlot, TypeOK
      <3>6. out' \in SUBSET [dst : Macs \cup {Broadcast}, frame : Frame]
        BY <2>2, SentFrames, SendTyped DEF StoreInSlot, TypeOK
      <3>7. owed' \subseteq Macs /\ prefsOpen' \in BOOLEAN
        BY <2>2 DEF StoreInSlot, Delivered, TypeOK
      <3> QED
        BY <1>4, <3>2, <3>3, <3>4, <3>5, <3>6, <3>7
        DEF HandlePairingRequest, TypeOK
    <2>3. CASE Reject(mac, id)
      <3>1. peers' \in SUBSET (Macs \cup {Broadcast})
        BY <2>3, PeersTyped DEF Reject, TypeOK
      <3>2. out' \in SUBSET [dst : Macs \cup {Broadcast}, frame : Frame]
        BY <2>3, SentFrames, SendTyped DEF Reject, TypeOK
      <3> QED
        BY <1>4, <2>3, <3>1, <3>2 DEF HandlePairingRequest, Reject, TypeOK
    <2> QED BY <1>4, <2>1, <2>2, <2>3 DEF HandlePairingRequest
  <1>5. ASSUME NEW mac \in Macs, HandleReconnectProbe(mac) PROVE TypeOK'
    <2>1. CASE IsPaired(mac)
      <3>1. peers' \in SUBSET (Macs \cup {Broadcast})
        BY <1>5, <2>1, PeersTyped DEF HandleReconnectProbe, TypeOK
      <3>2. out' \in SUBSET [dst : Macs \cup {Broadcast}, frame : Frame]
        BY <1>5, <2>1, SentFrames, SendTyped DEF HandleReconnectProbe, TypeOK
      <3> QED BY <1>5, <3>1, <3>2 DEF HandleReconnectProbe, TypeOK
    <2>2. CASE ~IsPaired(mac)
      BY <1>5, <2>2 DEF HandleReconnectProbe, Silent, TypeOK
    <2> QED BY <2>1, <2>2
  <1>6. CASE Receive
    BY <1>4, <1>5, <1>6, RequestRead DEF Receive, HandleReceived
  <1>7. CASE UnpairAll
    BY <1>7, CoordinatorAssumption DEF UnpairAll, Silent, TypeOK
  <1>8. CASE UnpairSlot
    <2>1. unpairing \in Slots /\ unpairing' \in 0 .. MaxPairedClients
      BY <1>8, CoordinatorAssumption DEF UnpairSlot, Slots
    <2>2. clients' \in [Slots -> Client]
      BY <1>8, <2>1, ClientsTyped DEF UnpairSlot, TypeOK
    <2>3. /\ storedMac' \in [Slots -> Macs \cup {ZeroMac}]
          /\ storedId' \in [Slots -> Byte]
      BY <1>8, <2>1
      DEF UnpairSlot, ForgetStored, PersistMac, PersistId, TypeOK, Byte
    <2>4. spared' \subseteq Macs
      BY <1>8, <2>1 DEF UnpairSlot, TypeOK
    <2>5. prefsOpen' \in BOOLEAN
      BY <1>8, Zenon DEF UnpairSlot, TypeOK
    <2> QED
      BY <1>8, <2>1, <2>2, <2>3, <2>4, <2>5 DEF UnpairSlot, Silent, TypeOK
  <1>9. CASE PowerLoss
    BY <1>9, ResetTyped DEF PowerLoss, TypeOK
  <1>10. ASSUME NEW mac \in Macs, NEW id \in DeviceIds,
                PowerLossInStore(mac, id)
         PROVE  TypeOK'
    <2>1. SlotFor(id) \in Slots
      BY <1>10, SlotForKind DEF PowerLossInStore
    <2>2. /\ storedMac' \in [Slots -> Macs \cup {ZeroMac}]
          /\ storedId' \in [Slots -> Byte]
      BY <1>10, <2>1, CoordinatorAssumption
      DEF PowerLossInStore, PersistMac, PersistId, TypeOK
    <2>3. owed' \subseteq Macs
      BY <1>10 DEF PowerLossInStore, TypeOK
    <2> QED BY <1>10, <2>2, <2>3, ResetTyped DEF PowerLossInStore, TypeOK
  <1>11. CASE PowerLossInUnpair
    <2>1. storedMac' \in [Slots -> Macs \cup {ZeroMac}]
      BY <1>11 DEF PowerLossInUnpair, PersistMac, TypeOK
    <2>2. owed' \subseteq Macs
      BY <1>11 DEF PowerLossInUnpair, TypeOK
    <2> QED BY <1>11, <2>1, <2>2, ResetTyped DEF PowerLossInUnpair, TypeOK
  <1>12. CASE Tick
    BY <1>12, ClockModAssumption DEF Tick, Plus, Time, Silent, TypeOK
  <1>13. CASE UNCHANGED vars
    BY <1>13 DEF vars, TypeOK
  <1> QED BY <1>1, <1>2, <1>3, <1>6, <1>7, <1>8, <1>9, <1>10, <1>11, <1>12,
      <1>13 DEF Next, Failure

(* A new coordinator is typed.                                             *)
LEMMA InitTyped == Init => TypeOK
  <1>1. /\ 0 \in Time /\ 0 \in Byte /\ NoSlot \in 0 .. MaxPairedClients
        /\ EmptySlot \in Client
    BY CoordinatorAssumption, ClockModAssumption
    DEF Time, Byte, NoSlot, EmptySlot, Client
  <1> QED BY <1>1 DEF Init, TypeOK

(* The variables have their types.                                         *)
THEOREM TypeCorrect == Spec => []TypeOK
  BY InitTyped, TypeKept, PTL DEF Spec

-----------------------------------------------------------------------------
(***************************************************************************)
(* RAM, NVS and the confirmed clients.  A MAC that is new to RAM is in NVS *)
(* only if it was spared.  That a confirmed client outlives a crash cannot *)
(* be seen in NVS alone, where a slot's MAC may be that of another: while  *)
(* the coordinator runs, the client has a slot in RAM, and RAM's slots are *)
(* NVS's.                                                                  *)
(***************************************************************************)
Served == up => \A m \in owed : IsPaired(m)

TableInv == UniqueMacs /\ NvsMatchesRam /\ Served /\ ConfirmedSurvivesCrash

(* A MAC that is not paired in RAM is stored only if it was spared.        *)
LEMMA NewToNvs ==
    ASSUME NvsMatchesRam, up, NEW mac \in Macs, ~IsPaired(mac)
    PROVE  \A s \in Slots : storedMac[s] = mac => mac \in spared
  BY CoordinatorAssumption DEF NvsMatchesRam, IsPaired, SlotsOf

(* Writing a new MAC, or none, in one slot leaves the others their MACs;   *)
(* the client that had the slot is the evicted one, which is owed nothing. *)
LEMMA SlotRewritten ==
    ASSUME TypeOK, TableInv, up, NEW s \in Slots,
           NEW mac \in Macs \cup {ZeroMac},
           \A t \in Slots : storedMac[t] = mac => mac \in {ZeroMac} \cup spared,
           PersistMac(s, mac), UNCHANGED spared
    PROVE  /\ UniqueMacs'
           /\ owed \ Evicted(s) \subseteq StoredMacs'
  <1>1. /\ storedMac'[s] = mac
        /\ \A t \in Slots \ {s} : storedMac'[t] = storedMac[t]
    BY DEF PersistMac, TypeOK
  <1>2. UniqueMacs'
    BY <1>1, Zenon DEF UniqueMacs, TableInv
  <1>3. ASSUME NEW m \in owed \ Evicted(s) PROVE m \in StoredMacs'
    <2>1. PICK t \in Slots : clients[t].active /\ clients[t].mac = m
      BY <1>3 DEF TableInv, Served, IsPaired, SlotsOf
    <2>2. t # s
      BY <1>3, <2>1 DEF Evicted
    <2>3. storedMac[t] = m /\ m # ZeroMac
      BY <1>3, <2>1, CoordinatorAssumption
      DEF TableInv, NvsMatchesRam, TypeOK
    <2> QED BY <1>1, <2>2, <2>3 DEF StoredMacs
  <1> QED BY <1>2, <1>3

(* Rewriting one slot of the table in RAM takes it from its client only.   *)
LEMMA ServedElsewhere ==
    ASSUME TypeOK, Served, up, NEW s \in Slots, NEW c,
           clients' = [clients EXCEPT ![s] = c]
    PROVE  \A m \in owed \ Evicted(s) : IsPaired(m)'
  <1> SUFFICES ASSUME NEW m \in owed \ Evicted(s) PROVE IsPaired(m)'
    OBVIOUS
  <1>1. PICK t \in Slots : clients[t].active /\ clients[t].mac = m
    BY DEF Served, IsPaired, SlotsOf
  <1>2. t # s
    BY <1>1 DEF Evicted
  <1> QED BY <1>1, <1>2 DEF IsPaired, SlotsOf, TypeOK

(* Every step keeps RAM, NVS and the confirmed clients consistent.         *)
LEMMA TableKept == TypeOK /\ TableInv /\ [Next]_vars => TableInv'
  <1> SUFFICES ASSUME TypeOK, TableInv, [Next]_vars PROVE TableInv'
    OBVIOUS
  <1>0. ASSUME up', NvsMatchesRam', Served' PROVE ConfirmedSurvivesCrash'
    <2>1. TypeOK'
      BY TypeKept
    <2> QED
      BY <1>0, <2>1, CoordinatorAssumption
      DEF NvsMatchesRam, Served, IsPaired, SlotsOf, ConfirmedSurvivesCrash,
          StoredMacs, TypeOK
  <1>1. ASSUME UNCHANGED <<up, clients, storedMac, owed, spared>>
        PROVE  TableInv'
    BY <1>1
    DEF TableInv, UniqueMacs, NvsMatchesRam, Served, IsPaired, SlotsOf,
        ConfirmedSurvivesCrash, StoredMacs
  <1>2. CASE LoadPairedClients
    <2>1. UniqueMacs' /\ ConfirmedSurvivesCrash'
      BY <1>2
      DEF LoadPairedClients, TableInv, UniqueMacs, nvs,
          ConfirmedSurvivesCrash, StoredMacs
    <2>2. NvsMatchesRam'
      BY <1>2
      DEF LoadPairedClients, NvsMatchesRam, LoadedSlot, EmptySlot, nvs
    <2>3. ASSUME NEW m \in owed PROVE IsPaired(m)'
      <3>1. PICK t \in Slots : storedMac[t] = m /\ m # ZeroMac
        BY <2>3 DEF TableInv, ConfirmedSurvivesCrash, StoredMacs
      <3>2. clients'[t] = [mac |-> m, deviceId |-> storedId[t], active |-> TRUE]
        BY <1>2, <3>1 DEF LoadPairedClients, LoadedSlot
      <3> QED BY <3>2 DEF IsPaired, SlotsOf
    <2>4. Served'
      BY <1>2, <2>3 DEF LoadPairedClients, Served
    <2> QED BY <2>1, <2>2, <2>4 DEF TableInv
  <1>3. ASSUME NEW mac \in Macs, NEW id \in DeviceIds,
               HandlePairingRequest(mac, id)
        PROVE  TableInv'
    <2>0. up /\ up' /\ UNCHANGED spared
      BY <1>3 DEF HandlePairingRequest
    <2>1. CASE IsPaired(mac) /\ UpdatePaired(mac, id)
      <3> DEFINE s == First(SlotsOf(mac))
      <3>1. s \in Slots /\ clients[s].active /\ clients[s].mac = mac
        BY <2>1, SlotOfPaired
      <3>2. \A t \in Slots : /\ clients'[t].active = clients[t].active
                             /\ clients'[t].mac = clients[t].mac
        <4>1. clients' = [clients EXCEPT ![s].deviceId = id]
          BY <2>1 DEF UpdatePaired
        <4> HIDE DEF s
        <4> QED BY <3>1, <4>1 DEF TypeOK, Client
      <3>3. UNCHANGED storedMac
        BY <2>1 DEF UpdatePaired, nvs
      <3>4. UniqueMacs' /\ NvsMatchesRam'
        BY <2>0, <3>2, <3>3 DEF TableInv, UniqueMacs, NvsMatchesRam
      <3>5. owed' \subseteq owed \cup {mac}
        BY <2>1 DEF UpdatePaired, Delivered
      <3>6. Served'
        BY <2>0, <2>1, <3>2, <3>5 DEF TableInv, Served, IsPaired, SlotsOf
      <3> QED BY <1>0, <2>0, <3>4, <3>6 DEF TableInv
    <2>2. CASE ~IsPaired(mac) /\ StoreInSlot(mac, id)
      <3> DEFINE s == SlotFor(id)
                 c == [mac |-> mac, deviceId |-> id, active |-> TRUE]
      <3>1. /\ s \in Slots /\ PersistMac(s, mac)
            /\ clients' = [clients EXCEPT ![s] = c]
            /\ owed' = (owed \ Evicted(s)) \cup Delivered(mac)
        BY <2>2, SlotForKind DEF StoreInSlot
      <3> HIDE DEF s, c
      <3>2. \A t \in Slots : storedMac[t] = mac => mac \in spared
        BY <2>0, <2>2, NewToNvs DEF TableInv
      <3>3. UniqueMacs'
        BY <2>0, <3>1, <3>2, SlotRewritten
      <3>4. NvsMatchesRam'
        BY <2>0, <3>1 DEF PersistMac, TableInv, NvsMatchesRam, TypeOK, c
      <3>5. IsPaired(mac)'
        BY <3>1 DEF IsPaired, SlotsOf, TypeOK, c
      <3>6. \A m \in owed \ Evicted(s) : IsPaired(m)'
        BY <2>0, <3>1, ServedElsewhere DEF TableInv
      <3>7. Served'
        BY <3>1, <3>5, <3>6 DEF Served, Delivered
      <3> QED BY <1>0, <2>0, <3>3, <3>4, <3>7 DEF TableInv
    <2>3. CASE Reject(mac, id)
      BY <1>1, <1>3, <2>3 DEF Reject, HandlePairingRequest, nvs
    <2> QED BY <1>3, <2>1, <2>2, <2>3 DEF HandlePairingRequest
  <1>4. ASSUME NEW mac \in Macs, HandleReconnectProbe(mac) PROVE TableInv'
    BY <1>1, <1>4 DEF HandleReconnectProbe, nvs
  <1>5. CASE Receive
    BY <1>3, <1>4, <1>5, RequestRead DEF Receive, HandleReceived
  <1>6. CASE UnpairSlot
    <2>1. /\ unpairing \in Slots /\ up /\ up'
          /\ clients' = [clients EXCEPT ![unpairing] = EmptySlot]
          /\ owed' = owed \ Evicted(unpairing)
      BY <1>6 DEF UnpairSlot
    <2>2. Served'
      BY <2>1, ServedElsewhere DEF Served, TableInv
    <2>3. CASE prefsOpen
      <3>1. PersistMac(unpairing, ZeroMac) /\ UNCHANGED spared
        BY <1>6, <2>3 DEF UnpairSlot, ForgetStored
      <3>2. UniqueMacs'
        BY <2>1, <3>1, SlotRewritten
      <3>3. NvsMatchesRam'
        BY <2>1, <3>1
        DEF PersistMac, TableInv, NvsMatchesRam, TypeOK, EmptySlot
      <3> QED BY <1>0, <2>1, <2>2, <3>2, <3>3 DEF TableInv
    <2>4. CASE ~prefsOpen
      <3>1. /\ UNCHANGED storedMac /\ spared \subseteq spared'
            /\ storedMac[unpairing] \in {ZeroMac} \cup spared'
        BY <1>6, <2>4 DEF UnpairSlot, nvs
      <3>2. UniqueMacs'
        BY <3>1 DEF TableInv, UniqueMacs
      <3>3. NvsMatchesRam'
        BY <2>1, <3>1 DEF TableInv, NvsMatchesRam, TypeOK, EmptySlot
      <3> QED BY <1>0, <2>1, <2>2, <3>2, <3>3 DEF TableInv
    <2> QED BY <2>3, <2>4
  <1>7. CASE PowerLoss
    BY <1>7
    DEF PowerLoss, VolatileReset, TableInv, UniqueMacs, NvsMatchesRam,
        Served, ConfirmedSurvivesCrash, StoredMacs, nvs
  <1>8. ASSUME NEW mac \in Macs, NEW id \in DeviceIds,
               PowerLossInStore(mac, id)
        PROVE  TableInv'
    <2> DEFINE s == SlotFor(id)
    <2>1. s \in Slots /\ up /\ PersistMac(s, mac)
      BY <1>8, SlotForKind DEF PowerLossInStore
    <2>2. \A t \in Slots : storedMac[t] = mac => mac \in spared
      BY <1>8, <2>1, NewToNvs DEF PowerLossInStore, TableInv
    <2>3. owed' = owed \ Evicted(s) /\ ~up' /\ UNCHANGED spared
      BY <1>8 DEF PowerLossInStore, VolatileReset
    <2> HIDE DEF s
    <2>4. UniqueMacs' /\ owed \ Evicted(s) \subseteq StoredMacs'
      BY <2>1, <2>2, <2>3, SlotRewritten
    <2> QED
      BY <2>3, <2>4
      DEF TableInv, NvsMatchesRam, Served, ConfirmedSurvivesCrash
  <1>9. CASE PowerLossInUnpair
    <2>1. /\ unpairing \in Slots /\ up /\ PersistMac(unpairing, ZeroMac)
          /\ owed' = owed \ Evicted(unpairing) /\ ~up' /\ UNCHANGED spared
      BY <1>9 DEF PowerLossInUnpair, VolatileReset
    <2>2. UniqueMacs' /\ owed \ Evicted(unpairing) \subseteq StoredMacs'
      BY <2>1, SlotRewritten
    <2> QED
      BY <2>1, <2>2
      DEF TableInv, NvsMatchesRam, Served, ConfirmedSurvivesCrash
  <1>10. CASE EnablePairing \/ DisablePairing \/ Loop \/ UnpairAll \/ Tick
    BY <1>1, <1>10
    DEF EnablePairing, DisablePairing, Loop, UnpairAll, Tick, nvs
  <1>11. CASE UNCHANGED vars
    BY <1>1, <1>11 DEF vars, nvs
  <1> QED
    BY <1>2, <1>5, <1>6, <1>7, <1>8, <1>9, <1>10, <1>11 DEF Next, Failure

(* Types and tables together are inductive.                                *)
LEMMA TableInvariant == Spec => [](TypeOK /\ TableInv)
  <1>1. Init => TypeOK
    BY InitTyped
  <1>2. Init => TableInv
    BY DEF Init, TableInv, UniqueMacs, NvsMatchesRam, Served,
       ConfirmedSurvivesCrash, EmptySlot
  <1> QED BY <1>1, <1>2, TypeKept, TableKept, PTL DEF Spec

(* No MAC holds two slots of NVS.                                          *)
THEOREM MacsAreUnique == Spec => []UniqueMacs
  BY TableInvariant, PTL DEF TableInv

(* A restart at any moment of normal running finds the clients served.     *)
THEOREM NvsAgreesWithRam == Spec => []NvsMatchesRam
  BY TableInvariant, PTL DEF TableInv

(* A client that was sent an accepted confirmation is in NVS until it is   *)
(* unpaired or replaced, whatever power failure interrupts.                *)
THEOREM ConfirmedIsStored == Spec => []ConfirmedSurvivesCrash
  BY TableInvariant, PTL DEF TableInv

(* Outside unpairAll a client loses its slot only when every slot is taken.*)
THEOREM EvictionWhenFull == Spec => EvictionOnlyWhenFull
  <1> DEFINE A == (unpairing = unpairing' /\ ~(owed \subseteq owed'))
                      => FreeSlots = {}
  <1>1. [Next]_vars => [A]_vars
    <2> SUFFICES ASSUME [Next]_vars, unpairing = unpairing',
                        ~(owed \subseteq owed')
                 PROVE  FreeSlots = {}
      OBVIOUS
    <2>1. ASSUME NEW id, SlotFor(id) # NoSlot,
                 owed \ Evicted(SlotFor(id)) \subseteq owed'
          PROVE  FreeSlots = {}
      <3>1. Evicted(SlotFor(id)) # {}
        BY <2>1
      <3> QED BY <2>1, <3>1, SlotForKind DEF Evicted
    <2>2. ASSUME NEW mac \in Macs, NEW id \in DeviceIds,
                 HandlePairingRequest(mac, id)
          PROVE  FreeSlots = {}
      <3>1. StoreInSlot(mac, id)
        BY <2>2 DEF HandlePairingRequest, UpdatePaired, Reject
      <3> QED BY <2>1, <3>1 DEF StoreInSlot
    <2>3. CASE Receive
      <3>1. \E mac \in Macs : \/ HandleReconnectProbe(mac)
                             \/ \E id \in DeviceIds : HandlePairingRequest(mac, id)
        BY <2>3, RequestRead DEF Receive, HandleReceived
      <3> QED BY <2>2, <3>1 DEF HandleReconnectProbe
    <2>4. CASE UnpairSlot
      BY <2>4, CoordinatorAssumption DEF UnpairSlot, Slots
    <2>5. ASSUME NEW mac \in Macs, NEW id \in DeviceIds,
                 PowerLossInStore(mac, id)
          PROVE  FreeSlots = {}
      BY <2>1, <2>5 DEF PowerLossInStore
    <2>6. CASE PowerLossInUnpair
      BY <2>6, CoordinatorAssumption
      DEF PowerLossInUnpair, VolatileReset, Slots, NoSlot
    <2> QED
      BY <2>3, <2>4, <2>5, <2>6
      DEF Next, Failure, LoadPairedClients, EnablePairing, DisablePairing,
          Loop, UnpairAll, PowerLoss, Tick, vars
  <1> QED BY <1>1, PTL DEF Spec, EvictionOnlyWhenFull

-----------------------------------------------------------------------------
(***************************************************************************)
(* The registry.  A step of it is found in NVS: which MACs are stored, and *)
(* who was told.  TableInv says that one slot changes by one MAC; that the *)
(* MAC is an address, and not the mark of an empty slot, is NamedInv.      *)
(***************************************************************************)
NamedInv == \A s \in Slots : clients[s].active => clients[s].mac \in Macs

(* An occupied slot has the address of a client.                           *)
LEMMA NamedKept == TypeOK /\ NamedInv /\ [Next]_vars => NamedInv'
  <1> SUFFICES ASSUME TypeOK, NamedInv, [Next]_vars PROVE NamedInv'
    OBVIOUS
  <1>1. ASSUME UNCHANGED clients PROVE NamedInv'
    BY <1>1 DEF NamedInv
  <1>2. CASE LoadPairedClients
    BY <1>2 DEF LoadPairedClients, LoadedSlot, EmptySlot, NamedInv, TypeOK
  <1>3. ASSUME NEW mac \in Macs, NEW id \in DeviceIds,
               HandlePairingRequest(mac, id)
        PROVE  NamedInv'
    <2>1. CASE IsPaired(mac) /\ UpdatePaired(mac, id)
      <3> DEFINE s == First(SlotsOf(mac))
      <3>1. clients' = [clients EXCEPT ![s].deviceId = id] /\ s \in Slots
        BY <2>1, SlotOfPaired DEF UpdatePaired
      <3> HIDE DEF s
      <3> QED BY <3>1 DEF NamedInv, TypeOK, Client
    <2>2. CASE StoreInSlot(mac, id)
      BY <2>2, SlotForKind DEF StoreInSlot, NamedInv, TypeOK
    <2>3. CASE Reject(mac, id)
      BY <1>1, <2>3 DEF Reject
    <2> QED BY <1>3, <2>1, <2>2, <2>3 DEF HandlePairingRequest
  <1>4. CASE Receive
    BY <1>1, <1>3, <1>4, RequestRead
    DEF Receive, HandleReceived, HandleReconnectProbe
  <1>5. CASE UnpairSlot
    BY <1>5 DEF UnpairSlot, EmptySlot, NamedInv, TypeOK
  <1>6. CASE Failure
    BY <1>6
    DEF Failure, PowerLoss, PowerLossInUnpair, PowerLossInStore,
        VolatileReset, EmptySlot, NamedInv
  <1>7. CASE EnablePairing \/ DisablePairing \/ Loop \/ UnpairAll \/ Tick
             \/ UNCHANGED vars
    BY <1>1, <1>7
    DEF EnablePairing, DisablePairing, Loop, UnpairAll, Tick, vars
  <1> QED BY <1>2, <1>4, <1>5, <1>6, <1>7 DEF Next

(* Types, tables and names together.                                       *)
CoordinatorInv == TypeOK /\ TableInv /\ NamedInv

(* They are an invariant.                                                  *)
LEMMA CoordinatorInvariant == Spec => []CoordinatorInv
  <1>1. Init => NamedInv
    BY DEF Init, NamedInv, EmptySlot
  <1>2. TypeOK /\ NamedInv /\ [Next]_vars => NamedInv'
    BY NamedKept
  <1> QED BY <1>1, <1>2, TableInvariant, PTL DEF Spec, CoordinatorInv

(* The registry counts as the coordinator does.                            *)
LEMMA RegistryCounts == \A S : Registry!Cardinality(S) = Cardinality(S)
  BY DEF Registry!Cardinality, Cardinality

(* Each slot in use holds a MAC of its own, so the registry is full when   *)
(* every slot of NVS is in use.  That, and what follows, is for as long as *)
(* no client was spared.                                                   *)
LEMMA FullSlots ==
    ASSUME TypeOK, UniqueMacs, spared = {}
    PROVE  Registry!Full <=> \A s \in Slots : storedMac[s] # ZeroMac
  <1> DEFINE Used == {s \in Slots : storedMac[s] # ZeroMac}
             f == [s \in Used |-> storedMac[s]]
  <1>1. IsFiniteSet(Slots) /\ Cardinality(Slots) = MaxPairedClients
    BY CoordinatorAssumption, FS_Interval DEF Slots
  <1>2. Used \in SUBSET Slots
    OBVIOUS
  <1>3. /\ IsFiniteSet(Used)
        /\ Cardinality(Slots) = Cardinality(Used) => Slots = Used
    BY <1>1, <1>2, FS_Subset
  <1>4. f \in Bijection(Used, StoredMacs)
    BY DEF Bijection, Injection, Surjection, IsInjective, StoredMacs,
       UniqueMacs
  <1>5. Cardinality(StoredMacs) = Cardinality(Used)
    BY <1>3, <1>4, FS_Bijection, Zenon DEF ExistsBijection
  <1>6. Registry!Full <=> Used = Slots
    <2> HIDE DEF Used
    <2>1. Registry!Full <=> Cardinality(Used) = MaxPairedClients
      BY <1>5, RegistryCounts, Zenon DEF Registry!Full
    <2> QED BY <1>1, <1>3, <2>1
  <1> QED BY <1>6

(* What NVS names when one slot is written, or emptied.                    *)
LEMMA StoredAfter ==
    ASSUME CoordinatorInv, up, spared = {},
           NEW s \in Slots, NEW mac \in Macs \cup {ZeroMac},
           PersistMac(s, mac)
    PROVE  /\ StoredMacs' = (StoredMacs \ Evicted(s)) \cup ({mac} \ {ZeroMac})
           /\ Evicted(s) = {storedMac[s]} \ {ZeroMac}
  <1>1. Evicted(s) = {storedMac[s]} \ {ZeroMac}
    BY CoordinatorAssumption
    DEF CoordinatorInv, TableInv, NvsMatchesRam, NamedInv, Evicted
  <1>2. /\ storedMac'[s] = mac
        /\ \A t \in Slots \ {s} : storedMac'[t] = storedMac[t]
    BY DEF PersistMac, CoordinatorInv, TypeOK
  <1>3. \A t \in Slots \ {s} :
            storedMac[t] # ZeroMac => storedMac[t] \notin Evicted(s)
    BY <1>1 DEF CoordinatorInv, TableInv, UniqueMacs
  <1>4. ASSUME NEW m \in StoredMacs'
        PROVE  m \in (StoredMacs \ Evicted(s)) \cup ({mac} \ {ZeroMac})
    BY <1>2, <1>3, <1>4 DEF StoredMacs
  <1>5. ASSUME NEW m \in StoredMacs \ Evicted(s) PROVE m \in StoredMacs'
    BY <1>1, <1>2, <1>5 DEF StoredMacs
  <1>6. ASSUME NEW m \in {mac} \ {ZeroMac} PROVE m \in StoredMacs'
    BY <1>2, <1>6 DEF StoredMacs
  <1> QED BY <1>1, <1>4, <1>5, <1>6

(* A MAC stored in a slot is registered, in the place of another if the    *)
(* slot was taken, which it only is when all are; its client is told, or,  *)
(* when power fails or the confirmation cannot be sent, not.               *)
LEMMA StoreRefines ==
    ASSUME CoordinatorInv, up, spared = {},
           NEW mac \in Macs, NEW id \in DeviceIds,
           ~IsPaired(mac), SlotFor(id) # NoSlot, PersistMac(SlotFor(id), mac),
           \/ owed' = owed \ Evicted(SlotFor(id))
           \/ owed' = (owed \ Evicted(SlotFor(id))) \cup {mac}
    PROVE  Registry!Next
  <1> DEFINE s == SlotFor(id)
  <1>1. s \in Slots /\ (clients[s].active => FreeSlots = {})
    BY SlotForKind
  <1>2. PersistMac(s, mac)
    OBVIOUS
  <1>3. owed' = owed \ Evicted(s) \/ owed' = (owed \ Evicted(s)) \cup {mac}
    OBVIOUS
  <1> HIDE DEF s
  <1>4. /\ StoredMacs' = (StoredMacs \ Evicted(s)) \cup {mac}
        /\ Evicted(s) = {storedMac[s]} \ {ZeroMac}
    BY <1>1, <1>2, StoredAfter, CoordinatorAssumption
  <1>5. mac \notin StoredMacs
    BY NewToNvs DEF CoordinatorInv, TableInv, StoredMacs
  <1>6. CASE clients[s].active
    <2>1. storedMac[s] = clients[s].mac /\ storedMac[s] \in Macs
      BY <1>1, <1>6 DEF CoordinatorInv, TableInv, NvsMatchesRam, NamedInv
    <2>2. \A t \in Slots : storedMac[t] # ZeroMac
      BY <1>1, <1>6, CoordinatorAssumption
      DEF CoordinatorInv, TableInv, NvsMatchesRam, NamedInv, FreeSlots
    <2>3. Registry!Full
      BY <2>2, FullSlots DEF CoordinatorInv, TableInv
    <2>4. storedMac[s] \in StoredMacs /\ Evicted(s) = {storedMac[s]}
      BY <1>1, <1>4, <2>2 DEF StoredMacs
    <2>5. Registry!Replace(storedMac[s], mac)
      BY <1>3, <1>4, <1>5, <2>3, <2>4 DEF Registry!Replace
    <2> QED BY <2>1, <2>5 DEF Registry!Next
  <1>7. CASE ~clients[s].active
    <2>1. storedMac[s] = ZeroMac
      BY <1>1, <1>7 DEF CoordinatorInv, TableInv, NvsMatchesRam
    <2>2. ~Registry!Full
      BY <1>1, <2>1, FullSlots DEF CoordinatorInv, TableInv
    <2>3. Registry!Pair(mac)
      BY <1>3, <1>4, <1>5, <2>1, <2>2 DEF Registry!Pair
    <2> QED BY <2>3 DEF Registry!Next
  <1> QED BY <1>6, <1>7

(* A slot that is emptied unpairs its client, if it had one.               *)
LEMMA UnpairRefines ==
    ASSUME CoordinatorInv, up, spared = {}, NEW s \in Slots,
           PersistMac(s, ZeroMac), owed' = owed \ Evicted(s)
    PROVE  Registry!Next \/ UNCHANGED <<StoredMacs, owed>>
  <1>1. /\ StoredMacs' = StoredMacs \ Evicted(s)
        /\ Evicted(s) = {storedMac[s]} \ {ZeroMac}
    BY StoredAfter, CoordinatorAssumption
  <1>2. CASE storedMac[s] = ZeroMac
    BY <1>1, <1>2
  <1>3. CASE storedMac[s] # ZeroMac
    <2>1. PICK old \in Macs : old = storedMac[s]
      BY <1>3 DEF CoordinatorInv, TypeOK
    <2>2. old \in StoredMacs /\ Evicted(s) = {old}
      BY <1>1, <1>3, <2>1 DEF StoredMacs
    <2>3. Registry!Unpair(old)
      BY <1>1, <2>2 DEF Registry!Unpair
    <2> QED BY <2>3 DEF Registry!Next
  <1> QED BY <1>2, <1>3

(* The spared clients are never forgotten.                                 *)
LEMMA SparedStay == [Next]_vars => spared \subseteq spared'
  BY RequestRead
  DEF Next, LoadPairedClients, EnablePairing, DisablePairing, Loop, Receive,
      HandleReceived, HandleReconnectProbe, HandlePairingRequest, UnpairAll,
      UnpairSlot, Failure, PowerLoss, PowerLossInUnpair, PowerLossInStore,
      Tick, vars

(* A step that spares nobody is a step of the registry, or none.           *)
LEMMA StepRefines ==
    CoordinatorInv /\ [Next]_vars
        => [Registry!Next \/ spared' # {}]_<<StoredMacs, owed>>
  <1> SUFFICES ASSUME CoordinatorInv, [Next]_vars, spared' = {}
               PROVE  Registry!Next \/ UNCHANGED <<StoredMacs, owed>>
    OBVIOUS
  <1>0. spared = {}
    BY SparedStay
  <1>1. ASSUME UNCHANGED <<storedMac, owed>>
        PROVE  UNCHANGED <<StoredMacs, owed>>
    BY <1>1 DEF StoredMacs
  <1>2. ASSUME NEW mac \in Macs, NEW id \in DeviceIds,
               HandlePairingRequest(mac, id)
        PROVE  Registry!Next \/ UNCHANGED <<StoredMacs, owed>>
    <2>1. CASE IsPaired(mac) /\ UpdatePaired(mac, id)
      <3>1. mac \in StoredMacs
        BY <1>2, <2>1, SlotOfPaired, CoordinatorAssumption
        DEF HandlePairingRequest, CoordinatorInv, TableInv, NvsMatchesRam,
            StoredMacs
      <3>2. owed' \in {owed, owed \cup {mac}} /\ StoredMacs' = StoredMacs
        BY <2>1 DEF UpdatePaired, Delivered, nvs, StoredMacs
      <3> QED BY <3>1, <3>2 DEF Registry!Next, Registry!Confirm
    <2>2. CASE ~IsPaired(mac) /\ StoreInSlot(mac, id)
      <3>1. /\ up /\ SlotFor(id) # NoSlot /\ PersistMac(SlotFor(id), mac)
            /\ owed' = (owed \ Evicted(SlotFor(id))) \cup Delivered(mac)
        BY <1>2, <2>2 DEF HandlePairingRequest, StoreInSlot
      <3>2. \/ owed' = owed \ Evicted(SlotFor(id))
            \/ owed' = (owed \ Evicted(SlotFor(id))) \cup {mac}
        BY <3>1 DEF Delivered
      <3> QED BY <1>0, <2>2, <3>1, <3>2, StoreRefines
    <2>3. CASE Reject(mac, id)
      BY <1>1, <2>3 DEF Reject, nvs
    <2> QED BY <1>2, <2>1, <2>2, <2>3 DEF HandlePairingRequest
  <1>3. CASE Receive
    BY <1>1, <1>2, <1>3, RequestRead
    DEF Receive, HandleReceived, HandleReconnectProbe, nvs
  <1>4. CASE UnpairSlot
    <2>1. /\ up /\ unpairing \in Slots
          /\ owed' = owed \ Evicted(unpairing)
      BY <1>4 DEF UnpairSlot
    <2>2. CASE prefsOpen
      BY <1>0, <1>4, <2>1, <2>2, UnpairRefines DEF UnpairSlot, ForgetStored
    <2>3. CASE ~prefsOpen
      <3>1. UNCHANGED storedMac /\ storedMac[unpairing] = ZeroMac
        BY <1>4, <2>3 DEF UnpairSlot, nvs
      <3>2. Evicted(unpairing) = {}
        BY <2>1, <3>1, CoordinatorAssumption
        DEF CoordinatorInv, TableInv, NvsMatchesRam, NamedInv, Evicted
      <3> QED BY <1>1, <2>1, <3>1, <3>2
    <2> QED BY <2>2, <2>3
  <1>5. CASE PowerLossInUnpair
    BY <1>0, <1>5, UnpairRefines DEF PowerLossInUnpair
  <1>6. ASSUME NEW mac \in Macs, NEW id \in DeviceIds,
               PowerLossInStore(mac, id)
        PROVE  Registry!Next
    BY <1>0, <1>6, StoreRefines DEF PowerLossInStore
  <1>7. CASE LoadPairedClients \/ EnablePairing \/ DisablePairing \/ Loop
             \/ UnpairAll \/ PowerLoss \/ Tick \/ UNCHANGED vars
    BY <1>1, <1>7
    DEF LoadPairedClients, EnablePairing, DisablePairing, Loop, UnpairAll,
        PowerLoss, Tick, vars, nvs
  <1> QED BY <1>3, <1>4, <1>5, <1>6, <1>7 DEF Next, Failure

(* Frames, slots, NVS keys and losses of power together keep a registry of *)
(* paired clients that changes by one client at a time, until a store in   *)
(* the middle of unpairAll closes the NVS session and a client is spared.  *)
THEOREM CoordinatorKeepsRegistry == Spec => KeepsRegistry
  <1>1. Init => Registry!Init
    BY DEF Init, Registry!Init, StoredMacs
  <1>2. CoordinatorInv /\ [Next]_vars
           => [Registry!Next \/ spared' # {}]_<<StoredMacs, owed>>
    BY StepRefines
  <1> QED BY <1>1, <1>2, CoordinatorInvariant, PTL DEF Spec, KeepsRegistry

-----------------------------------------------------------------------------
(***************************************************************************)
(* The peer table.                                                         *)
(***************************************************************************)

(* What NVS names fits the peer table.                                     *)
LEMMA StoredFit == Cardinality(StoredMacs) <= MaxPeers
  <1> DEFINE Used == {s \in Slots : storedMac[s] # ZeroMac}
             f == [s \in Used |-> storedMac[s]]
  <1>1. IsFiniteSet(Slots) /\ Cardinality(Slots) = MaxPairedClients
    BY CoordinatorAssumption, FS_Interval DEF Slots
  <1>2. /\ IsFiniteSet(Used) /\ Cardinality(Used) <= MaxPairedClients
        /\ Cardinality(Used) \in Nat
    BY <1>1, FS_Subset, FS_CardinalityType
  <1>3. f \in Surjection(Used, StoredMacs)
    BY DEF Surjection, StoredMacs
  <1>4. /\ Cardinality(StoredMacs) <= Cardinality(Used)
        /\ Cardinality(StoredMacs) \in Nat
    BY <1>2, <1>3, FS_Surjection, FS_CardinalityType, Zenon
    DEF ExistsSurjection
  <1> HIDE DEF Used
  <1> QED BY <1>2, <1>4, CoordinatorAssumption

(* A coordinator that is off has no peers.                                 *)
PeersInv == (~up => peers = {}) /\ ActivePeers

(* Every step keeps the peers of the clients that were told.               *)
LEMMA PeersKept ==
    ASSUME ConfirmedSurvivesCrash, PeersInv, [Next]_vars PROVE PeersInv'
  <1> USE DEF PeersInv, ActivePeers
  <1>0. ASSUME NEW macs PROVE peers \subseteq PeersWith(macs)
    BY DEF PeersWith
  <1>1. ASSUME UNCHANGED <<up, owed>>, up \/ UNCHANGED peers,
               peers \subseteq peers'
        PROVE  PeersInv'
    BY <1>1
  <1>2. CASE LoadPairedClients
    <2>1. peers' = StoredMacs
      BY <1>2, StoredFit DEF LoadPairedClients, LoadedPeers, PeersWith
    <2> QED
      BY <1>2, <2>1 DEF LoadPairedClients, ConfirmedSurvivesCrash
  <1>3. CASE Loop
    BY <1>0, <1>1, <1>3 DEF Loop, BeaconDue
  <1>4. ASSUME NEW mac \in Macs, NEW id \in DeviceIds,
               HandlePairingRequest(mac, id)
        PROVE  PeersInv'
    <2>0. up /\ up'
      BY <1>4 DEF HandlePairingRequest
    <2>1. CASE UpdatePaired(mac, id)
      BY <1>0, <2>0, <2>1 DEF UpdatePaired, Delivered
    <2>2. CASE StoreInSlot(mac, id)
      BY <2>0, <2>2 DEF StoreInSlot, Delivered
    <2>3. CASE Reject(mac, id)
      BY <1>0, <2>0, <2>3 DEF Reject
    <2> QED BY <1>4, <2>1, <2>2, <2>3 DEF HandlePairingRequest
  <1>5. ASSUME NEW mac \in Macs, HandleReconnectProbe(mac) PROVE PeersInv'
    BY <1>0, <1>1, <1>5 DEF HandleReconnectProbe
  <1>6. CASE Receive
    BY <1>4, <1>5, <1>6, RequestRead DEF Receive, HandleReceived
  <1>7. CASE UnpairSlot
    BY <1>7 DEF UnpairSlot
  <1>8. CASE Failure
    BY <1>8
    DEF Failure, PowerLoss, PowerLossInUnpair, PowerLossInStore,
        VolatileReset
  <1>9. CASE EnablePairing \/ DisablePairing \/ UnpairAll \/ Tick
             \/ UNCHANGED vars
    BY <1>1, <1>9 DEF EnablePairing, DisablePairing, UnpairAll, Tick, vars
  <1> QED BY <1>2, <1>3, <1>6, <1>7, <1>8, <1>9 DEF Next

(* Whoever was told it is paired stays a peer, whoever else asked, was     *)
(* rejected or was replaced and however full the peer table is, and is one *)
(* again after a restart: nothing is assumed of the MACs that ask.         *)
THEOREM ClientsAreReachable == Spec => []ActivePeers
  <1>1. Init => PeersInv
    BY DEF Init, PeersInv, ActivePeers
  <1>2. CoordinatorInv /\ PeersInv /\ [Next]_vars => PeersInv'
    BY PeersKept DEF CoordinatorInv, TableInv
  <1>3. PeersInv => ActivePeers
    BY DEF PeersInv
  <1> QED BY <1>1, <1>2, <1>3, CoordinatorInvariant, PTL DEF Spec
=============================================================================
