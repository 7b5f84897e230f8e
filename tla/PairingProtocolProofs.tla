------------------------ MODULE PairingProtocolProofs ------------------------
(***************************************************************************)
(* Theorems of PairingProtocol, for any number of slots, channels, losses  *)
(* and restarts: what the two ends of the handshake say of one another.    *)
(***************************************************************************)
EXTENDS PairingProtocol, WellFoundedInduction, TLAPS

-----------------------------------------------------------------------------
(***************************************************************************)
(* Where the client's loop call is, and its radio.                         *)
(***************************************************************************)

(* A client that is PAIRED while a loop call is past its test became so    *)
(* inside this call, by a confirmation, and what it stored then is still   *)
(* in NVS.                                                                 *)
LoopInv ==
    /\ ~cup => cpc = "idle" /\ cstate = "IDLE"
    /\ cstate = "PAIRED" /\ Committed => raced
    /\ raced => /\ cstate = "PAIRED" /\ prefFlag /\ prefMac = Coord
                /\ prefChannel = pairedChannel

(* The coordinator and the other client leave the client alone.            *)
LEMMA ClientIdle ==
    ASSUME CoordinatorLoop \/ CoordinatorApp
             \/ CoordinatorReceives \/ OtherRequests
             \/ CoordinatorFails \/ Lose \/ Tick
             \/ UNCHANGED vars
    PROVE  UNCHANGED <<clientState, raced>>
  BY DEF CoordinatorLoop, CoordinatorApp, CoordinatorReceives, OtherRequests,
     CoordinatorFails, Lose, Tick, CoordinatorSends, vars

(* What a test of the loop leads to.                                       *)
LEMMA Dispatched ==
    ASSUME Client!Dispatch
    PROVE  /\ cpc' \in {"idle", "advance", "restart"}
           /\ cpc' = "advance" => cstate = "SCANNING"
           /\ cpc' = "restart" => cstate = "RESPONDING"
  BY Zenon DEF Client!Dispatch, Client!AwaitsConfirm

(* What becomes of the mark when the client takes a step.                  *)
LEMMA MarkKept ==
    ASSUME ClientLoop \/ ClientApp \/ ClientReceives \/ ClientFails
    PROVE  raced' = (cstate' = "PAIRED" /\ IF cstate = "PAIRED" THEN raced
                                           ELSE Committed)
  BY DEF ClientLoop, ClientApp, ClientReceives, ClientFails, ClientSends

(* Every step keeps the account of the loop call.                          *)
LEMMA LoopInvKept == LoopInv /\ [Next]_vars => LoopInv'
  <1> SUFFICES ASSUME LoopInv, [Next]_vars PROVE LoopInv'
    OBVIOUS
  <1> USE DEF LoopInv, Committed, Client!prefs, Client!peer
  <1>1. CASE ClientLoop
    <2>1. CASE Client!LoopCall
      BY <1>1, <2>1, MarkKept DEF Client!LoopCall
    <2>2. CASE Client!Dispatch
      BY <1>1, <2>2, MarkKept, Dispatched DEF Client!Dispatch
    <2>3. CASE Client!Advance
      BY <1>1, <2>3, MarkKept DEF Client!Advance
    <2>4. CASE Client!Restart
      BY <1>1, <2>4, MarkKept DEF Client!Restart, Client!ScanFromStart
    <2> QED
      BY <1>1, <2>1, <2>2, <2>3, <2>4 DEF ClientLoop, Client!MainTask
  <1>2. CASE ClientApp
    <2>1. CASE Client!Boot
      BY <1>2, <2>1, MarkKept DEF Client!Boot, Client!ScanFromStart
    <2>2. CASE Client!StartScanning
      BY <1>2, <2>2, MarkKept
      DEF Client!StartScanning, Client!ScanFromStart, Client!task
    <2>3. CASE Client!StopScanning
      BY <1>2, <2>3, MarkKept DEF Client!StopScanning, Client!task
    <2>4. CASE Client!ClearPairing
      BY <1>2, <2>4, MarkKept DEF Client!ClearPairing, Client!task
    <2> QED BY <1>2, <2>1, <2>2, <2>3, <2>4 DEF ClientApp
  <1>3. CASE ClientReceives
    <2>1. Client!HandleReceived(Coord, Head(toClient))
      BY <1>3 DEF ClientReceives
    <2>2. UNCHANGED <<cup, cpc>> /\ cup
      BY <2>1 DEF Client!HandleReceived, Client!CallbackMayRun, Client!task
    <2>3. CASE cstate = "PAIRED"
      <3>1. UNCHANGED <<cstate, Client!peer, Client!prefs>>
        BY <2>1, <2>3
        DEF Client!HandleReceived, Client!HandleBeacon, Client!HandleConfirm
      <3> QED BY <1>3, <2>2, <3>1, MarkKept
    <2>4. CASE cstate # "PAIRED"
      <3>1. cstate' = "PAIRED" =>
              /\ prefFlag' /\ prefMac' = Coord /\ prefChannel' = pairedChannel'
        BY <2>1, <2>4
        DEF Client!HandleReceived, Client!HandleBeacon, Client!HandleConfirm,
            Client!StorePairing, Client!ScanFromStart
      <3> QED BY <1>3, <2>2, <2>4, <3>1, MarkKept
    <2> QED BY <2>3, <2>4
  <1>4. CASE ClientFails
    BY <1>4, MarkKept
    DEF ClientFails, Client!PowerLoss, Client!PowerLossInClear,
        Client!PowerLossInStore, Client!VolatileReset
  <1>5. CASE UNCHANGED <<clientState, raced>>
    BY <1>5 DEF clientState
  <1> QED
    BY <1>1, <1>2, <1>3, <1>4, <1>5, ClientIdle DEF Next

(* In every behaviour.                                                     *)
LEMMA LoopInvariant == Spec => []LoopInv
  <1>1. Init => LoopInv
    BY DEF Init, Client!Init, LoopInv, Committed
  <1> QED BY <1>1, LoopInvKept, PTL DEF Spec

(* pairing_client.cpp:134: whether the callback is queued to the main task *)
(* or preempts it, no timer undoes a pairing, except in the loop call that *)
(* had timed out before the confirmation came; that leaves it in NVS.      *)
THEOREM NoTimerUnpairs == Spec => PairingKept
<1> DEFINE Kept == (cstate = "PAIRED" /\ cstate' # "PAIRED")
                     => \/ ClientApp \/ ClientFails
                        \/ /\ raced /\ cpc = "restart"
                           /\ prefFlag' /\ prefMac' = Coord
<1>1. LoopInv /\ [Next]_vars => [Kept]_vars
  <2> SUFFICES ASSUME LoopInv, Next PROVE Kept
    OBVIOUS
  <2>1. CASE ClientLoop
    BY <2>1
    DEF LoopInv, Committed, ClientLoop, Client!MainTask, Client!LoopCall,
        Client!Dispatch, Client!Advance, Client!Restart, Client!prefs
  <2>2. CASE ClientReceives
    BY <2>2
    DEF ClientReceives, Client!HandleReceived, Client!HandleBeacon,
        Client!HandleConfirm
  <2>3. CASE UNCHANGED clientState
    BY <2>3 DEF clientState
  <2> QED BY <2>1, <2>2, <2>3, ClientIdle DEF Next
<1> QED BY <1>1, LoopInvariant, PTL DEF Spec, PairingKept

-----------------------------------------------------------------------------
(***************************************************************************)
(* the coordinator's table.  Nobody is unpaired here, so  *)
(* the point is that nobody is replaced.                                   *)
(***************************************************************************)
Slots   == Coordinator!Slots
Clients == {Me, Other}
Stored  == Coordinator!StoredMacs
Named(mac)   == Coordinator!IsPaired(mac)
SlotFor(id)  == Coordinator!SlotFor(id)
FreeSlots    == Coordinator!FreeSlots

(* Each client asks with its own device id.                                *)
Asks(mac, id) == <<mac, id>> \in {<<Me, DeviceId>>, <<Other, OtherDevice>>}

(* The ids a slot can name beside a MAC: a store cut short leaves 0 beside *)
(* this client's; an empty slot of NVS has the id 0.                       *)
IdsBeside(mac) ==
    IF mac = Me THEN {0, DeviceId}
    ELSE IF mac = Other THEN {OtherDevice} ELSE {0}

(* The table in RAM and NVS, slot by slot.                                 *)
SlotInv(s) ==
    /\ storedId[s] \in IdsBeside(storedMac[s])
    /\ clients[s].active =>
         /\ clients[s].mac \in Clients
         /\ clients[s].deviceId \in IdsBeside(clients[s].mac)
    /\ up => IF clients[s].active THEN storedMac[s] = clients[s].mac
             ELSE storedMac[s] = ZeroMac

TableInv ==
    /\ ownChannel \in OwnChannels
    /\ storedMac \in [Slots -> Clients \cup {ZeroMac}]
    /\ storedId \in [Slots -> Byte]
    /\ clients \in [Slots -> Coordinator!Client]
    /\ \A s \in Slots : SlotInv(s)

Less == {p \in Nat \X Nat : p[1] < p[2]}

(* The order of the slots is well founded.                                 *)
LEMMA LessWellFounded == IsWellFoundedOn(Less, Nat)
  BY NatLessThanWellFounded DEF OpToRel, Less

(* A search that stops at the first hit finds a slot of the kind it looks  *)
(* for, if there is one.                                                   *)
LEMMA FirstHit ==
    ASSUME NEW S, S \subseteq Slots, S # {}
    PROVE  Coordinator!First(S) \in S
  <1>1. S \subseteq Nat
    BY ProtocolAssumption DEF Slots, Coordinator!Slots
  <1>2. PICK s \in S : \A t \in S : <<t, s>> \notin Less
    BY <1>1, WFMin, LessWellFounded, Zenon
  <1>3. ASSUME NEW t \in S PROVE s <= t
    <2>1. s \in Nat /\ t \in Nat
      BY <1>1
    <2>2. <<t, s>> \in Nat \X Nat /\ ~(t < s)
      BY <1>2, <2>1 DEF Less
    <2> QED BY <2>1, <2>2
  <1> QED BY <1>3, Zenon DEF Coordinator!First

(* A client that is not in the table gets a slot that is empty in RAM and  *)
(* NVS, or none: no slot that is taken has its device id.                  *)
LEMMA SlotForIsFree ==
    ASSUME TableInv, up, NEW mac, NEW id,
           Asks(mac, id), ~Named(mac),
           SlotFor(id) # Coordinator!NoSlot
    PROVE  /\ SlotFor(id) \in Slots
           /\ storedMac[SlotFor(id)] = ZeroMac
           /\ storedId[SlotFor(id)] = 0
  <1> DEFINE OfDevice == Coordinator!SlotsOfDevice(id)
  <1>1. ZeroMac \notin Clients /\ Me # Other
    BY ProtocolAssumption DEF Clients
  <1>2. OfDevice = {}
    <2> SUFFICES ASSUME NEW s \in OfDevice PROVE FALSE
      OBVIOUS
    <2>1. s \in Slots /\ clients[s].active /\ clients[s].deviceId = id
      BY DEF Slots, Coordinator!SlotsOfDevice
    <2>2. clients[s].mac \in Clients /\ id \in IdsBeside(clients[s].mac)
      BY <2>1 DEF TableInv, SlotInv
    <2>3. clients[s].mac # mac
      BY <2>1 DEF Named, Coordinator!IsPaired, Coordinator!SlotsOf, Slots
    <2> QED
      BY <1>1, <2>2, <2>3, ProtocolAssumption DEF Asks, IdsBeside, Clients
  <1>3. FreeSlots # {} /\ SlotFor(id) = Coordinator!First(FreeSlots)
    BY <1>2, Zenon DEF SlotFor, Coordinator!SlotFor, FreeSlots
  <1>4. SlotFor(id) \in FreeSlots
    <2>1. FreeSlots \subseteq Slots
      BY DEF FreeSlots, Coordinator!FreeSlots, Slots
    <2> QED BY <1>3, <2>1, FirstHit
  <1>5. SlotFor(id) \in Slots /\ ~clients[SlotFor(id)].active
    BY <1>4 DEF FreeSlots, Coordinator!FreeSlots, Slots
  <1>6. storedMac[SlotFor(id)] = ZeroMac
    BY <1>5 DEF TableInv, SlotInv
  <1> QED
    BY <1>1, <1>5, <1>6 DEF TableInv, SlotInv, IdsBeside, Clients

(* Who is stored stays stored.                                             *)
StillStored == Me \in Stored => Me \in Stored'

(* A client is stored if a slot names it.                                  *)
LEMMA StoredSlot ==
    Me \in Stored <=> \E s \in Slots : storedMac[s] = Me
  BY ProtocolAssumption DEF Stored, Coordinator!StoredMacs, Slots

(* Writing a client into an empty slot of NVS, with its id or without.     *)
LEMMA WriteKept ==
    ASSUME TableInv, NEW mac, NEW id,
           Asks(mac, id), NEW s \in Slots, storedMac[s] = ZeroMac,
           storedMac' = [storedMac EXCEPT ![s] = mac]
    PROVE  /\ storedMac' \in [Slots -> Clients \cup {ZeroMac}]
           /\ StillStored
           /\ mac = Me => Me \in Stored'
  <1>1. mac \in Clients /\ ZeroMac # Me
    BY ProtocolAssumption DEF Asks, Clients
  <1>2. storedMac' \in [Slots -> Clients \cup {ZeroMac}]
    BY <1>1 DEF TableInv
  <1>3. /\ storedMac'[s] = mac
        /\ \A t \in Slots : t # s => storedMac'[t] = storedMac[t]
    BY DEF TableInv
  <1>4. Me \in Stored' <=> \E t \in Slots : storedMac'[t] = Me
    BY <1>1 DEF Stored, Coordinator!StoredMacs, Slots
  <1> QED BY <1>1, <1>2, <1>3, <1>4, StoredSlot DEF StillStored

(* What the client can hear: beacons and rejections, and accepted          *)
(* confirmations as soon as it is stored.                                  *)
Unconfirmed == {Beacon(ch) : ch \in OwnChannels}
                 \cup {Confirm(FALSE, ch) : ch \in OwnChannels}
Sendable    == Unconfirmed
                 \cup {Confirm(TRUE, ch) : ch \in OwnChannels}
Heard       == IF Me \in Stored THEN Sendable ELSE Unconfirmed

SendsHeard == \A o \in ToMe(out') : o.frame \in Heard'

(* One frame is handed to the radio, if its addressee is a peer.           *)
LEMMA SentOne ==
    ASSUME NEW d, NEW f, Coordinator!Send(d, f),
           d \in {Me, Broadcast} => f \in Heard'
    PROVE  SendsHeard
  BY DEF Coordinator!Send, SendsHeard, ToMe

(* Or none at all.                                                         *)
LEMMA SentNone == Coordinator!Silent => SendsHeard
  BY DEF Coordinator!Silent, SendsHeard, ToMe

(* The table and NVS are left alone.                                       *)
LEMMA TableIdle ==
    ASSUME TableInv, UNCHANGED <<clients, storedMac, storedId>>,
           up' = up, ownChannel' \in OwnChannels
    PROVE  TableInv' /\ StillStored
  BY DEF TableInv, SlotInv, StillStored, Stored, Slots,
     Coordinator!StoredMacs, Coordinator!Slots, Coordinator!Client

(* A restart forgets the table in RAM.                                     *)
LEMMA TableReset ==
    ASSUME TableInv,
           Coordinator!VolatileReset, UNCHANGED ownChannel,
           storedMac' \in [Slots -> Clients \cup {ZeroMac}],
           storedId' \in [Slots -> Byte],
           \A s \in Slots : storedId'[s] \in IdsBeside(storedMac'[s])
    PROVE  TableInv' /\ SendsHeard
  <1>1. Coordinator!EmptySlot \in Coordinator!Client
    BY DEF Coordinator!EmptySlot, Coordinator!Client, Coordinator!Byte
  <1>2. /\ clients' = [s \in Slots |-> Coordinator!EmptySlot]
        /\ ~up' /\ Coordinator!Silent
    BY DEF Coordinator!VolatileReset, Slots
  <1>3. \A s \in Slots : SlotInv(s)'
    BY <1>2 DEF SlotInv, IdsBeside, Coordinator!EmptySlot
  <1> QED
    BY <1>1, <1>2, <1>3, SentNone
    DEF TableInv, Slots, Coordinator!Slots, Coordinator!Client

(* The main task's actions, and setup after a restart.                     *)
LEMMA MainTaskKeeps ==
    ASSUME TableInv,
           \/ Coordinator!Loop
           \/ Coordinator!LoadPairedClients
           \/ Coordinator!EnablePairing
           \/ Coordinator!DisablePairing
    PROVE  TableInv' /\ StillStored /\ SendsHeard
  <1>1. CASE Coordinator!Loop
    <2>1. /\ UNCHANGED <<clients, storedMac, storedId, up, ownChannel>>
          /\ Coordinator!Send(Broadcast,
                 Coordinator!Beacon(ownChannel))
      BY <1>1 DEF Coordinator!Loop, Coordinator!nvs
    <2>2. ownChannel \in OwnChannels
      BY DEF TableInv
    <2>3. Coordinator!Beacon(ownChannel) \in Heard'
      BY <2>2
      DEF Heard, Sendable, Unconfirmed, Beacon, Bytes, COORDINATOR,
          Coordinator!Beacon, Coordinator!Bytes, Coordinator!COORDINATOR
    <2> QED BY <2>1, <2>2, <2>3, SentOne, TableIdle
  <1>2. CASE Coordinator!LoadPairedClients
    <2>1. /\ UNCHANGED <<storedMac, storedId>> /\ ownChannel' \in OwnChannels
          /\ clients' = [s \in Slots |-> Coordinator!LoadedSlot(s)]
          /\ Coordinator!Silent
      BY <1>2 DEF Coordinator!LoadPairedClients, Coordinator!nvs, Slots
    <2>2. ASSUME NEW s \in Slots
          PROVE  /\ Coordinator!LoadedSlot(s)
                      \in Coordinator!Client
                 /\ SlotInv(s)'
      <3>1. /\ storedMac[s] \in Clients \cup {ZeroMac} /\ storedId[s] \in Byte
            /\ storedId[s] \in IdsBeside(storedMac[s])
        BY DEF TableInv, SlotInv
      <3>2. clients'[s] = Coordinator!LoadedSlot(s)
        BY <2>1
      <3> QED
        BY <2>1, <3>1, <3>2
        DEF Coordinator!LoadedSlot, Coordinator!EmptySlot,
            Coordinator!Client, Coordinator!Byte, Byte, Macs, Clients,
            SlotInv, IdsBeside
    <2>3. TableInv'
      BY <2>1, <2>2
      DEF TableInv, Slots, Coordinator!Slots, Coordinator!Client
    <2>4. StillStored
      BY <2>1 DEF StillStored, Stored, Coordinator!StoredMacs
    <2> QED BY <2>1, <2>3, <2>4, SentNone
  <1>3. CASE Coordinator!EnablePairing
                \/ Coordinator!DisablePairing
    <2>1. /\ UNCHANGED <<clients, storedMac, storedId, up, ownChannel>>
          /\ Coordinator!Silent
      BY <1>3
      DEF Coordinator!EnablePairing, Coordinator!DisablePairing,
          Coordinator!nvs
    <2>2. ownChannel \in OwnChannels
      BY DEF TableInv
    <2> QED BY <2>1, <2>2, SentNone, TableIdle
  <1> QED BY <1>1, <1>2, <1>3

(* What the requests that are answered name.                               *)
LEMMA AskedWith ==
    ASSUME NEW mac, NEW id, Asks(mac, id)
    PROVE  /\ mac \in Clients /\ mac # ZeroMac /\ mac # Broadcast
           /\ mac # Me => mac \notin {Me, Broadcast}
           /\ id \in Byte /\ id \in IdsBeside(mac)
  BY ProtocolAssumption DEF Asks, Clients, IdsBeside, Byte

(* handlePairingRequest keeps the table, and confirms whom it stored.      *)
LEMMA RequestKeeps ==
    ASSUME TableInv, NEW mac, NEW id,
           Asks(mac, id), Coordinator!HandlePairingRequest(mac, id)
    PROVE  TableInv' /\ StillStored /\ SendsHeard
  <1> DEFINE Answer(accept) == Coordinator!Confirm(accept, ownChannel)
  <1>1. up /\ UNCHANGED <<ownChannel, up>> /\ ownChannel \in OwnChannels
    BY DEF Coordinator!HandlePairingRequest, TableInv
  <1>2. /\ Answer(FALSE) \in Heard'
        /\ Me \in Stored' => Answer(TRUE) \in Heard'
    BY <1>1
    DEF Heard, Sendable, Unconfirmed, Confirm, Bytes, COORDINATOR,
        Coordinator!Confirm, Coordinator!Bytes, Coordinator!COORDINATOR
  <1>3. CASE Named(mac) /\ Coordinator!UpdatePaired(mac, id)
    <2> DEFINE s == Coordinator!First(
                        Coordinator!SlotsOf(mac))
    <2>1. /\ clients' = [clients EXCEPT ![s].deviceId = id]
          /\ UNCHANGED <<storedMac, storedId>>
          /\ Coordinator!Send(mac, Answer(TRUE))
      BY <1>3 DEF Coordinator!UpdatePaired, Coordinator!nvs
    <2>2. s \in Slots /\ clients[s].active /\ clients[s].mac = mac
      <3>1. Coordinator!SlotsOf(mac) \subseteq Slots
        BY DEF Coordinator!SlotsOf, Slots
      <3>2. s \in Coordinator!SlotsOf(mac)
        BY <1>3, <3>1, FirstHit DEF Named, Coordinator!IsPaired
      <3> QED BY <3>2 DEF Coordinator!SlotsOf, Slots
    <2>3. \A t \in Slots : /\ clients[t] \in Coordinator!Client
                           /\ SlotInv(t)
      BY DEF TableInv
    <2> HIDE DEF s
    <2>4. /\ clients' \in [Slots -> Coordinator!Client]
          /\ /\ clients'[s].mac = mac /\ clients'[s].active
             /\ clients'[s].deviceId = id
          /\ \A t \in Slots : t # s => clients'[t] = clients[t]
      BY <2>1, <2>2, <2>3, AskedWith
      DEF TableInv, Coordinator!Client, Coordinator!Byte, Byte
    <2>5. \A t \in Slots : SlotInv(t)'
      BY <1>1, <2>1, <2>2, <2>3, <2>4, AskedWith DEF SlotInv, IdsBeside
    <2>6. TableInv' /\ StillStored
      BY <1>1, <2>1, <2>4, <2>5
      DEF TableInv, Slots, Coordinator!Slots, Coordinator!Client,
          StillStored, Stored, Coordinator!StoredMacs
    <2>7. mac = Me => Me \in Stored
      BY <1>1, <2>2, <2>3, StoredSlot DEF SlotInv
    <2> QED BY <1>2, <2>1, <2>6, <2>7, AskedWith, SentOne DEF StillStored
  <1>4. CASE ~Named(mac) /\ Coordinator!StoreInSlot(mac, id)
    <2> DEFINE s == SlotFor(id)
    <2>1. /\ s # Coordinator!NoSlot
          /\ clients' = [clients EXCEPT
                 ![s] = [mac |-> mac, deviceId |-> id, active |-> TRUE]]
          /\ storedMac' = [storedMac EXCEPT ![s] = mac]
          /\ storedId' = [storedId EXCEPT ![s] = id]
          /\ Coordinator!Send(mac, Answer(TRUE))
      BY <1>4
      DEF Coordinator!StoreInSlot, Coordinator!PersistMac,
          Coordinator!PersistId, SlotFor
    <2>2. s \in Slots /\ storedMac[s] = ZeroMac
      BY <1>1, <1>4, <2>1, SlotForIsFree
    <2>3. /\ storedMac' \in [Slots -> Clients \cup {ZeroMac}]
          /\ StillStored
          /\ mac = Me => Me \in Stored'
      BY <2>1, <2>2, WriteKept
    <2>4. /\ storedId' \in [Slots -> Byte]
          /\ clients' \in [Slots -> Coordinator!Client]
      BY <2>1, <2>2, AskedWith
      DEF TableInv, Coordinator!Client, Coordinator!Byte, Byte, Macs, Clients
    <2>5. ASSUME NEW t \in Slots PROVE SlotInv(t)'
      <3>1. CASE t = s
        <4>1. /\ clients'[t] = [mac |-> mac, deviceId |-> id, active |-> TRUE]
              /\ storedMac'[t] = mac /\ storedId'[t] = id
          BY <2>1, <2>2, <3>1 DEF TableInv
        <4> QED BY <1>1, <4>1, AskedWith DEF SlotInv, IdsBeside
      <3>2. CASE t # s
        <4>1. /\ clients'[t] = clients[t]
              /\ storedMac'[t] = storedMac[t] /\ storedId'[t] = storedId[t]
          BY <2>1, <2>2, <3>2 DEF TableInv
        <4>2. SlotInv(t)
          BY DEF TableInv
        <4> QED BY <1>1, <4>1, <4>2 DEF SlotInv, IdsBeside
      <3> QED BY <3>1, <3>2
    <2>6. TableInv'
      BY <1>1, <2>3, <2>4, <2>5
      DEF TableInv, Slots, Coordinator!Slots, Coordinator!Client
    <2> QED BY <1>2, <2>1, <2>3, <2>6, AskedWith, SentOne
  <1>5. CASE Coordinator!Reject(mac, id)
    <2>1. /\ UNCHANGED <<clients, storedMac, storedId>>
          /\ Coordinator!Send(mac, Answer(FALSE))
      BY <1>5 DEF Coordinator!Reject, Coordinator!nvs
    <2> QED BY <1>1, <1>2, <2>1, SentOne, TableIdle
  <1> QED
    BY <1>3, <1>4, <1>5 DEF Coordinator!HandlePairingRequest, Named

(* A loss of power, also inside the store of a request.                    *)
LEMMA PowerLossKeeps ==
    ASSUME TableInv,
           \/ Coordinator!PowerLoss
           \/ Coordinator!PowerLossInStore(Me, DeviceId)
    PROVE  TableInv' /\ StillStored /\ SendsHeard
  <1>1. /\ Coordinator!VolatileReset /\ UNCHANGED ownChannel /\ up
        /\ \A s \in Slots : storedId[s] \in IdsBeside(storedMac[s])
    BY DEF Coordinator!PowerLoss, Coordinator!PowerLossInStore, TableInv,
       SlotInv
  <1>2. CASE Coordinator!PowerLoss
    <2>1. UNCHANGED <<storedMac, storedId>>
      BY <1>2 DEF Coordinator!PowerLoss, Coordinator!nvs
    <2>2. StillStored
      BY <2>1 DEF StillStored, Stored, Coordinator!StoredMacs
    <2>3. /\ storedMac' \in [Slots -> Clients \cup {ZeroMac}]
          /\ storedId' \in [Slots -> Byte]
          /\ \A s \in Slots : storedId'[s] \in IdsBeside(storedMac'[s])
      BY <1>1, <2>1 DEF TableInv
    <2> QED BY <1>1, <2>2, <2>3, TableReset
  <1>3. CASE Coordinator!PowerLossInStore(Me, DeviceId)
    <2> DEFINE s == SlotFor(DeviceId)
    <2>1. /\ ~Named(Me) /\ s # Coordinator!NoSlot
          /\ storedMac' = [storedMac EXCEPT ![s] = Me]
          /\ storedId' \in {[storedId EXCEPT ![s] = DeviceId], storedId}
      BY <1>3
      DEF Coordinator!PowerLossInStore, Named, SlotFor,
          Coordinator!PersistMac, Coordinator!PersistId
    <2>2. Asks(Me, DeviceId)
      BY DEF Asks
    <2>3. s \in Slots /\ storedMac[s] = ZeroMac /\ storedId[s] = 0
      BY <1>1, <2>1, <2>2, SlotForIsFree
    <2>4. storedMac' \in [Slots -> Clients \cup {ZeroMac}] /\ StillStored
      BY <2>1, <2>2, <2>3, WriteKept
    <2>5. storedId' \in [Slots -> Byte]
      BY <2>1, <2>2, AskedWith DEF TableInv
    <2>6. \A t \in Slots : storedId'[t] \in IdsBeside(storedMac'[t])
      BY <1>1, <2>1, <2>3 DEF TableInv, IdsBeside
    <2> QED BY <1>1, <2>4, <2>5, <2>6, TableReset
  <1> QED BY <1>2, <1>3

-----------------------------------------------------------------------------
(***************************************************************************)
(* the frames in flight, and what they made of the client.*)
(***************************************************************************)
Requests == {Request(DeviceId)}

(* Only this client's requests are queued for the coordinator, and what    *)
(* the client hears was true when sent and still is.                       *)
FlightInv ==
    /\ toCoord \in Seq(Requests)
    /\ toClient \in Seq(Heard)
    /\ pairedBy = "confirm" => Me \in Stored

(* The radio's queues hold what was sent.                                  *)
LEMMA Carried ==
    ASSUME NEW F, NEW q \in Seq(F), NEW frames, \A o \in frames : o.frame \in F
    PROVE  Carry(q, frames) \in Seq(F)
  <1>1. CASE frames = {}
    BY <1>1 DEF Carry
  <1>2. CASE frames # {}
    <2> DEFINE o == CHOOSE x \in frames : TRUE
    <2>1. o \in frames
      BY <1>2
    <2> HIDE DEF o
    <2>2. o.frame \in F /\ Append(q, o.frame) \in Seq(F)
      BY <2>1
    <2>3. Carry(q, frames) \in {q, Append(q, o.frame)}
      BY Zenon DEF Carry, o
    <2> QED BY <2>2, <2>3
  <1> QED BY <1>1, <1>2

(* What is taken from them is what was sent.                               *)
LEMMA Popped ==
    ASSUME NEW F, NEW q \in Seq(F), q # <<>>
    PROVE  Head(q) \in F /\ Tail(q) \in Seq(F)
  OBVIOUS

(* A queue of what could be heard before is one of what can be heard now.  *)
LEMMA HeardGrows ==
    ASSUME StillStored, NEW q \in Seq(Heard) PROVE q \in Seq(Heard')
  <1>1. Heard \subseteq Heard'
    BY DEF Heard, Sendable, Unconfirmed, StillStored, Beacon, Confirm
  <1> QED BY <1>1

(* A coordinator that keeps the table, and sends what may be heard.        *)
LEMMA SendingKeeps ==
    ASSUME FlightInv, StillStored, SendsHeard,
           CoordinatorSends(toClient), toCoord' \in Seq(Requests)
    PROVE  FlightInv'
  <1>1. toClient \in Seq(Heard')
    BY HeardGrows DEF FlightInv
  <1>2. Carry(toClient, ToMe(out')) \in Seq(Heard')
    BY <1>1, Carried DEF SendsHeard
  <1>3. /\ toClient' = Carry(toClient, ToMe(out'))
        /\ UNCHANGED pairedBy
    BY DEF CoordinatorSends
  <1> QED BY <1>2, <1>3 DEF FlightInv, StillStored

(* What a request asks for.                                                *)
LEMMA RequestReads ==
    ASSUME NEW f \in Requests
    PROVE  /\ RequestDeviceId(f) = DeviceId
           /\ \A mac : Coordinator!HandleReceived(mac, f)
                => Coordinator!HandlePairingRequest(mac, DeviceId)
  BY DEF Requests, Request, Bytes, CLIENT, RequestDeviceId,
     Coordinator!HandleReceived, Coordinator!IsReconnect,
     Coordinator!RequestDeviceId

(* The coordinator's steps.                                                *)
LEMMA CoordinatorKeeps ==
    ASSUME TableInv, FlightInv,
           \/ CoordinatorLoop \/ CoordinatorApp
           \/ CoordinatorReceives \/ OtherRequests
           \/ CoordinatorFails
    PROVE  TableInv' /\ FlightInv'
  <1>1. toCoord \in Seq(Requests) /\ <<>> \in Seq(Requests)
    BY DEF FlightInv
  <1>2. toCoord # <<>> => /\ Head(toCoord) \in Requests
                          /\ Tail(toCoord) \in Seq(Requests)
    BY <1>1, Popped
  <1>3. CASE CoordinatorLoop \/ CoordinatorApp
    BY <1>1, <1>3, MainTaskKeeps, SendingKeeps
    DEF CoordinatorLoop, CoordinatorApp
  <1>4. CASE CoordinatorReceives
    <2>1. Coordinator!HandlePairingRequest(Me, DeviceId)
      BY <1>2, <1>4, RequestReads DEF CoordinatorReceives
    <2>2. TableInv' /\ StillStored /\ SendsHeard
      BY <2>1, RequestKeeps DEF Asks
    <2> QED
      BY <1>2, <1>4, <2>2, SendingKeeps DEF CoordinatorReceives
  <1>5. CASE OtherRequests
    <2>1. Coordinator!HandlePairingRequest(Other, OtherDevice)
      BY <1>5
      DEF OtherRequests, Request, Bytes, CLIENT, Coordinator!HandleReceived,
          Coordinator!IsReconnect, Coordinator!RequestDeviceId
    <2>2. TableInv' /\ StillStored /\ SendsHeard
      BY <2>1, RequestKeeps DEF Asks
    <2> QED BY <1>1, <1>5, <2>2, SendingKeeps DEF OtherRequests
  <1>6. CASE CoordinatorFails
    <2>1. \/ Coordinator!PowerLoss
          \/ Coordinator!PowerLossInStore(Me, DeviceId)
      BY <1>2, <1>6, RequestReads DEF CoordinatorFails
    <2>2. TableInv' /\ StillStored /\ SendsHeard
      BY <2>1, PowerLossKeeps
    <2> QED BY <1>1, <1>6, <2>2, SendingKeeps DEF CoordinatorFails
  <1> QED BY <1>3, <1>4, <1>5, <1>6

(* The frame that a client is paired by says which of the two it is: an    *)
(* accepted confirmation of a client that is stored, with the channel, or  *)
(* a beacon, without.                                                      *)
LEMMA PairingFrame ==
    ASSUME NEW f \in Heard,
           KindOf(f) = "confirm", Client!ConfirmAccepted(f)
    PROVE  Me \in Stored
  BY DEF Heard, Sendable, Unconfirmed, KindOf, ConfirmChannel, Beacon,
     Confirm, Bytes, Client!ConfirmAccepted

(* Only a frame that reads as an acceptance makes a client PAIRED.         *)
LEMMA PairedBy ==
    ASSUME NEW f, Client!HandleReceived(Coord, f),
           cstate # "PAIRED", cstate' = "PAIRED"
    PROVE  Client!ConfirmAccepted(f)
  BY DEF Client!HandleReceived, Client!HandleBeacon, Client!HandleConfirm,
     Client!ScanFromStart

(* What the client sends is its request.                                   *)
LEMMA ClientSent ==
    ASSUME ClientLoop \/ ClientApp
             \/ ClientReceives \/ ClientFails
    PROVE  \A o \in cout' : o.frame \in Requests
  <1>1. CASE ClientReceives
    <2>1. Client!Request(DeviceId) \in Requests
      BY DEF Requests, Request, Bytes, CLIENT, Client!Request, Client!Bytes,
         Client!CLIENT
    <2> QED
      BY <1>1, <2>1
      DEF ClientReceives, Client!HandleReceived, Client!HandleBeacon,
          Client!HandleConfirm, Client!Quiet
  <1>2. ASSUME ~ClientReceives PROVE Client!Quiet
    BY <1>2
    DEF ClientLoop, Client!MainTask, Client!LoopCall, Client!Dispatch,
        Client!Advance, Client!Restart, ClientApp, Client!Boot,
        Client!StartScanning, Client!StopScanning, Client!ClearPairing,
        ClientFails, Client!PowerLoss, Client!PowerLossInClear,
        Client!PowerLossInStore, Client!VolatileReset
  <1> QED BY <1>1, <1>2 DEF Client!Quiet

(* The client's steps.                                                     *)
LEMMA ClientKeeps ==
    ASSUME TableInv, FlightInv,
           \/ ClientLoop \/ ClientApp
           \/ ClientReceives \/ ClientFails
    PROVE  TableInv' /\ FlightInv'
  <1>1. ClientSends
    BY DEF ClientLoop, ClientApp, ClientReceives, ClientFails
  <1>2. UNCHANGED <<ownChannel, up, clients, storedMac, storedId>>
    BY <1>1 DEF ClientSends, coordState
  <1>3. TableInv'
    BY <1>2, TableIdle DEF TableInv
  <1>4. toCoord' \in Seq(Requests)
    BY <1>1, ClientSent, Carried DEF ClientSends, FlightInv
  <1>5. Heard' = Heard /\ (Me \in Stored' <=> Me \in Stored)
    BY <1>2 DEF Heard, Stored, Coordinator!StoredMacs
  <1>6. toClient # <<>> => /\ Head(toClient) \in Heard
                           /\ Tail(toClient) \in Seq(Heard)
    BY Popped DEF FlightInv
  <1>7. toClient' \in Seq(Heard)
    <2>1. <<>> \in Seq(Heard)
      OBVIOUS
    <2> QED
      BY <1>6, <2>1
      DEF FlightInv, ClientLoop, ClientApp, ClientReceives, ClientFails
  <1>8. pairedBy' = "confirm" => Me \in Stored
    <2>1. CASE ClientReceives
      BY <1>6, <2>1, PairingFrame, PairedBy DEF ClientReceives, FlightInv
    <2>2. CASE ClientFails
      BY <1>6, <2>2, PairingFrame
      DEF ClientFails, Client!PowerLossInStore, FlightInv
    <2>3. CASE UNCHANGED pairedBy
      BY <2>3 DEF FlightInv
    <2> QED BY <2>1, <2>2, <2>3 DEF ClientLoop, ClientApp
  <1> QED BY <1>3, <1>4, <1>5, <1>7, <1>8 DEF FlightInv

(* Every step keeps the table and the frames in flight.                    *)
LEMMA HandshakeKept ==
    ASSUME TableInv, FlightInv,
           [Next]_vars
    PROVE  TableInv' /\ FlightInv'
  <1>1. CASE Lose \/ Tick \/ UNCHANGED vars
    <2>1. UNCHANGED <<ownChannel, up, clients, storedMac, storedId, pairedBy>>
      BY <1>1
      DEF Lose, Tick, vars, coordState, Coordinator!Tick, Coordinator!nvs
    <2>2. TableInv'
      BY <2>1, TableIdle DEF TableInv
    <2>3. Heard' = Heard /\ (Me \in Stored' <=> Me \in Stored)
      BY <2>1 DEF Heard, Stored, Coordinator!StoredMacs
    <2>4. toClient' \in Seq(Heard) /\ toCoord' \in Seq(Requests)
      BY <1>1, Popped DEF FlightInv, Lose, Tick, vars
    <2> QED BY <2>1, <2>2, <2>3, <2>4 DEF FlightInv
  <1> QED BY <1>1, ClientKeeps, CoordinatorKeeps DEF Next

(* Nothing is stored and nothing in flight at first.                       *)
LEMMA HandshakeInit ==
    ASSUME Init
    PROVE  TableInv /\ FlightInv
  <1>1. /\ ownChannel \in OwnChannels
        /\ clients = [s \in Slots |-> Coordinator!EmptySlot]
        /\ storedMac = [s \in Slots |-> ZeroMac]
        /\ storedId = [s \in Slots |-> 0] /\ ~up
        /\ toClient = <<>> /\ toCoord = <<>> /\ pairedBy = "none"
    BY DEF Init, Coordinator!Init, Slots
  <1>2. Coordinator!EmptySlot \in Coordinator!Client
    BY DEF Coordinator!EmptySlot, Coordinator!Client, Coordinator!Byte
  <1>3. \A s \in Slots : SlotInv(s)
    BY <1>1, ProtocolAssumption
    DEF SlotInv, IdsBeside, Coordinator!EmptySlot, Clients
  <1>4. <<>> \in Seq(Heard) /\ <<>> \in Seq(Requests)
    OBVIOUS
  <1> QED BY <1>1, <1>2, <1>3, <1>4 DEF TableInv, FlightInv, Byte

(* In every behaviour.                                                     *)
LEMMA HandshakeInvariant ==
    Spec => [](TableInv /\ FlightInv)
  BY HandshakeInit, HandshakeKept, PTL DEF Spec

(* pairing_beacon.h:56, pairing_coordinator.cpp:162: a client that a       *)
(* confirmation made PAIRED is stored by the coordinator, whatever frames  *)
(* are lost and whoever restarts.                                          *)
THEOREM ConfirmedIsStored ==
    Spec => []ConfirmedAgreement
<1>1. FlightInv => ConfirmedAgreement
  BY DEF FlightInv, Stored, ConfirmedAgreement
<1> QED BY <1>1, HandshakeInvariant, PTL

-----------------------------------------------------------------------------
(***************************************************************************)
(* The channel of a paired client.                                         *)
(***************************************************************************)

(* A restart tunes a client to the channel that it restores.               *)
LEMMA ClientBootTunes ==
    ASSUME Client!Boot,
           cstate' = "PAIRED"
    PROVE  radio' = pairedChannel'
  <1> USE ProtocolAssumption DEF Byte
  <1>1. Client!FirstChannel \in Client!Channels
    BY DEF Client!FirstChannel, Client!Channels, Client!Listed
  <1>2. Client!RestoredChannel \in Client!Channels
    BY <1>1 DEF Client!RestoredChannel, Client!UsableChannel
  <1> QED
    BY <1>2 DEF Client!Boot, Client!SetChannel, Client!ScanFromStart

(* A frame that pairs names a channel that the radio can be tuned to, or   *)
(* none.                                                                   *)
LEMMA HeardChannels ==
    ASSUME NEW f \in Heard
    PROVE  Client!ConfirmChannel(f)
             \in Client!Channels \cup {0}
  BY ProtocolAssumption
  DEF Heard, Sendable, Unconfirmed, Beacon, Confirm, Bytes,
      Client!ConfirmChannel, Client!Channels

(* Every step of the client keeps it tuned, unless a frame paired it in    *)
(* the middle of the loop call.                                            *)
TunedUnlessRaced ==
    (cstate = "PAIRED" /\ pairedChannel # 0 /\ ~raced) => radio = pairedChannel

LEMMA PairedTunedKept ==
    ASSUME LoopInv, FlightInv, TunedUnlessRaced, [Next]_vars
    PROVE  TunedUnlessRaced'
  <1> USE DEF TunedUnlessRaced
  <1>1. CASE ClientLoop
    <2>1. UNCHANGED radio \/ Committed
      BY <1>1
      DEF ClientLoop, Client!MainTask, Client!LoopCall, Client!Dispatch,
          Client!Advance, Client!Restart, Committed
    <2>2. cstate' = "PAIRED" => cstate = "PAIRED" /\ UNCHANGED pairedChannel
      BY <1>1
      DEF ClientLoop, Client!MainTask, Client!LoopCall, Client!Dispatch,
          Client!Advance, Client!Restart, Client!ScanFromStart, Client!peer
    <2> QED BY <1>1, <2>1, <2>2, MarkKept DEF LoopInv
  <1>2. CASE ClientApp
    <2>1. CASE Client!Boot
      BY <2>1, ClientBootTunes
    <2>2. CASE ~Client!Boot
      BY <1>2, <2>2
      DEF ClientApp, Client!StartScanning, Client!ScanFromStart,
          Client!StopScanning, Client!ClearPairing
    <2> QED BY <2>1, <2>2
  <1>3. CASE ClientReceives
    <2> DEFINE f == Head(toClient)
    <2>1. Client!ConfirmChannel(f)
            \in Client!Channels \cup {0}
      BY <1>3, Popped, HeardChannels DEF FlightInv, ClientReceives
    <2>2. Client!HandleReceived(Coord, f)
      BY <1>3 DEF ClientReceives
    <2> HIDE DEF f
    <2>3. CASE cstate = "PAIRED"
      <3>1. UNCHANGED <<cstate, pairedChannel, radio>>
        BY <2>2, <2>3
        DEF Client!HandleReceived, Client!HandleBeacon, Client!HandleConfirm,
            Client!peer
      <3> QED BY <1>3, <2>3, <3>1, MarkKept
    <2>4. CASE cstate # "PAIRED"
      BY <2>1, <2>2, <2>4
      DEF Client!HandleReceived, Client!HandleBeacon, Client!HandleConfirm,
          Client!ScanFromStart, Client!SetChannel
    <2> QED BY <2>3, <2>4
  <1>4. CASE ClientFails
    BY <1>4
    DEF ClientFails, Client!PowerLoss, Client!PowerLossInClear,
        Client!PowerLossInStore, Client!VolatileReset
  <1>5. CASE UNCHANGED <<clientState, raced>>
    BY <1>5 DEF clientState
  <1> QED
    BY <1>1, <1>2, <1>3, <1>4, <1>5, ClientIdle DEF Next

(* pairing_client.cpp:270: whether the callback is queued to the main task *)
(* or preempts it, a PAIRED client listens on the channel of its pairing,  *)
(* if it was told one, or was paired in a loop call that moved the radio   *)
(* on, and has that channel in NVS.                                        *)
THEOREM PairedIsTuned ==
    Spec => []PairedTuned
<1>1. Init => TunedUnlessRaced
  BY DEF Init, Client!Init, TunedUnlessRaced
<1>2. LoopInv /\ TunedUnlessRaced => PairedTuned
  BY DEF LoopInv, TunedUnlessRaced, PairedTuned
<1> QED
  BY <1>1, <1>2, LoopInvariant, HandshakeInvariant, PairedTunedKept, PTL
  DEF Spec
=============================================================================
