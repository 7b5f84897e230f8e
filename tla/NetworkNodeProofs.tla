-------------------------- MODULE NetworkNodeProofs --------------------------
(***************************************************************************)
(* The transport of a node is what it says it is, and the credentials it   *)
(* loads are whole, for all configurations, peers and networks.            *)
(***************************************************************************)
EXTENDS NetworkNode, TLAPS

(***************************************************************************)
(* The transport is up only on a radio that came up, so the one call that  *)
(* takes the driver down finds no transport; and one that is not up has no *)
(* peers, in ESP-NOW or on its record.                                     *)
(***************************************************************************)
TransportInv ==
    /\ initialized_ => ready
    /\ ~initialized_ => peers = {} /\ added = {}
    /\ TransportHonest

USE DEF store, radio, transport, dns, ntp, station

(* The initial states have no transport.                                   *)
LEMMA TransportInvInit == Init => TransportInv
BY DEF Init, TransportInv, TransportHonest, Transport!TransportHonest,
       Transport!TransportInit, Transport!EspNowDown, Transport!EspNowUp,
       Radio!RadioInit

(* Every call of the application and every event keeps the invariant.      *)
LEMMA TransportInvStep == TransportInv /\ [Next]_vars => TransportInv'
<1> SUFFICES ASSUME TransportInv, [Next]_vars PROVE TransportInv'
  OBVIOUS
<1> USE DEF TransportInv, TransportHonest, Transport!TransportHonest
<1>1. CASE UNCHANGED <<initialized_, espnow, peers, added, ready>>
  BY <1>1
<1>2. CASE BringUpRadio
  <2>1. ~initialized_
    BY <1>2 DEF BringUpRadio, Radio!ApInit, Radio!StaInit, Radio!MustBringUp
  <2>2. /\ espnow' = Transport!EspNowDown /\ peers' = {}
        /\ initialized_' = initialized_ /\ added' = added
    BY <1>2 DEF BringUpRadio, Transport!WifiGone
  <2> QED  BY <2>1, <2>2
<1>3. CASE UseTransport
  <2>1. ready /\ ready' = ready
    BY <1>3 DEF UseTransport
  <2>2. ASSUME NEW fails, Transport!InitTransport(fails) PROVE TransportInv'
    BY <2>1, <2>2 DEF Transport!InitTransport, Transport!AfterFailure,
                      Transport!EspNowDown, Transport!EspNowUp
  <2>3. ASSUME Transport!Destroy PROVE TransportInv'
    BY <2>3 DEF Transport!Destroy
  <2>4. ASSUME NEW mac, NEW c, Transport!AddPeer(mac, c) PROVE TransportInv'
    BY <2>1, <2>4 DEF Transport!AddPeer, Transport!Entered
  <2>5. ASSUME NEW mac, Transport!RemovePeer(mac) PROVE TransportInv'
    BY <2>1, <2>5 DEF Transport!RemovePeer, Transport!hasPeer
  <2> QED  BY <1>3, <2>2, <2>3, <2>4, <2>5 DEF UseTransport
<1>4. CASE Restart
  BY <1>4 DEF Restart, Transport!TransportRestart
<1>5. CASE \/ Credentials \/ Connect \/ Disconnect \/ StartRefresh
           \/ ContinueRefresh \/ StartTime \/ StopTime
  BY <1>1, <1>5 DEF Credentials, Connect, Disconnect, StartRefresh,
                    ContinueRefresh, StartTime, StopTime
<1>6. CASE \/ \E n \in Networks : \E offer \in Offers[n] :
                 GetsAddress(n, offer) \/ RenewsLease(offer)
           \/ LosesAddress \/ ClearsResolver \/ SntpPoll
  BY <1>1, <1>6 DEF GetsAddress, RenewsLease, LosesAddress, ClearsResolver,
                    SntpPoll
<1>7. CASE UNCHANGED vars
  BY <1>1, <1>7 DEF vars
<1> QED  BY <1>2, <1>3, <1>4, <1>5, <1>6, <1>7 DEF Next, Application, Environment

(* esp_now_transport.cpp, wifi_ap.cpp: initialized_ says whether ESP-NOW is*)
(* up with both callbacks and the accepted peers, for every set of peers,  *)
(* every limit of them and whatever calls fail.                            *)
THEOREM TransportIsHonest == Spec => []TransportHonest
<1>1. TransportInv => TransportHonest
  BY DEF TransportInv
<1> QED
  BY TransportInvInit, TransportInvStep, <1>1, PTL DEF Spec
-----------------------------------------------------------------------------
(***************************************************************************)
(* What a load would return is always a configuration it may return.       *)
(***************************************************************************)
StoreInv == Store!Loaded \in expected

(* An empty namespace gives the defaults.                                  *)
LEMMA StoreInvInit == Init => StoreInv
BY DEF Init, StoreInv, Store!StoreInit, Store!Loaded, Store!NoBlob

(* What an interrupted write leaves is read as the old configuration, the  *)
(* new one or the defaults.                                                *)
LEMMA TornIsHarmless ==
    ASSUME StoreInv, NEW c \in Configs, blob' \in Store!Torn(c),
           expected' = expected \cup {c, Store!Default}
    PROVE  StoreInv'
<1>1. CASE blob' = blob
  BY <1>1 DEF StoreInv, Store!Loaded
<1>2. CASE blob' = Store!Blob(c)
  BY <1>2 DEF StoreInv, Store!Loaded, Store!Blob
<1>3. CASE blob' = [Store!Blob(c) EXCEPT !.size = 2]
  BY <1>3 DEF StoreInv, Store!Loaded, Store!Blob
<1>4. CASE blob' = [Store!Blob(c) EXCEPT !.config = Store!Mixed]
  BY <1>4, NodeAssumption DEF StoreInv, Store!Loaded, Store!Blob
<1> QED  BY <1>1, <1>2, <1>3, <1>4 DEF Store!Torn

(* The invariant holds from step to step, and makes every load a good one. *)
LEMMA StoreStep ==
    StoreInv /\ [Next]_vars =>
        /\ StoreInv'
        /\ config' # config =>
              config' \in expected \cup {Store!Unread, Store!Unopened}
<1> DEFINE Good == config' # config =>
                      config' \in expected \cup {Store!Unread, Store!Unopened}
<1> SUFFICES ASSUME StoreInv, [Next]_vars PROVE StoreInv' /\ Good
  OBVIOUS
<1>1. CASE UNCHANGED <<blob, config, expected>>
  BY <1>1 DEF StoreInv, Store!Loaded
<1>2. CASE Credentials
  <2>1. ASSUME Store!Load PROVE StoreInv' /\ Good
    BY <2>1 DEF Store!Load, StoreInv, Store!Loaded
  <2>2. ASSUME NEW c \in Configs, Store!Save(c) PROVE StoreInv' /\ Good
    BY <2>2 DEF Store!Save, StoreInv, Store!Loaded, Store!Blob
  <2>3. ASSUME NEW c \in Configs, Store!SaveFails(c) PROVE StoreInv' /\ Good
    BY <2>3, TornIsHarmless DEF Store!SaveFails
  <2>4. ASSUME Store!Clear PROVE StoreInv' /\ Good
    BY <2>4 DEF Store!Clear, StoreInv, Store!Loaded, Store!NoBlob
  <2> QED  BY <1>2, <2>1, <2>2, <2>3, <2>4 DEF Credentials
<1>3. CASE Restart
  <2>1. ASSUME Store!StoreRestart PROVE StoreInv' /\ Good
    BY <2>1 DEF Store!StoreRestart, StoreInv, Store!Loaded
  <2>2. ASSUME NEW c \in Configs, Store!SaveInterrupted(c)
        PROVE  StoreInv' /\ Good
    BY <2>2, TornIsHarmless DEF Store!SaveInterrupted
  <2> QED  BY <1>3, <2>1, <2>2 DEF Restart
<1>4. CASE \/ BringUpRadio \/ UseTransport \/ Connect \/ Disconnect
           \/ StartRefresh \/ ContinueRefresh \/ StartTime \/ StopTime
  BY <1>1, <1>4 DEF BringUpRadio, UseTransport, Connect, Disconnect,
                    StartRefresh, ContinueRefresh, StartTime, StopTime
<1>5. CASE \/ \E n \in Networks : \E offer \in Offers[n] :
                 GetsAddress(n, offer) \/ RenewsLease(offer)
           \/ LosesAddress \/ ClearsResolver \/ SntpPoll
  BY <1>1, <1>5 DEF GetsAddress, RenewsLease, LosesAddress, ClearsResolver,
                    SntpPoll
<1>6. CASE UNCHANGED vars
  BY <1>1, <1>6 DEF vars
<1> QED  BY <1>2, <1>3, <1>4, <1>5, <1>6 DEF Next, Application, Environment

(* wifi_config.cpp: no load returns the bytes of a blob that was cut short *)
(* or mixed, for every set of configurations and any number of failed and  *)
(* interrupted writes.                                                     *)
THEOREM ConfigIsWhole == Spec => ConfigWhole
<1>1. StoreInv /\ [Next]_vars =>
        [config' # config =>
            config' \in expected \cup {Store!Unread, Store!Unopened}]_(Store!storeVars)
  BY StoreStep DEF Store!storeVars
<1>2. StoreInv /\ [Next]_vars => StoreInv'
  BY StoreStep
<1> QED
  BY StoreInvInit, <1>1, <1>2, PTL DEF Spec, ConfigWhole, Store!ConfigWhole
=============================================================================
