--------------------------- MODULE EspNowTransport ---------------------------
(***************************************************************************)
(* src/comm/esp_now_transport.cpp: the transport's life and its peers.     *)
(* What it sends and receives is in the modules of the pairing.            *)
(***************************************************************************)
EXTENDS Integers, FiniteSets

CONSTANTS
    Peers,              \* addresses of other devices
    PeerChannels,       \* channels they are added on
    PeerMax             \* ESP-NOW's limit of peers

VARIABLES
    initialized_,
    espnow,             \* ESP-NOW: up or not, and the callbacks it has
    peers,              \* ESP-NOW's list: <<address, channel>>
    added               \* history: the list as addPeer and removePeer reported

transportVars == <<initialized_, espnow, peers, added>>

EspNowDown == [up |-> FALSE, recv |-> FALSE, send |-> FALSE]
EspNowUp   == [up |-> TRUE, recv |-> TRUE, send |-> TRUE]

TransportTypeOK ==
    /\ initialized_ \in BOOLEAN
    /\ espnow \in [up : BOOLEAN, recv : BOOLEAN, send : BOOLEAN]
    /\ peers \in SUBSET (Peers \X PeerChannels)
    /\ added \in SUBSET (Peers \X PeerChannels)

TransportInit ==
    initialized_ = FALSE /\ espnow = EspNowDown /\ peers = {} /\ added = {}

(* Mutant of AfterFailure: what init() started is left when the second    *)
(* callback is refused.                                                    *)
AfterFailureLeft(fails) ==
    IF fails = "register_send_cb" THEN [EspNowUp EXCEPT !.send = FALSE]
                                  ELSE EspNowDown

(* The address cannot be read, ESP-NOW does not start, or a callback is    *)
(* refused: init() undoes what it did.                                     *)
AfterFailure(fails) == EspNowDown

InitTransport(fails) ==
    /\ ~initialized_ /\ ~espnow.up
    /\ fails \in {"get_mac", "init", "register_recv_cb", "register_send_cb",
                  "nothing"}
    /\ initialized_' = (fails = "nothing")
    /\ espnow' = IF fails = "nothing" THEN EspNowUp ELSE AfterFailure(fails)
    /\ UNCHANGED <<peers, added>>

(* esp_now_deinit() forgets the peers.                                     *)
Destroy ==
    /\ initialized_ /\ initialized_' = FALSE
    /\ espnow' = EspNowDown /\ peers' = {} /\ added' = {}

WithoutPeer(list, mac) == {p \in list : p[1] # mac}
IsPeer(mac) == \E p \in peers : p[1] = mac

hasPeer(mac) == initialized_ /\ IsPeer(mac)

(* Mutant of Entered: a peer ESP-NOW has is not changed.                   *)
EnteredNew(mac, c) == IF IsPeer(mac) THEN peers ELSE peers \cup {<<mac, c>>}

(* A peer that exists is moved to the channel, another one entered.        *)
Entered(mac, c) == WithoutPeer(peers, mac) \cup {<<mac, c>>}

(* addPeer, which changes nothing for a peer on its channel; ESP-NOW may   *)
(* refuse, and does when its list is full.                                 *)
AddPeer(mac, c) ==
    /\ initialized_ /\ <<mac, c>> \notin peers
    /\ espnow.up /\ (IsPeer(mac) \/ Cardinality(peers) < PeerMax)
    /\ peers' = Entered(mac, c)
    /\ added' = WithoutPeer(added, mac) \cup {<<mac, c>>}
    /\ UNCHANGED <<initialized_, espnow>>

RemovePeer(mac) ==
    /\ hasPeer(mac)
    /\ peers' = WithoutPeer(peers, mac)
    /\ added' = WithoutPeer(added, mac)
    /\ UNCHANGED <<initialized_, espnow>>

(* esp_wifi_deinit() takes ESP-NOW with it; the transport is not told.     *)
WifiGone ==
    /\ espnow' = EspNowDown /\ peers' = {}
    /\ UNCHANGED <<initialized_, added>>

TransportRestart ==
    /\ initialized_' = FALSE
    /\ espnow' = EspNowDown /\ peers' = {} /\ added' = {}

(* The transport says it is initialised exactly while ESP-NOW is up with   *)
(* both callbacks, and then ESP-NOW has the peers that addPeer accepted,   *)
(* on the channels they were added on last: no failed init() leaves        *)
(* ESP-NOW up, and no later call for the radio takes it away unnoticed.    *)
TransportHonest ==
    /\ initialized_ => espnow = EspNowUp /\ peers = added
    /\ ~initialized_ => espnow = EspNowDown
=============================================================================
