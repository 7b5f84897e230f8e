----------------------------- MODULE NetworkNode -----------------------------
(***************************************************************************)
(* A node from its start to the time of day: the stored credentials        *)
(* (WifiConfigStore), the radio (WifiRadio), the ESP-NOW transport on it   *)
(* (EspNowTransport), the station's name servers (StaDns) and the clock    *)
(* (NtpClient).                                                            *)
(*                                                                         *)
(* The application's task makes the calls, in any order the headers allow: *)
(* the radio first, the transport on a radio that came up, ntp_init with   *)
(* the station connected.  sta_connect and the reconnections are module    *)
(* WifiSta; here they are the network that is wanted and the addresses got.*)
(***************************************************************************)
EXTENDS Integers, FiniteSets

CONSTANTS
    Configs, Peers, PeerChannels, PeerMax, Servers, Fallback,
    Networks,           \* places with a router the station can be at
    Offers,             \* the name servers each network's DHCP may offer
    Reachable           \* the name servers that answer from each network

VARIABLES
    blob, config, expected,
    role, netif, driver, ready,
    initialized_, espnow, peers, added,
    lease, cached, resolver, refresh,
    s_initialised, sntp, clock,
    wanted,             \* sta_connect was called, and not sta_disconnect
    link,               \* the network the station has an address in, or none
    timeWanted          \* history: ntp_init was called, and not ntp_stop

Store     == INSTANCE WifiConfigStore
Radio     == INSTANCE WifiRadio
Transport == INSTANCE EspNowTransport
Dns       == INSTANCE StaDns
Ntp       == INSTANCE NtpClient

ASSUME NodeAssumption ==
    /\ Store!Mixed \notin Configs
    /\ \A n \in Networks : Offers[n] \subseteq Dns!Pair

store     == <<blob, config, expected>>
radio     == <<role, netif, driver, ready>>
transport == <<initialized_, espnow, peers, added>>
dns       == <<lease, cached, resolver, refresh>>
ntp       == <<s_initialised, sntp, clock>>
station   == <<wanted, link>>
vars      == <<store, radio, transport, dns, ntp, station, timeWanted>>

Offline == "no network"

TypeOK ==
    /\ Store!StoreTypeOK /\ Radio!RadioTypeOK /\ Transport!TransportTypeOK
    /\ Dns!DnsTypeOK /\ Ntp!NtpTypeOK
    /\ wanted \in BOOLEAN /\ link \in Networks \cup {Offline}
    /\ timeWanted \in BOOLEAN

Init ==
    /\ Store!StoreInit /\ Radio!RadioInit /\ Transport!TransportInit
    /\ Dns!DnsInit /\ Ntp!NtpInit
    /\ wanted = FALSE /\ link = Offline /\ timeWanted = FALSE

AppIdle == refresh.at = "idle"
Online  == link # Offline
-----------------------------------------------------------------------------
(***************************************************************************)
(* The calls of the application.                                           *)
(***************************************************************************)
Credentials ==
    /\ AppIdle
    /\ \/ Store!Load
       \/ \E c \in Configs : Store!Save(c) \/ Store!SaveFails(c)
       \/ Store!Clear
    /\ UNCHANGED <<radio, transport, dns, ntp, station, timeWanted>>

(* What stops the driver takes ESP-NOW and the link with it.               *)
BringUpRadio ==
    /\ AppIdle
    /\ \/ \E fails \in Radio!ApSteps : Radio!ApInit(fails)
       \/ \E fails \in Radio!StaSteps : Radio!StaInit(fails)
    /\ Transport!WifiGone
    /\ Dns!AddressLost
    /\ link' = Offline
    /\ UNCHANGED <<store, ntp, wanted, timeWanted>>

UseTransport ==
    /\ AppIdle /\ ready
    /\ \/ \E fails \in {"get_mac", "init", "register_recv_cb",
                        "register_send_cb", "nothing"} :
             Transport!InitTransport(fails)
       \/ Transport!Destroy
       \/ \E mac \in Peers : \/ \E c \in PeerChannels : Transport!AddPeer(mac, c)
                             \/ Transport!RemovePeer(mac)
    /\ UNCHANGED <<store, radio, dns, ntp, station, timeWanted>>

(* sta_connect with the configuration that was loaded; it refuses one that *)
(* names no network.                                                       *)
Connect ==
    /\ AppIdle /\ ready /\ config \in Configs /\ ~wanted
    /\ wanted' = TRUE
    /\ UNCHANGED <<store, radio, transport, dns, ntp, link, timeWanted>>

Disconnect ==
    /\ AppIdle /\ wanted
    /\ wanted' = FALSE /\ link' = Offline
    /\ Dns!AddressLost
    /\ UNCHANGED <<store, radio, transport, ntp, timeWanted>>

(* sta_refresh_dns, which returns at once without an interface.            *)
StartRefresh ==
    /\ netif /\ Dns!RefreshTest
    /\ UNCHANGED <<store, radio, transport, ntp, station, timeWanted>>

ContinueRefresh ==
    /\ Dns!RefreshSteps
    /\ UNCHANGED <<store, radio, transport, ntp, station, timeWanted>>

StartTime ==
    /\ AppIdle /\ Online /\ timeWanted' = TRUE
    /\ IF s_initialised THEN UNCHANGED ntp ELSE Ntp!ntp_init
    /\ UNCHANGED <<store, radio, transport, dns, station>>

StopTime ==
    /\ AppIdle /\ timeWanted' = FALSE
    /\ Ntp!ntp_stop
    /\ UNCHANGED <<store, radio, transport, dns, station>>

Application ==
    \/ Credentials \/ BringUpRadio \/ UseTransport \/ Connect \/ Disconnect
    \/ StartRefresh \/ ContinueRefresh \/ StartTime \/ StopTime
-----------------------------------------------------------------------------
(***************************************************************************)
(* The network, the stack and the power.                                   *)
(***************************************************************************)
(* IP_EVENT_STA_GOT_IP, at the place the node is at.                       *)
GetsAddress(n, offer) ==
    /\ ready /\ wanted /\ ~Online
    /\ link' = n /\ offer \in Offers[n]
    /\ Dns!GotAddress(offer)
    /\ UNCHANGED <<store, radio, transport, ntp, wanted, timeWanted>>

LosesAddress ==
    /\ Online /\ link' = Offline
    /\ Dns!AddressLost
    /\ UNCHANGED <<store, radio, transport, ntp, wanted, timeWanted>>

RenewsLease(offer) ==
    /\ Online /\ offer \in Offers[link]
    /\ Dns!Renewed(offer)
    /\ UNCHANGED <<store, radio, transport, ntp, station, timeWanted>>

ClearsResolver ==
    /\ Online /\ Dns!Cleared
    /\ UNCHANGED <<store, radio, transport, ntp, station, timeWanted>>

SntpPoll ==
    /\ Online /\ Dns!Resolves(Reachable[link]) /\ Ntp!SntpAnswers
    /\ UNCHANGED <<store, radio, transport, dns, station, timeWanted>>

Restart ==
    /\ Store!StoreRestart \/ \E c \in Configs : Store!SaveInterrupted(c)
    /\ Radio!RadioRestart /\ Transport!TransportRestart /\ Dns!DnsRestart
    /\ Ntp!NtpRestart
    /\ wanted' = FALSE /\ link' = Offline /\ timeWanted' = FALSE

Environment ==
    \/ \E n \in Networks : \E offer \in Offers[n] :
          GetsAddress(n, offer) \/ RenewsLease(offer)
    \/ LosesAddress \/ ClearsResolver \/ SntpPoll \/ Restart

Next == Application \/ Environment

(* The application refreshes the resolver again and again, as the header   *)
(* tells it to while names do not resolve, and SNTP polls.                 *)
Spec ==
    /\ Init /\ [][Next]_vars
    /\ WF_vars(StartRefresh) /\ WF_vars(ContinueRefresh)
    /\ SF_vars(SntpPoll)
-----------------------------------------------------------------------------
(***************************************************************************)
(* Properties.                                                             *)
(***************************************************************************)
(* See EspNowTransport: also the calls for the radio leave the transport   *)
(* what it says it is.                                                     *)
TransportHonest == Transport!TransportHonest

(* See WifiConfigStore: across failed writes and restarts.                 *)
ConfigWhole == Store!ConfigWhole

(* A node that asked for the time gets it, if it stays in a network where  *)
(* one of the servers it keeps answers: however often the stack clears the *)
(* resolver, and in whatever order the handler and a refresh write it.     *)
(* What it keeps is settled when no refresh is about to cache: one that    *)
(* found no server may write over what the handler cached since            *)
(* (wifi_sta.cpp:84-88).                                                   *)
KeptServers == {cached.main, Dns!Slot1(cached)}
Settled     == refresh.at \in {"idle", "slot0", "read", "slot1"}

EventuallySynced ==
    (Online /\ timeWanted /\ Settled /\ KeptServers \cap Reachable[link] # {})
        ~> (Ntp!ntp_is_synced \/ ~Online \/ ~timeWanted)

(* "the router's DNS worked once, it will keep working" (wifi_sta.cpp:82): *)
(* a station that gets an address can ask a server, if the network's DHCP  *)
(* offers one that answers.                                                *)
OfferedServersUsed ==
    [][(~Online /\ Online' /\ {lease'.main, lease'.backup} \cap Reachable[link'] # {})
          => Dns!Resolves(Reachable[link])']_vars
=============================================================================
