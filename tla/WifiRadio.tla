------------------------------ MODULE WifiRadio ------------------------------
(***************************************************************************)
(* src/wifi/wifi_ap.cpp, wifi_espnow.cpp and sta_init of wifi_sta.cpp: how *)
(* the radio is brought up, on a node that serves an access point (ap_init)*)
(* or on one that does not (sta_init, which espnow_init calls).            *)
(***************************************************************************)
VARIABLES
    role,               \* "ap" or "sta": which of the two the node calls
    netif,              \* the default network interfaces exist
    driver,             \* esp_wifi: "off", "inited", "mode", "started"
    ready               \* s_ap_active, or s_sta_initialized

radioVars == <<role, netif, driver, ready>>

RadioTypeOK ==
    /\ role \in {"ap", "sta"} /\ netif \in BOOLEAN /\ ready \in BOOLEAN
    /\ driver \in {"off", "inited", "mode", "started"}

RadioInit ==
    /\ role \in {"ap", "sta"} /\ netif = FALSE /\ driver = "off"
    /\ ready = FALSE

(* Each call stops and deinitialises the driver before it starts it; a     *)
(* step that fails leaves it as far as it came.                            *)
Reached ==
    [esp_wifi_init |-> "off", esp_wifi_set_mode |-> "inited",
     esp_wifi_set_config |-> "mode", esp_wifi_start |-> "mode",
     esp_wifi_get_mode |-> "started", esp_wifi_get_channel |-> "started",
     nothing |-> "started"]

ApSteps  == DOMAIN Reached
StaSteps == {"esp_wifi_init", "esp_wifi_set_mode", "esp_wifi_start", "nothing"}

BringUp(fails) ==
    /\ netif' = TRUE
    /\ driver' = Reached[fails]
    /\ ready' = (fails = "nothing")

(* Mutant of MustBringUp: the radio is set up again by every call.         *)
MustBringUpAlways == TRUE

(* A call after one that succeeded returns at once.                        *)
MustBringUp == ~ready

(* ap_init: it creates the interfaces once.  fails names the step that     *)
(* ends the call.                                                          *)
ApInit(fails) ==
    /\ role = "ap" /\ MustBringUp
    /\ fails \in ApSteps
    /\ BringUp(fails)
    /\ UNCHANGED role

(* sta_init: it creates the interface in every call, which ESP-IDF asserts *)
(* is new; the second one, after a call that failed, ends in a restart.    *)
StaInit(fails) ==
    /\ role = "sta" /\ MustBringUp /\ ~netif
    /\ fails \in StaSteps
    /\ BringUp(fails)
    /\ UNCHANGED role

(* The statics are reset; the driver may come up as it was left.           *)
RadioRestart ==
    /\ netif' = FALSE /\ ready' = FALSE
    /\ driver' \in {"off", driver}
    /\ UNCHANGED role
=============================================================================
