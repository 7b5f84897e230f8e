------------------------------ MODULE NtpClient ------------------------------
(***************************************************************************)
(* src/ntp/ntp_client.cpp on the chip: SNTP sets the clock of the system.  *)
(***************************************************************************)
VARIABLES
    s_initialised,
    sntp,               \* ESP-IDF's SNTP service runs
    clock               \* "boot" (1970) or "set" (past 2020)

ntpVars == <<s_initialised, sntp, clock>>

NtpTypeOK == s_initialised \in BOOLEAN /\ sntp \in BOOLEAN /\ clock \in {"boot", "set"}

NtpInit == s_initialised = FALSE /\ sntp = FALSE /\ clock = "boot"

(* A call while the service runs is ignored.                               *)
ntp_init ==
    /\ ~s_initialised
    /\ sntp' = TRUE /\ s_initialised' = TRUE
    /\ UNCHANGED clock

(* Mutant of Stopped: s_initialised is not reset.                          *)
StoppedKept == s_initialised' = s_initialised

Stopped == s_initialised' = FALSE

ntp_stop ==
    /\ s_initialised
    /\ sntp' = FALSE /\ Stopped
    /\ UNCHANGED clock

ntp_is_synced == s_initialised /\ clock = "set"

(* ntp_epoch and what is built on it give a time exactly in this state.    *)
HasTime == clock = "set"

(* The service asked a server and got the time.                            *)
SntpAnswers == sntp /\ clock' = "set" /\ UNCHANGED <<s_initialised, sntp>>

(* The clock outlives a restart that keeps the power.                      *)
NtpRestart ==
    /\ s_initialised' = FALSE /\ sntp' = FALSE
    /\ clock' \in {clock, "boot"}
=============================================================================
