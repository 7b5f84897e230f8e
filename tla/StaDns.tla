-------------------------------- MODULE StaDns --------------------------------
(***************************************************************************)
(* src/wifi/wifi_sta.cpp: the name servers of the station.                 *)
(* apply_sta_dns_and_route runs in the event task whenever the station gets*)
(* an address, and in the application's task, which the event task may     *)
(* interrupt between any two steps (on one core it is never the other way  *)
(* round).  lwIP has one resolver, with two slots, for all interfaces.     *)
(***************************************************************************)
EXTENDS Integers

CONSTANTS
    Servers,            \* addresses of name servers
    Fallback            \* FALLBACK_DNS_BACKUP, one of them

VARIABLES
    lease,              \* the servers of the station's interface, from DHCP
    cached,             \* s_cached_dns_main, s_cached_dns_backup
    resolver,           \* lwIP's slots 0 and 1
    refresh             \* sta_refresh_dns: where it is, and dns or backup_dns

dnsVars == <<lease, cached, resolver, refresh>>

None    == "0.0.0.0"
Pair    == [main : Servers \cup {None}, backup : Servers \cup {None}]
Nothing == [main |-> None, backup |-> None]
Resting == [at |-> "idle", dns |-> None]

(* Where a refresh goes on with a server of the lease, and after it.       *)
Keep  == [main |-> "keepMain", backup |-> "keepBackup"]
After == [main |-> "backup", backup |-> "slot0"]

DnsTypeOK ==
    /\ lease \in Pair /\ cached \in Pair /\ resolver \in Pair
    /\ refresh \in [at : {"idle", "main", "keepMain", "backup", "keepBackup",
                          "slot0", "read", "slot1"},
                    dns : Servers \cup {None}]

DnsInit ==
    lease = Nothing /\ cached = Nothing /\ resolver = Nothing /\ refresh = Resting

Or(server, other) == IF server = None THEN other ELSE server

(* The servers of the lease are taken until there is a main one, then they *)
(* are kept ("once cached, we never overwrite").                           *)
Snapshot(l, c) ==
    IF c.main # None THEN c
    ELSE [main |-> l.main, backup |-> Or(l.backup, c.backup)]

(* Mutant of Slot0: the first slot is left to DHCP.                        *)
Slot0Left(c, r) == r.main

(* What is written to the slots: the cached servers, and the public one if *)
(* there is no second.                                                     *)
Slot0(c, r) == Or(c.main, r.main)
Slot1(c)    == Or(c.backup, Fallback)

(* The station got an address: DHCP writes its servers into the resolver,  *)
(* then the handler writes the cached ones.                                *)
GotAddress(offer) ==
    /\ lease' = offer
    /\ cached' = Snapshot(offer, cached)
    /\ resolver' = [main |-> Slot0(cached', offer), backup |-> Slot1(cached')]
    /\ UNCHANGED refresh

(* sta_refresh_dns, in steps: without a cached main server ...             *)
RefreshTest ==
    /\ refresh.at = "idle"
    /\ refresh' = [refresh EXCEPT
                     !.at = IF cached.main = None THEN "main" ELSE "slot0"]
    /\ UNCHANGED <<lease, cached, resolver>>

(* ... each server of the lease is read, ...                               *)
RefreshLease(slot) ==
    /\ refresh.at = slot
    /\ refresh' = [at |-> IF lease[slot] = None THEN After[slot] ELSE Keep[slot],
                   dns |-> lease[slot]]
    /\ UNCHANGED <<lease, cached, resolver>>

(* ... and cached, whatever the handler has cached in the meantime.        *)
RefreshKeep(slot) ==
    /\ refresh.at = Keep[slot]
    /\ cached' = [cached EXCEPT ![slot] = refresh.dns]
    /\ refresh' = [at |-> After[slot], dns |-> None]
    /\ UNCHANGED <<lease, resolver>>

(* Slot 0 is written: a cached main server is never taken back, so what is *)
(* tested is what is written, ...                                          *)
RefreshSlot0 ==
    /\ refresh.at = "slot0"
    /\ resolver' = [resolver EXCEPT !.main = Slot0(cached, resolver)]
    /\ refresh' = [refresh EXCEPT !.at = "read"]
    /\ UNCHANGED <<lease, cached>>

(* ... and slot 1 with what s_cached_dns_backup held a moment before.      *)
RefreshRead ==
    /\ refresh.at = "read"
    /\ refresh' = [at |-> "slot1", dns |-> Slot1(cached)]
    /\ UNCHANGED <<lease, cached, resolver>>

RefreshSlot1 ==
    /\ refresh.at = "slot1"
    /\ resolver' = [resolver EXCEPT !.backup = refresh.dns]
    /\ refresh' = Resting
    /\ UNCHANGED <<lease, cached>>

RefreshSteps ==
    \/ \E slot \in {"main", "backup"} : RefreshLease(slot) \/ RefreshKeep(slot)
    \/ RefreshSlot0 \/ RefreshRead \/ RefreshSlot1

(* Something in the stack clears the resolver, silently.                   *)
Cleared == resolver' = Nothing /\ UNCHANGED <<lease, cached, refresh>>

(* DHCP renews the lease, with other servers; the handler is not called.   *)
Renewed(offer) ==
    lease' = offer /\ resolver' = offer /\ UNCHANGED <<cached, refresh>>

AddressLost == lease' = Nothing /\ UNCHANGED <<cached, resolver, refresh>>

DnsRestart ==
    lease' = Nothing /\ cached' = Nothing /\ resolver' = Nothing /\ refresh' = Resting

(* An answer can be had from a server the network lets through.            *)
Resolves(reachable) == {resolver.main, resolver.backup} \cap reachable # {}
=============================================================================
