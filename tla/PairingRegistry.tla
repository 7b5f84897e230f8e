---------------------------- MODULE PairingRegistry ----------------------------
(***************************************************************************)
(* What the coordinator promises, without slots, crashes and NVS keys: a   *)
(* registry of paired MACs that changes by one client at a time, and the   *)
(* clients that were told they are paired.  Loss of power is no action     *)
(* here: a restart must not be visible in the registry.                    *)
(***************************************************************************)
EXTENDS Naturals, FiniteSets

CONSTANTS
    Macs,               \* the clients there may be
    Capacity            \* how many the registry holds

VARIABLES
    paired,             \* the registered clients
    confirmed           \* those that were told so

Init == paired = {} /\ confirmed = {}

Full == Cardinality(paired) = Capacity

(* A client is registered, and told so or not: the answer may get lost.    *)
Pair(m) ==
    /\ m \notin paired /\ ~Full
    /\ paired' = paired \cup {m}
    /\ confirmed' \in {confirmed, confirmed \cup {m}}

(* ... in the place of another, which only a full registry asks for.       *)
Replace(old, new) ==
    /\ old \in paired /\ new \notin paired /\ Full
    /\ paired' = (paired \ {old}) \cup {new}
    /\ confirmed' \in {confirmed \ {old}, (confirmed \ {old}) \cup {new}}

(* A registered client asks again.                                         *)
Confirm(m) ==
    /\ m \in paired
    /\ confirmed' = confirmed \cup {m}
    /\ UNCHANGED paired

Unpair(m) ==
    /\ m \in paired
    /\ paired' = paired \ {m}
    /\ confirmed' = confirmed \ {m}

Next ==
    \/ \E m \in Macs : Pair(m) \/ Confirm(m) \/ Unpair(m)
    \/ \E old, new \in Macs : Replace(old, new)

Spec == Init /\ [][Next]_<<paired, confirmed>>
=============================================================================
