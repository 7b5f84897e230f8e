---------------------------- MODULE MCNetworkNode ----------------------------
(* Two places: a home whose router names one server and lets no other      *)
(* through, and a site that names two, the first of them out of order, or  *)
(* none yet.                                                               *)
EXTENDS NetworkNode

CONSTANTS home, site, A, B, C, G

MCNetworks == {home, site}
MCServers == {A, B, C, G}
Offer(main, backup) == [main |-> main, backup |-> backup]
MCOffers ==
    [n \in MCNetworks |->
        IF n = home THEN {Offer(A, Dns!None)}
                    ELSE {Offer(B, C), Offer(Dns!None, Dns!None)}]
MCReachable == [n \in MCNetworks |-> IF n = home THEN {A} ELSE {C, G}]
=============================================================================
