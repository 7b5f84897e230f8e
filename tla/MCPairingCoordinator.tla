------------------------ MODULE MCPairingCoordinator ------------------------
EXTENDS PairingCoordinator, TLC

(* Nothing but equality is asked of a MAC, and no property is a liveness   *)
(* property.                                                               *)
AnyMac == Permutations(Macs)
=============================================================================
