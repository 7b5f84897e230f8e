-------------------------- MODULE MCPairingClient --------------------------
EXTENDS PairingClient

ScanTwo == <<2, 1>>
=============================================================================
