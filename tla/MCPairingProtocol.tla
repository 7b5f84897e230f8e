------------------------- MODULE MCPairingProtocol -------------------------
EXTENDS PairingProtocol

ScanTwo == <<1, 2>>
=============================================================================
