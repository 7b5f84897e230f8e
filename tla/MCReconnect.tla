---------------------------- MODULE MCReconnect ----------------------------
EXTENDS Reconnect

ScanThree == <<1, 2, 3>>
=============================================================================
