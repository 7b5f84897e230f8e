\* One tick is a beacon interval (100 ms); a channel is scanned for three (two
\* in the code) and a confirmation awaited for three (100).  The client knows
\* two channels, the coordinator is on the second.  One slot, so that another
\* client can take it.
SPECIFICATION Spec
CONSTANTS
    ClockMod = 4
    Me = me
    Coord = coord
    Other = other
    OtherDevice = 2
    ZeroMac = zero
    Broadcast = bcast
    OwnChannels = {2}
    MaxPairedClients = 1
    BeaconIntervalMs = 1
    MaxPeers = 3
    ScanChannels <- ScanTwo
    MaxScanChannels = 2
    DeviceId = 1
    DwellMs = 3
    PairingTimeoutMs = 3
    MaxLag = 1
    MaxInFlight = 1
    MaxUpsets = 1
INVARIANTS
    ConfirmedAgreement
    PairedTuned
PROPERTIES
    PairingKept
    EventuallyPairs
