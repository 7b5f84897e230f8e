\* What pairs a client, against pairing_beacon.h:56.
SPECIFICATION Spec
CONSTANTS
    ClockMod = 4
    Me = me
    Coord = coord
    Other = other
    OtherDevice = 2
    ZeroMac = zero
    Broadcast = bcast
    OwnChannels = {2}
    MaxPairedClients = 1
    BeaconIntervalMs = 1
    MaxPeers = 3
    ScanChannels <- ScanTwo
    MaxScanChannels = 2
    DeviceId = 1
    DwellMs = 3
    PairingTimeoutMs = 3
    MaxLag = 1
    MaxInFlight = 1
    MaxUpsets = 1
INVARIANT
    PairedAgreement
