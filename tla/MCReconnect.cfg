SPECIFICATION Spec
CONSTANTS
    ClockMod = 3
    heartbeatTimeoutMs = 1
    degradedGracePeriodMs = 1
    staticProbeIntervalMs = 1
    staticMaxProbes = 1
    dynamicProbeIntervalMs = 1
    bootGracePeriodMs = 1
    ByteMod = 4
    Policies = {"DYNAMIC"}
    RecvPreempts = FALSE
    MaxLag = 1
    SetupMax = 1
    Me = me
    Coord = coord
    ZeroMac = zero
    Broadcast = bcast
    OwnChannels = {1, 3}
    ScanChannels <- ScanThree
    MaxScanChannels = 3
    DeviceId = 1
    DwellMs = 2
    PairingTimeoutMs = 2
    MaxPairedClients = 1
    BeaconIntervalMs = 1
    MaxPeers = 2
    Told = TRUE
    QueueMax = 2
    MaxMoves = 1
INVARIANTS
    TunedWhenConnected
PROPERTIES
    ChannelMovesInSearch
    FoundAgain
